--------------------------- MODULE AmountsProofs ---------------------------
(***************************************************************************)
(* What is proved of amounts as text, for words of every width and amounts *)
(* of every length: ParseAmount gives what the text denotes, and reads     *)
(* back what FormatAmount writes.                                          *)
(***************************************************************************)
EXTENDS Amounts, FiniteSetTheorems, SequenceTheorems, WellFoundedInduction, TLAPS

-----------------------------------------------------------------------------
(* Induction and recursion over the naturals.                              *)

\* A non-empty set of naturals has a least element.
LEMMA NatMin ==
  ASSUME NEW T, T \subseteq Nat, T # {}
  PROVE  \E x \in T : \A y \in T : x <= y
  <1> DEFINE R == {ss \in Nat \X Nat : ss[1] < ss[2]}
  <1>1. IsWellFoundedOn(R, Nat)
    BY NatLessThanWellFounded DEF OpToRel
  <1>2. PICK x \in T : \A y \in T : ~(<<y, x>> \in R)
    BY <1>1, WFMin
  <1>3. ASSUME NEW y \in T PROVE x <= y
    <2>1. x \in Nat /\ y \in Nat
      BY <1>3
    <2>2. ~(y < x)
      <3>1. <<y, x>> \notin R
        BY <1>2
      <3> QED BY <3>1, <2>1
    <2> QED BY <2>1, <2>2
  <1> QED BY <1>3

\* Induction over the naturals, for a predicate given as a set.
LEMMA SetInduction ==
  ASSUME NEW S, 0 \in S, \A n \in Nat : n \in S => n + 1 \in S
  PROVE  Nat \subseteq S
  <1> SUFFICES ASSUME Nat \ S # {} PROVE FALSE
    OBVIOUS
  <1>1. PICK x \in Nat \ S : \A y \in Nat \ S : x <= y
    BY NatMin
  <1>2. x # 0 /\ x - 1 \in Nat
    BY <1>1
  <1>3. x - 1 \in S
    BY <1>1, <1>2
  <1> QED BY <1>1, <1>2, <1>3

\* A loop over the positions 1..m, from a and with body g: f[k] is its state
\* after k of them.
Loop(f, a, g, m) == f[0] = a /\ \A k \in 1..m : f[k] = g[<<f[k - 1], k>>]

\* What a loop computes is well defined.
LEMMA LoopDefined ==
  ASSUME NEW T, NEW a \in T, NEW g \in [T \X Nat -> T], NEW m \in Nat
  PROVE  \E f \in [0..m -> T] : Loop(f, a, g, m)
  <1> USE DEF Loop
  <1> DEFINE D == {n \in Nat : \E f \in [0..n -> T] : Loop(f, a, g, n)}
  <1>1. 0 \in D
    <2> DEFINE f == [k \in 0..0 |-> a]
    <2>1. f \in [0..0 -> T] /\ Loop(f, a, g, 0)
      OBVIOUS
    <2> QED BY <2>1
  <1>2. ASSUME NEW n \in Nat, n \in D PROVE n + 1 \in D
    <2>1. PICK f \in [0..n -> T] : Loop(f, a, g, n)
      BY <1>2
    <2> DEFINE h == [k \in 0..(n + 1) |-> IF k = n + 1 THEN g[<<f[n], k>>] ELSE f[k]]
    <2>2. \A k \in 0..n : h[k] = f[k]
      OBVIOUS
    <2>3. h[n + 1] = g[<<f[n], n + 1>>]
      OBVIOUS
    <2>4. h \in [0..(n + 1) -> T]
      <3>1. <<f[n], n + 1>> \in T \X Nat
        OBVIOUS
      <3>2. g[<<f[n], n + 1>>] \in T
        BY <3>1
      <3> QED BY <3>2
    <2> HIDE DEF h
    <2>5. ASSUME NEW k \in 1..(n + 1) PROVE h[k] = g[<<h[k - 1], k>>]
      <3>1. CASE k = n + 1
        <4>1. k - 1 = n /\ n \in 0..n
          BY <3>1
        <4> QED BY <2>2, <2>3, <3>1, <4>1
      <3>2. CASE k # n + 1
        <4>1. k \in 1..n /\ k \in 0..n /\ k - 1 \in 0..n
          BY <3>2
        <4> QED BY <2>1, <2>2, <4>1
      <3> QED BY <3>1, <3>2
    <2>6. h[0] = a
      <3>1. 0 \in 0..n
        OBVIOUS
      <3> QED BY <2>1, <2>2, <3>1
    <2>7. \E ff \in [0..(n + 1) -> T] : Loop(ff, a, g, n + 1)
      BY <2>4, <2>5, <2>6
    <2> HIDE DEF Loop
    <2>8. n + 1 \in Nat
      OBVIOUS
    <2> QED BY <2>7, <2>8
  <1> HIDE DEF D
  <1>3. m \in D
    BY <1>1, <1>2, SetInduction
  <1> QED BY <1>3 DEF D

\* Two runs of one loop agree as far as both go.
LEMMA LoopUnique ==
  ASSUME NEW a, NEW g, NEW m \in Nat, NEW e, NEW f,
         Loop(e, a, g, m), Loop(f, a, g, m)
  PROVE  \A k \in 0..m : e[k] = f[k]
  <1> USE DEF Loop
  <1> DEFINE D == {n \in Nat : n <= m => e[n] = f[n]}
  <1>1. 0 \in D
    OBVIOUS
  <1>2. ASSUME NEW n \in Nat, n \in D PROVE n + 1 \in D
    <2>1. SUFFICES ASSUME n + 1 <= m PROVE e[n + 1] = f[n + 1]
      OBVIOUS
    <2> DEFINE k == n + 1
    <2>2. k \in 1..m /\ k - 1 = n
      BY <2>1
    <2>3. e[n] = f[n]
      BY <1>2, <2>1
    <2> HIDE DEF k
    <2>4. e[k] = f[k]
      BY <2>2, <2>3
    <2> QED BY <2>4 DEF k
  <1> HIDE DEF D
  <1>3. Nat \subseteq D
    BY <1>1, <1>2, SetInduction
  <1> QED BY <1>3 DEF D

-----------------------------------------------------------------------------
(* The powers of ten.                                                      *)

\* The table: each entry is ten times the one before.
LEMMA Powers ==
  /\ pow10 \in [Nat -> Nat \ {0}]
  /\ pow10[0] = 1
  /\ \A k \in Nat : pow10[k + 1] = 10 * pow10[k]
  <1> DEFINE T == Nat \ {0}
             g == [x \in T \X Nat |-> 10 * x[1]]
  <1>1. g \in [T \X Nat -> T] /\ 1 \in T
    OBVIOUS
  <1>2. \A x \in T, k \in Nat : g[<<x, k>>] = 10 * x
    OBVIOUS
  <1> HIDE DEF g
  <1>3. \A m \in Nat : \E f \in [0..m -> T] : Loop(f, 1, g, m)
    <2> TAKE m \in Nat
    <2> HIDE DEF T
    <2> QED BY <1>1, LoopDefined
  <1> DEFINE F == [m \in Nat |-> CHOOSE f \in [0..m -> T] : Loop(f, 1, g, m)]
             h == [n \in Nat |-> F[n][n]]
  <1>4. \A m \in Nat : F[m] \in [0..m -> T] /\ Loop(F[m], 1, g, m)
    BY <1>3
  <1> HIDE DEF F
  <1>5. h \in [Nat -> T]
    BY <1>4
  <1>6. h[0] = 1
    BY <1>4 DEF Loop
  <1>7. ASSUME NEW n \in Nat PROVE h[n + 1] = 10 * h[n]
    <2>1. /\ F[n] \in [0..n -> T] /\ Loop(F[n], 1, g, n)
          /\ F[n + 1] \in [0..(n + 1) -> T] /\ Loop(F[n + 1], 1, g, n + 1)
      <3> DEFINE m == n + 1
      <3>1. m \in Nat
        OBVIOUS
      <3> HIDE DEF T, m
      <3>2. F[m] \in [0..m -> T] /\ Loop(F[m], 1, g, m)
        BY <1>4, <3>1, Zenon
      <3>3. F[n] \in [0..n -> T] /\ Loop(F[n], 1, g, n)
        BY <1>4, Zenon
      <3> QED BY <3>2, <3>3 DEF m
    <2>3. F[n + 1][n] = F[n][n]
      <3> DEFINE e == F[n + 1]
                 f == F[n]
      <3>1. Loop(e, 1, g, n + 1) /\ Loop(f, 1, g, n)
        BY <2>1
      <3> HIDE DEF e, f
      <3>2. \A k \in 1..n : k \in 1..(n + 1)
        OBVIOUS
      <3>3. Loop(e, 1, g, n)
        BY <3>1, <3>2 DEF Loop
      <3>4. \A k \in 0..n : e[k] = f[k]
        BY <3>1, <3>3, LoopUnique
      <3> QED BY <3>4 DEF e, f
    <2> DEFINE k == n + 1
    <2>4. k \in 1..k /\ k - 1 = n /\ k \in Nat
      OBVIOUS
    <2>5. F[k][k] = g[<<F[k][n], k>>]
      <3> HIDE DEF k
      <3> QED BY <1>4, <2>4 DEF Loop
    <2>6. F[k][n] \in T
      BY <2>1
    <2> QED BY <1>2, <2>3, <2>4, <2>5, <2>6
  <1> HIDE DEF h
  <1>8. h = [k \in Nat |-> IF k = 0 THEN 1 ELSE 10 * h[k - 1]]
    <2> DEFINE e == [k \in Nat |-> IF k = 0 THEN 1 ELSE 10 * h[k - 1]]
    <2>1. ASSUME NEW k \in Nat PROVE h[k] = e[k]
      <3>1. CASE k = 0
        BY <1>6, <3>1
      <3>2. CASE k # 0
        <4>1. k - 1 \in Nat /\ (k - 1) + 1 = k
          BY <3>2
        <4> QED BY <1>7, <3>2, <4>1
      <3> QED BY <3>1, <3>2
    <2>2. DOMAIN h = DOMAIN e
      BY <1>5
    <2> HIDE DEF e
    <2>3. h = e
      <3>1. h = [k \in Nat |-> h[k]] /\ e = [k \in Nat |-> e[k]]
        BY <1>5 DEF e
      <3> QED BY <2>1, <3>1
    <2> QED BY <2>3 DEF e
  <1>9. pow10 = [k \in Nat |-> IF k = 0 THEN 1 ELSE 10 * pow10[k - 1]]
    BY <1>8 DEF pow10
  <1>10. pow10[0] = 1 /\ \A k \in Nat \ {0} : pow10[k] = 10 * pow10[k - 1]
    BY <1>9
  <1>11. ASSUME NEW k \in Nat PROVE pow10[k + 1] = 10 * pow10[k]
    <2>1. k + 1 \in Nat \ {0} /\ (k + 1) - 1 = k
      OBVIOUS
    <2> QED BY <1>10, <2>1
  <1> DEFINE D == {k \in Nat : pow10[k] \in Nat \ {0}}
  <1>12. Nat \subseteq D
    <2>1. 0 \in D
      BY <1>10
    <2>2. ASSUME NEW k \in Nat, k \in D PROVE k + 1 \in D
      BY <1>11, <2>2
    <2> HIDE DEF D
    <2> QED BY <2>1, <2>2, SetInduction
  <1>13. pow10 = [k \in Nat |-> pow10[k]]
    BY <1>9
  <1> QED BY <1>10, <1>11, <1>12, <1>13

\* A power is at least one.
LEMMA PowersPositive ==
  ASSUME NEW k \in Nat
  PROVE  pow10[k] \in Nat /\ pow10[k] >= 1
  <1>1. pow10[k] \in Nat \ {0}
    BY Powers
  <1> QED BY <1>1

-----------------------------------------------------------------------------
(* Reading a sequence from left to right.                                  *)

\* v[k] is what is known after k elements of s, from a and by g.
Scan(v, a, g, s) == v[0] = a /\ \A k \in 1..Len(s) : v[k] = g[<<v[k - 1], s[k]>>]

Reader(T, E, a, g) == a \in T /\ g \in [T \X E -> T]

\* What is known after the whole of s.
Fold(a, g, s) == (CHOOSE v : DOMAIN v = 0..Len(s) /\ Scan(v, a, g, s))[Len(s)]

\* Induction over sequences, for a predicate given as a set.
LEMMA SeqInduction ==
  ASSUME NEW E, NEW S, <<>> \in S,
         \A s \in Seq(E), d \in E : s \in S => Append(s, d) \in S
  PROVE  Seq(E) \subseteq S
  <1> DEFINE D == {n \in Nat : \A s \in Seq(E) : Len(s) = n => s \in S}
  <1>1. 0 \in D
    <2>1. \A s \in Seq(E) : Len(s) = 0 => s = <<>>
      BY EmptySeq
    <2> QED BY <2>1
  <1>2. ASSUME NEW n \in Nat, n \in D PROVE n + 1 \in D
    <2>1. ASSUME NEW s \in Seq(E), Len(s) = n + 1 PROVE s \in S
      <3> DEFINE t == SubSeq(s, 1, n)
      <3>1. t \in Seq(E) /\ Len(t) = n /\ s[n + 1] \in E
        <4>1. \A i \in 1..n : s[i] \in E
          BY <2>1, ElementOfSeq
        <4>2. n + 1 \in 1..Len(s)
          BY <2>1
        <4> QED BY <2>1, <4>1, <4>2, ElementOfSeq, SubSeqProperties
      <3>2. s = Append(t, s[n + 1])
        <4>1. \A i \in 1..n : t[i] = s[i]
          BY <2>1, SubSeqProperties
        <4> HIDE DEF t
        <4>2. /\ Append(t, s[n + 1]) \in Seq(E) /\ Len(Append(t, s[n + 1])) = n + 1
              /\ \A i \in 1..n : Append(t, s[n + 1])[i] = t[i]
              /\ Append(t, s[n + 1])[n + 1] = s[n + 1]
          BY <3>1, AppendProperties
        <4>3. \A i \in 1..(n + 1) : i = n + 1 \/ i \in 1..n
          OBVIOUS
        <4>4. \A i \in 1..Len(s) : s[i] = Append(t, s[n + 1])[i]
          BY <2>1, <4>1, <4>2, <4>3
        <4> QED BY <2>1, <4>2, <4>4, SeqEqual
      <3> HIDE DEF t
      <3>3. t \in S
        BY <1>2, <3>1
      <3> QED BY <3>1, <3>2, <3>3
    <2>2. n + 1 \in Nat
      OBVIOUS
    <2> QED BY <2>1, <2>2
  <1> HIDE DEF D
  <1>3. Nat \subseteq D
    BY <1>1, <1>2, SetInduction
  <1> QED BY <1>3, LenProperties DEF D

\* A scan exists.
LEMMA ScanDefined ==
  ASSUME NEW T, NEW E, NEW a, NEW g, Reader(T, E, a, g), NEW s \in Seq(E)
  PROVE  \E v \in [0..Len(s) -> T] : Scan(v, a, g, s)
  <1>0. a \in T /\ g \in [T \X E -> T]
    BY DEF Reader
  <1> DEFINE h == [x \in T \X Nat |-> IF x[2] \in 1..Len(s) THEN g[<<x[1], s[x[2]]>>] ELSE x[1]]
  <1>1. Len(s) \in Nat /\ \A k \in 1..Len(s) : s[k] \in E
    BY ElementOfSeq, LenProperties
  <1>2. \A x \in T, k \in 1..Len(s) : h[<<x, k>>] = g[<<x, s[k]>>]
    BY <1>1
  <1>3. h \in [T \X Nat -> T]
    <2>1. ASSUME NEW x \in T \X Nat
          PROVE  (IF x[2] \in 1..Len(s) THEN g[<<x[1], s[x[2]]>>] ELSE x[1]) \in T
      <3>1. x[1] \in T
        OBVIOUS
      <3>2. CASE x[2] \in 1..Len(s)
        <4>1. <<x[1], s[x[2]]>> \in T \X E
          BY <1>1, <3>1, <3>2
        <4> QED BY <1>0, <4>1, <3>2
      <3> QED BY <3>1, <3>2
    <2> QED BY <2>1
  <1> HIDE DEF h
  <1>4. PICK v \in [0..Len(s) -> T] : Loop(v, a, h, Len(s))
    BY <1>0, <1>1, <1>3, LoopDefined
  <1>5. Scan(v, a, g, s)
    <2>1. \A k \in 1..Len(s) : k - 1 \in 0..Len(s) /\ k \in Nat
      BY <1>1
    <2>2. \A k \in 1..Len(s) : v[k] = h[<<v[k - 1], k>>] /\ v[k - 1] \in T
      BY <1>4, <2>1 DEF Loop
    <2>3. \A k \in 1..Len(s) : v[k] = g[<<v[k - 1], s[k]>>]
      BY <1>2, <2>2
    <2> QED BY <1>4, <2>3 DEF Loop, Scan
  <1> QED BY <1>5

\* Sequences with a common beginning.
Agree(s, t, m) ==
    /\ {Len(s), Len(t), m} \subseteq Nat /\ m <= Len(s) /\ m <= Len(t)
    /\ \A k \in 1..m : s[k] = t[k]

\* Their scans agree on it.
LEMMA ScanPrefix ==
  ASSUME NEW a, NEW g, NEW m, NEW s, NEW t, NEW v, NEW w,
         Agree(s, t, m), Scan(v, a, g, s), Scan(w, a, g, t)
  PROVE  \A k \in 0..m : v[k] = w[k]
  <1> DEFINE D == {n \in Nat : n <= m => v[n] = w[n]}
  <1>0. /\ Len(s) \in Nat /\ Len(t) \in Nat /\ m \in Nat /\ m <= Len(s) /\ m <= Len(t)
        /\ \A k \in 1..m : s[k] = t[k]
    BY DEF Agree
  <1>1. 0 \in D
    BY DEF Scan
  <1>2. ASSUME NEW n \in Nat, n \in D PROVE n + 1 \in D
    <2>1. SUFFICES ASSUME n + 1 <= m PROVE v[n + 1] = w[n + 1]
      OBVIOUS
    <2> DEFINE k == n + 1
    <2>2. k \in 1..m /\ k \in 1..Len(s) /\ k \in 1..Len(t) /\ k - 1 = n
      BY <1>0, <2>1
    <2>3. v[n] = w[n]
      BY <1>0, <1>2, <2>1
    <2> HIDE DEF k
    <2>4. v[k] = w[k]
      BY <1>0, <2>2, <2>3 DEF Scan
    <2> QED BY <2>4 DEF k
  <1> HIDE DEF D
  <1>3. Nat \subseteq D
    BY <1>1, <1>2, SetInduction
  <1> QED BY <1>0, <1>3 DEF D

\* Any scan ends in the fold.
LEMMA FoldOfScan ==
  ASSUME NEW T, NEW E, NEW a, NEW g, Reader(T, E, a, g), NEW s \in Seq(E), NEW v,
         Scan(v, a, g, s)
  PROVE  Fold(a, g, s) = v[Len(s)] /\ Fold(a, g, s) \in T
  <1>1. PICK u \in [0..Len(s) -> T] : Scan(u, a, g, s)
    BY ScanDefined
  <1> DEFINE w == CHOOSE x : DOMAIN x = 0..Len(s) /\ Scan(x, a, g, s)
  <1>2. Scan(w, a, g, s)
    BY <1>1
  <1>3. Fold(a, g, s) = w[Len(s)]
    BY DEF Fold
  <1> HIDE DEF w
  <1>4. Len(s) \in Nat /\ Len(s) \in 0..Len(s)
    BY LenProperties
  <1> DEFINE m == Len(s)
  <1>5. Agree(s, s, m)
    BY <1>4 DEF Agree
  <1> HIDE DEF m
  <1>6. \A k \in 0..m : w[k] = v[k]
    BY <1>2, <1>5, ScanPrefix
  <1>7. \A k \in 0..m : w[k] = u[k]
    BY <1>1, <1>2, <1>5, ScanPrefix
  <1> QED BY <1>1, <1>3, <1>4, <1>6, <1>7 DEF m

\* The fold of nothing.
LEMMA FoldEmpty ==
  ASSUME NEW T, NEW E, NEW a, NEW g, Reader(T, E, a, g)
  PROVE  Fold(a, g, <<>>) = a
  <1>1. <<>> \in Seq(E) /\ Len(<<>>) = 0
    OBVIOUS
  <1>2. PICK v \in [0..Len(<<>>) -> T] : Scan(v, a, g, <<>>)
    BY <1>1, ScanDefined
  <1>3. Fold(a, g, <<>>) = v[0]
    BY <1>1, <1>2, FoldOfScan
  <1> QED BY <1>2, <1>3 DEF Scan

\* The fold, one element at a time.
LEMMA FoldStep ==
  ASSUME NEW T, NEW E, NEW a, NEW g, Reader(T, E, a, g), NEW s \in Seq(E), NEW d \in E
  PROVE  /\ Fold(a, g, s) \in T
         /\ Fold(a, g, Append(s, d)) = g[<<Fold(a, g, s), d>>]
  <1> DEFINE t == Append(s, d)
  <1>2. /\ t \in Seq(E) /\ Len(t) = Len(s) + 1 /\ Len(s) \in Nat /\ t[Len(s) + 1] = d
        /\ \A k \in 1..Len(s) : s[k] = t[k]
    BY AppendProperties
  <1> HIDE DEF t
  <1>3. PICK v \in [0..Len(s) -> T] : Scan(v, a, g, s)
    BY ScanDefined
  <1>4. PICK w \in [0..Len(t) -> T] : Scan(w, a, g, t)
    BY <1>2, ScanDefined
  <1>5. Fold(a, g, s) = v[Len(s)] /\ Fold(a, g, s) \in T
    BY <1>3, FoldOfScan
  <1>6. Fold(a, g, t) = w[Len(t)]
    BY <1>2, <1>4, FoldOfScan
  <1>7. v[Len(s)] = w[Len(s)]
    <2> DEFINE m == Len(s)
    <2>1. Agree(s, t, m) /\ m \in 0..m
      BY <1>2 DEF Agree
    <2> HIDE DEF m
    <2>2. \A k \in 0..m : v[k] = w[k]
      BY <1>3, <1>4, <2>1, ScanPrefix
    <2> QED BY <2>1, <2>2 DEF m
  <1>8. w[Len(t)] = g[<<w[Len(s)], d>>]
    <2>1. Len(t) \in 1..Len(t) /\ Len(t) - 1 = Len(s) /\ t[Len(t)] = d
      BY <1>2
    <2> QED BY <1>4, <2>1 DEF Scan
  <1> QED BY <1>5, <1>6, <1>7, <1>8 DEF t

\* The fold of two sequences goes on where the first one ended.
LEMMA FoldConcat ==
  ASSUME NEW T, NEW E, NEW a, NEW g, Reader(T, E, a, g), NEW s \in Seq(E), NEW t \in Seq(E)
  PROVE  Fold(a, g, s \o t) = Fold(Fold(a, g, s), g, t)
  <1> DEFINE b == Fold(a, g, s)
             S == {u \in Seq(E) : Fold(a, g, s \o u) = Fold(b, g, u)}
  <1>0. b \in T
    <2>1. PICK v \in [0..Len(s) -> T] : Scan(v, a, g, s)
      BY ScanDefined
    <2> QED BY <2>1, FoldOfScan
  <1>b. Reader(T, E, b, g)
    BY <1>0 DEF Reader
  <1> HIDE DEF b
  <1>1. <<>> \in S
    <2>1. s \o <<>> = s /\ <<>> \in Seq(E)
      BY ConcatEmptySeq
    <2>4. Fold(b, g, <<>>) = b
      BY <1>b, FoldEmpty
    <2> QED BY <2>1, <2>4 DEF b
  <1>2. ASSUME NEW u \in Seq(E), NEW d \in E, u \in S PROVE Append(u, d) \in S
    <2>1. s \o u \in Seq(E) /\ Append(u, d) \in Seq(E)
      BY ConcatProperties, AppendProperties
    <2>2. s \o Append(u, d) = Append(s \o u, d)
      OBVIOUS
    <2>3. Fold(a, g, Append(s \o u, d)) = g[<<Fold(a, g, s \o u), d>>]
      <3> DEFINE x == s \o u
      <3>1. x \in Seq(E)
        BY <2>1
      <3> HIDE DEF x
      <3>2. Fold(a, g, Append(x, d)) = g[<<Fold(a, g, x), d>>]
        BY <3>1, FoldStep
      <3> QED BY <3>2 DEF x
    <2>4. Fold(b, g, Append(u, d)) = g[<<Fold(b, g, u), d>>]
      BY <1>b, FoldStep
    <2>5. Fold(a, g, s \o u) = Fold(b, g, u)
      BY <1>2
    <2> QED BY <2>1, <2>2, <2>3, <2>4, <2>5
  <1> HIDE DEF S
  <1>3. t \in S
    BY <1>1, <1>2, SeqInduction
  <1> QED BY <1>3 DEF S, b

-----------------------------------------------------------------------------
(* Strings of digits.                                                      *)

\* One more digit.
shift == [x \in Nat \X Nat |-> 10 * x[1] + x[2]]

\* Reading digits is a fold.
LEMMA ShiftReads ==
  /\ \A b \in Nat : Reader(Nat, Nat, b, shift)
  /\ \A n, d \in Nat : shift[<<n, d>>] = 10 * n + d
  BY DEF Reader, shift

\* SetString, digit by digit.
LEMMA SetStringFold ==
  ASSUME NEW s \in Seq(Nat)
  PROVE  SetString(s) = Fold(0, shift, s)
  <1>1. Reader(Nat, Nat, 0, shift) /\ Len(s) \in Nat /\ \A k \in 1..Len(s) : s[k] \in Nat
    BY ShiftReads, ElementOfSeq, LenProperties
  <1>2. PICK v \in [0..Len(s) -> Nat] : Scan(v, 0, shift, s)
    BY <1>1, ScanDefined
  <1>3. \A k \in 1..Len(s) : k - 1 \in 0..Len(s)
    BY <1>1
  <1>4. v[0] = 0 /\ \A k \in 1..Len(s) : v[k] = 10 * v[k - 1] + s[k]
    <2>1. \A k \in 1..Len(s) : v[k - 1] \in Nat
      BY <1>3
    <2> QED BY <1>1, <1>2, <2>1, ShiftReads DEF Scan
  <1>5. v = [k \in 0..Len(s) |-> IF k = 0 THEN 0 ELSE 10 * v[k - 1] + s[k]]
    <2> DEFINE u == [k \in 0..Len(s) |-> IF k = 0 THEN 0 ELSE 10 * v[k - 1] + s[k]]
    <2>1. \A k \in 0..Len(s) : k = 0 \/ k \in 1..Len(s)
      BY <1>1
    <2>2. \A k \in 0..Len(s) : v[k] = u[k]
      BY <1>4, <2>1
    <2>3. v = [k \in 0..Len(s) |-> v[k]] /\ u = [k \in 0..Len(s) |-> u[k]]
      OBVIOUS
    <2> HIDE DEF u
    <2>4. v = u
      BY <2>2, <2>3
    <2> QED BY <2>4 DEF u
  <1> DEFINE w == CHOOSE w : w = [k \in 0..Len(s) |-> IF k = 0 THEN 0 ELSE 10 * w[k - 1] + s[k]]
  <1>6. w = [k \in 0..Len(s) |-> IF k = 0 THEN 0 ELSE 10 * w[k - 1] + s[k]]
    BY <1>5
  <1>7. SetString(s) = w[Len(s)]
    BY DEF SetString
  <1> HIDE DEF w
  <1>8. w[0] = 0 /\ \A k \in 1..Len(s) : w[k] = 10 * w[k - 1] + s[k]
    <2>1. 0 \in 0..Len(s) /\ \A k \in 1..Len(s) : k \in 0..Len(s) /\ k # 0
      BY <1>1
    <2> QED BY <1>6, <2>1
  <1> DEFINE D == {n \in Nat : n <= Len(s) => w[n] = v[n]}
  <1>9. 0 \in D
    BY <1>4, <1>8
  <1>10. ASSUME NEW n \in Nat, n \in D PROVE n + 1 \in D
    <2>1. SUFFICES ASSUME n + 1 <= Len(s) PROVE w[n + 1] = v[n + 1]
      OBVIOUS
    <2> DEFINE k == n + 1
    <2>2. k \in 1..Len(s) /\ k - 1 = n /\ n <= Len(s)
      BY <1>1, <2>1
    <2> HIDE DEF k
    <2>3. w[k] = v[k]
      BY <1>4, <1>8, <1>10, <2>2
    <2> QED BY <2>3 DEF k
  <1> HIDE DEF D
  <1>11. Len(s) \in D
    BY <1>1, <1>9, <1>10, SetInduction
  <1>12. Fold(0, shift, s) = v[Len(s)]
    BY <1>1, <1>2, FoldOfScan
  <1> QED BY <1>1, <1>7, <1>11, <1>12 DEF D

\* The numbers on the way.
LEMMA SetStringScan ==
  ASSUME NEW s \in Seq(Nat)
  PROVE  \E h \in [0..Len(s) -> Nat] :
            /\ h[0] = 0 /\ \A k \in 1..Len(s) : h[k] = 10 * h[k - 1] + s[k]
            /\ SetString(s) = h[Len(s)]
  <1>1. Len(s) \in Nat /\ \A k \in 1..Len(s) : s[k] \in Nat
    BY ElementOfSeq, LenProperties
  <1>2. PICK h \in [0..Len(s) -> Nat] : Scan(h, 0, shift, s)
    BY ShiftReads, ScanDefined
  <1>3. SetString(s) = h[Len(s)]
    BY <1>2, ShiftReads, SetStringFold, FoldOfScan
  <1>4. ASSUME NEW k \in 1..Len(s) PROVE h[k] = 10 * h[k - 1] + s[k]
    <2>1. k - 1 \in 0..Len(s)
      BY <1>1
    <2>2. h[k - 1] \in Nat /\ s[k] \in Nat
      BY <1>1, <2>1
    <2> QED BY <1>2, <2>2, ShiftReads DEF Scan
  <1> QED BY <1>2, <1>3, <1>4 DEF Scan

\* No digits.
LEMMA SetStringEmpty == <<>> \in Seq(Nat) /\ Len(<<>>) = 0 /\ SetString(<<>>) = 0
  <1>1. <<>> \in Seq(Nat) /\ Len(<<>>) = 0
    OBVIOUS
  <1>2. Fold(0, shift, <<>>) = 0
    BY ShiftReads, FoldEmpty
  <1> QED BY <1>1, <1>2, SetStringFold

\* One more digit.
LEMMA SetStringStep ==
  ASSUME NEW s \in Seq(Nat), NEW d \in Nat
  PROVE  /\ SetString(s) \in Nat
         /\ SetString(Append(s, d)) = 10 * SetString(s) + d
  <1>1. Reader(Nat, Nat, 0, shift)
    BY ShiftReads
  <1>3. /\ Fold(0, shift, s) \in Nat
        /\ Fold(0, shift, Append(s, d)) = shift[<<Fold(0, shift, s), d>>]
    BY <1>1, FoldStep
  <1>4. Append(s, d) \in Seq(Nat)
    BY AppendProperties
  <1>5. SetString(s) = Fold(0, shift, s) /\ SetString(Append(s, d)) = Fold(0, shift, Append(s, d))
    BY <1>4, SetStringFold
  <1> QED BY <1>3, <1>5, ShiftReads

\* Digits after digits.
LEMMA SetStringConcat ==
  ASSUME NEW s \in Seq(Nat), NEW t \in Seq(Nat)
  PROVE  SetString(s \o t) = SetString(s) * pow10[Len(t)] + SetString(t)
  <1> DEFINE b == SetString(s)
             S == {u \in Seq(Nat) : SetString(s \o u) = b * pow10[Len(u)] + SetString(u)}
  <1>0. b \in Nat
    BY SetStringStep
  <1>1. <<>> \in S
    <2>1. s \o <<>> = s /\ <<>> \in Seq(Nat) /\ Len(<<>>) = 0 /\ SetString(<<>>) = 0
      BY ConcatEmptySeq, SetStringEmpty
    <2>2. b = b * 1 + 0
      BY <1>0
    <2> QED BY <2>1, <2>2, Powers
  <1>2. ASSUME NEW u \in Seq(Nat), NEW d \in Nat, u \in S PROVE Append(u, d) \in S
    <2>1. s \o u \in Seq(Nat) /\ Append(u, d) \in Seq(Nat) /\ Len(Append(u, d)) = Len(u) + 1
          /\ Len(u) \in Nat
      BY ConcatProperties, AppendProperties
    <2>2. s \o Append(u, d) = Append(s \o u, d)
      OBVIOUS
    <2> DEFINE x == s \o u
               p == pow10[Len(u)]
               y == SetString(u)
    <2>3. SetString(Append(x, d)) = 10 * SetString(x) + d
      <3>1. x \in Seq(Nat)
        BY <2>1
      <3> HIDE DEF x
      <3> QED BY <3>1, SetStringStep
    <2>4. SetString(Append(u, d)) = 10 * y + d /\ y \in Nat
      BY SetStringStep
    <2>5. SetString(x) = b * p + y
      BY <1>2
    <2>6. pow10[Len(Append(u, d))] = 10 * p /\ p \in Nat
      BY <2>1, Powers
    <2> HIDE DEF b, p, y
    <2>7. 10 * (b * p + y) + d = b * (10 * p) + (10 * y + d)
      BY <1>0, <2>4, <2>6
    <2>8. SetString(s \o Append(u, d)) = b * pow10[Len(Append(u, d))] + SetString(Append(u, d))
      BY <2>2, <2>3, <2>4, <2>5, <2>6, <2>7
    <2> QED BY <2>1, <2>8
  <1> HIDE DEF S
  <1>3. t \in S
    BY <1>1, <1>2, SeqInduction
  <1> QED BY <1>3 DEF S, b

\* Digits read as less than the power of ten of their number.
LEMMA SetStringBound ==
  ASSUME NEW s \in Seq(Digit)
  PROVE  s \in Seq(Nat) /\ SetString(s) \in Nat /\ SetString(s) < pow10[Len(s)]
  <1> DEFINE S == {u \in Seq(Nat) : SetString(u) < pow10[Len(u)]}
  <1>1. <<>> \in S
    <2> QED BY SetStringEmpty, Powers
  <1>2. ASSUME NEW u \in Seq(Digit), NEW d \in Digit, u \in S PROVE Append(u, d) \in S
    <2>1. u \in Seq(Nat) /\ d \in 0..9 /\ d \in Nat
      BY <1>2 DEF Digit
    <2>2. Append(u, d) \in Seq(Nat) /\ Len(Append(u, d)) = Len(u) + 1 /\ Len(u) \in Nat
      BY <2>1, AppendProperties
    <2>3. SetString(u) \in Nat /\ SetString(Append(u, d)) = 10 * SetString(u) + d
      BY <2>1, SetStringStep
    <2>4. pow10[Len(u) + 1] = 10 * pow10[Len(u)] /\ pow10[Len(u)] \in Nat
      BY <2>2, Powers
    <2>5. SetString(u) < pow10[Len(u)]
      BY <1>2
    <2>6. SetString(Append(u, d)) < pow10[Len(Append(u, d))]
      BY <2>1, <2>2, <2>3, <2>4, <2>5
    <2> QED BY <2>2, <2>6
  <1> HIDE DEF S
  <1>3. s \in S
    BY <1>1, <1>2, SeqInduction
  <1>4. s \in Seq(Nat) /\ SetString(s) < pow10[Len(s)]
    BY <1>3 DEF S
  <1>5. SetString(s) \in Nat
    <2>1. 0 \in Nat
      OBVIOUS
    <2> QED BY <1>4, <2>1, SetStringStep
  <1> QED BY <1>4, <1>5

\* Zeros are worth nothing.
LEMMA SetStringZeros ==
  ASSUME NEW n \in Nat
  PROVE  Zeros(n) \in Seq(Digit) /\ Len(Zeros(n)) = n /\ SetString(Zeros(n)) = 0
  <1> DEFINE D == {m \in Nat : SetString(Zeros(m)) = 0}
  <1>0. ASSUME NEW m \in Nat
        PROVE  Zeros(m) \in Seq(Digit) /\ Zeros(m) \in Seq(Nat) /\ Len(Zeros(m)) = m
    BY DEF Zeros, Digit
  <1>1. 0 \in D
    <2>1. Zeros(0) = <<>>
      BY DEF Zeros
    <2> QED BY <2>1, SetStringEmpty
  <1>2. ASSUME NEW m \in Nat, m \in D PROVE m + 1 \in D
    <2>1. Zeros(m + 1) = Append(Zeros(m), 0)
      <3> DEFINE z == Zeros(m)
                 y == Zeros(m + 1)
      <3>1. /\ Append(z, 0) \in Seq(Nat) /\ Len(Append(z, 0)) = m + 1
            /\ \A i \in 1..m : Append(z, 0)[i] = z[i]
            /\ Append(z, 0)[m + 1] = 0
        BY <1>0, AppendProperties
      <3>2. \A i \in 1..(m + 1) : y[i] = 0
        BY DEF Zeros
      <3>3. \A i \in 1..m : z[i] = 0
        BY DEF Zeros
      <3>4. \A i \in 1..(m + 1) : i = m + 1 \/ i \in 1..m
        OBVIOUS
      <3>5. y \in Seq(Nat) /\ Len(y) = m + 1
        BY <1>0
      <3> HIDE DEF y, z
      <3>6. \A i \in 1..Len(y) : y[i] = Append(z, 0)[i]
        BY <3>1, <3>2, <3>3, <3>4, <3>5
      <3> QED BY <3>1, <3>5, <3>6, SeqEqual DEF y, z
    <2>2. SetString(Append(Zeros(m), 0)) = 10 * SetString(Zeros(m)) + 0
      BY <1>0, SetStringStep
    <2>3. SetString(Zeros(m)) = 0 /\ m + 1 \in Nat
      BY <1>2
    <2>4. SetString(Zeros(m + 1)) = 0
      <3> DEFINE y == Zeros(m + 1)
                 z == Append(Zeros(m), 0)
      <3>1. y = z /\ SetString(z) = 0
        BY <2>1, <2>2, <2>3
      <3> HIDE DEF y, z
      <3>2. SetString(y) = 0
        BY <3>1, Zenon
      <3> QED BY <3>2 DEF y
    <2> QED BY <2>3, <2>4
  <1> HIDE DEF D
  <1>3. n \in D
    BY <1>1, <1>2, SetInduction
  <1> QED BY <1>0, <1>3 DEF D

-----------------------------------------------------------------------------
(* Words.                                                                  *)

\* Division by a positive number.
LEMMA Division ==
  ASSUME NEW n \in Nat, NEW b \in Nat \ {0}
  PROVE  /\ n \div b \in Nat /\ n % b \in 0..(b - 1)
         /\ n = b * (n \div b) + (n % b)
  OBVIOUS

\* Its results are the only ones.
LEMMA DivisionUnique ==
  ASSUME NEW n \in Nat, NEW b \in Nat \ {0}, NEW q \in Nat, NEW r \in 0..(b - 1),
         n = b * q + r
  PROVE  n \div b = q /\ n % b = r
  OBVIOUS

\* Multiplication keeps the order.
LEMMA TimesMonotone ==
  ASSUME NEW x \in Nat, NEW y \in Nat, NEW b \in Nat, x <= y
  PROVE  x * b \in Nat /\ y * b \in Nat /\ x * b <= y * b
  <1>1. PICK d \in Nat : y = x + d
    <2>1. y - x \in Nat /\ y = x + (y - x)
      OBVIOUS
    <2> QED BY <2>1
  <1>2. d * b \in Nat /\ x * b \in Nat
    OBVIOUS
  <1>3. y * b = x * b + d * b
    BY <1>1
  <1> QED BY <1>2, <1>3

\* The guard before a product: it fits exactly if the quotient is no less.
LEMMA GuardExact ==
  ASSUME NEW m \in Nat, NEW v \in Nat, NEW b \in Nat \ {0}
  PROVE  v > m \div b <=> v * b > m
  <1> DEFINE q == m \div b
             r == m % b
  <1>1. q \in Nat /\ r \in 0..(b - 1) /\ m = b * q + r
    BY Division
  <1> HIDE DEF q, r
  <1>2. CASE v > q
    <2>1. (q + 1) * b <= v * b /\ v * b \in Nat
      BY <1>1, <1>2, TimesMonotone
    <2>2. (q + 1) * b = b * q + b /\ b * q \in Nat
      BY <1>1
    <2>3. v * b > m
      BY <1>1, <2>1, <2>2
    <2> QED BY <1>2, <2>3 DEF q
  <1>3. CASE v <= q
    <2>1. v * b <= q * b /\ v * b \in Nat
      BY <1>1, <1>3, TimesMonotone
    <2>2. q * b = b * q /\ b * q \in Nat
      BY <1>1
    <2>3. ~(v * b > m)
      BY <1>1, <2>1, <2>2
    <2>4. ~(v > q)
      BY <1>1, <1>3
    <2> QED BY <2>3, <2>4 DEF q
  <1> QED BY <1>1, <1>2, <1>3

\* What fits does not wrap.
LEMMA NoWrap ==
  ASSUME NEW n \in Nat, n <= MaxSmall
  PROVE  Wrap(n) = n
  <1>1. MaxSmall \in Nat
    BY WidthAssumption
  <1>2. MaxSmall + 1 \in Nat \ {0} /\ n \in 0..((MaxSmall + 1) - 1)
    BY <1>1
  <1>3. n = (MaxSmall + 1) * 0 + n /\ 0 \in Nat
    BY <1>1
  <1>4. n % (MaxSmall + 1) = n
    BY <1>2, <1>3, DivisionUnique
  <1> QED BY <1>4 DEF Wrap

\* atoiUint64 gives the number, or reports that it does not fit.
LEMMA AtoiExact ==
  ASSUME NEW s \in Seq(Digit)
  PROVE  atoiUint64(s) = IF SetString(s) <= MaxSmall THEN Ok(SetString(s)) ELSE Error
  <1> USE DEF Ok, Error
  <1>1. s \in Seq(Nat) /\ Len(s) \in Nat /\ \A k \in 1..Len(s) : s[k] \in 0..9
    BY SetStringBound, ElementOfSeq, LenProperties DEF Digit
  <1>2. PICK h \in [0..Len(s) -> Nat] :
            /\ h[0] = 0 /\ \A k \in 1..Len(s) : h[k] = 10 * h[k - 1] + s[k]
            /\ SetString(s) = h[Len(s)]
    BY <1>1, SetStringScan
  <1>4. \A k \in 1..Len(s) : k - 1 \in 0..Len(s) /\ k \in 0..Len(s) /\ k # 0
    BY <1>1
  <1>6. MaxSmall \in Nat
    BY WidthAssumption
  <1> DEFINE Step(r, d) == IF ~r.ok \/ r.v > (MaxSmall - d) \div 10 THEN Error
                           ELSE Ok(Wrap(r.v * 10 + d))
             Fits(n) == IF n <= MaxSmall THEN Ok(n) ELSE Error
             v == [k \in 0..Len(s) |-> Fits(h[k])]
  <1>7. ASSUME NEW n \in Nat, NEW d \in 0..9
        PROVE  Step(Fits(n), d) = Fits(10 * n + d)
    <2>1. 10 * n + d \in Nat /\ n * 10 + d = 10 * n + d
      OBVIOUS
    <2>2. n > (MaxSmall - d) \div 10 <=> 10 * n + d > MaxSmall
      BY <1>6
    <2>3. CASE 10 * n + d <= MaxSmall
      <3>1. n <= MaxSmall
        BY <1>6, <2>3
      <3>2. Wrap(n * 10 + d) = 10 * n + d
        BY <2>1, <2>3, NoWrap
      <3>3. ~(n > (MaxSmall - d) \div 10)
        BY <1>6, <2>1, <2>2, <2>3
      <3>4. Fits(n) = Ok(n) /\ Fits(10 * n + d) = Ok(10 * n + d)
        BY <2>3, <3>1
      <3> QED BY <3>2, <3>3, <3>4
    <2>4. CASE 10 * n + d > MaxSmall
      <3>1. Fits(10 * n + d) = Error
        BY <1>6, <2>1, <2>4
      <3>2. CASE n <= MaxSmall
        <4>1. Fits(n) = Ok(n)
          BY <3>2
        <4> QED BY <2>2, <2>4, <3>1, <4>1
      <3>3. CASE ~(n <= MaxSmall)
        <4>1. Fits(n) = Error
          BY <3>3
        <4> QED BY <3>1, <4>1
      <3> QED BY <3>2, <3>3
    <2> QED BY <1>6, <2>1, <2>3, <2>4
  <1>8. Fits(0) = Ok(0)
    BY <1>6
  <1> HIDE DEF Step, Fits
  <1>9. v[0] = Ok(0) /\ \A k \in 1..Len(s) : v[k] = Step(v[k - 1], s[k])
    <2>1. v[0] = Ok(0)
      BY <1>1, <1>2, <1>8
    <2>2. ASSUME NEW k \in 1..Len(s) PROVE v[k] = Step(v[k - 1], s[k])
      <3>1. v[k] = Fits(h[k]) /\ v[k - 1] = Fits(h[k - 1]) /\ h[k - 1] \in Nat
        BY <1>4
      <3>2. Step(Fits(h[k - 1]), s[k]) = Fits(10 * h[k - 1] + s[k])
        BY <1>1, <1>7, <3>1
      <3> QED BY <1>2, <3>1, <3>2
    <2> QED BY <2>1, <2>2
  <1>10. v = [k \in 0..Len(s) |-> IF k = 0 THEN Ok(0) ELSE Step(v[k - 1], s[k])]
    <2> DEFINE u == [k \in 0..Len(s) |-> IF k = 0 THEN Ok(0) ELSE Step(v[k - 1], s[k])]
    <2>1. v = [k \in 0..Len(s) |-> v[k]] /\ u = [k \in 0..Len(s) |-> u[k]]
      OBVIOUS
    <2> HIDE DEF v
    <2>2. \A k \in 0..Len(s) : k = 0 \/ k \in 1..Len(s)
      BY <1>1
    <2>3. \A k \in 0..Len(s) : v[k] = u[k]
      BY <1>9, <2>2
    <2> HIDE DEF u
    <2>4. v = u
      BY <2>1, <2>3
    <2> QED BY <2>4 DEF u
  <1>v. v[Len(s)] = Fits(h[Len(s)])
    BY <1>1
  <1> HIDE DEF v
  <1> DEFINE w == CHOOSE w : w = [k \in 0..Len(s) |-> IF k = 0 THEN Ok(0) ELSE Step(w[k - 1], s[k])]
  <1>11. w = [k \in 0..Len(s) |-> IF k = 0 THEN Ok(0) ELSE Step(w[k - 1], s[k])]
    BY <1>10
  <1>12. atoiUint64(s) = w[Len(s)]
    BY DEF atoiUint64, Step
  <1> HIDE DEF w
  <1>13. w[0] = Ok(0) /\ \A k \in 1..Len(s) : w[k] = Step(w[k - 1], s[k])
    <2>1. 0 \in 0..Len(s)
      BY <1>1
    <2> QED BY <1>4, <1>11, <2>1
  <1> DEFINE D == {n \in Nat : n <= Len(s) => w[n] = v[n]}
  <1>14. 0 \in D
    BY <1>9, <1>13
  <1>15. ASSUME NEW n \in Nat, n \in D PROVE n + 1 \in D
    <2>1. SUFFICES ASSUME n + 1 <= Len(s) PROVE w[n + 1] = v[n + 1]
      OBVIOUS
    <2> DEFINE k == n + 1
    <2>2. k \in 1..Len(s) /\ k - 1 = n /\ n <= Len(s)
      BY <1>1, <2>1
    <2> HIDE DEF k
    <2>3. w[k] = v[k]
      BY <1>9, <1>13, <1>15, <2>2
    <2> QED BY <2>3 DEF k
  <1> HIDE DEF D
  <1>16. Len(s) \in D
    BY <1>1, <1>14, <1>15, SetInduction
  <1> QED BY <1>1, <1>2, <1>v, <1>12, <1>16 DEF D, Fits

-----------------------------------------------------------------------------
(* Both paths of ParseAmount compute the same number.                      *)

\* The product of two powers.
LEMMA PowersAdd ==
  ASSUME NEW a \in Nat, NEW b \in Nat
  PROVE  pow10[a + b] = pow10[a] * pow10[b]
  <1> DEFINE p == pow10[a]
             D == {n \in Nat : pow10[a + n] = p * pow10[n]}
  <1>0. p \in Nat
    BY Powers
  <1>1. 0 \in D
    <2>1. a + 0 = a /\ p = p * 1
      BY <1>0
    <2> QED BY <2>1, Powers
  <1>2. ASSUME NEW n \in Nat, n \in D PROVE n + 1 \in D
    <2> DEFINE q == pow10[n]
    <2>1. a + (n + 1) = (a + n) + 1 /\ a + n \in Nat /\ n + 1 \in Nat
      OBVIOUS
    <2>2. pow10[(a + n) + 1] = 10 * pow10[a + n] /\ pow10[n + 1] = 10 * q /\ q \in Nat
      BY <2>1, Powers
    <2>3. pow10[a + n] = p * q
      BY <1>2
    <2> HIDE DEF p, q
    <2>4. 10 * (p * q) = p * (10 * q)
      BY <1>0, <2>2
    <2>5. pow10[a + (n + 1)] = p * pow10[n + 1]
      BY <2>1, <2>2, <2>3, <2>4
    <2> QED BY <2>1, <2>5
  <1> HIDE DEF D
  <1>3. b \in D
    BY <1>1, <1>2, SetInduction
  <1> QED BY <1>3 DEF D, p

\* A larger exponent gives no smaller power.
LEMMA PowersMonotone ==
  ASSUME NEW a \in Nat, NEW b \in Nat, a <= b
  PROVE  pow10[a] <= pow10[b]
  <1>1. b - a \in Nat /\ a + (b - a) = b
    OBVIOUS
  <1> DEFINE p == pow10[a]
             q == pow10[b - a]
  <1>2. p \in Nat /\ q \in Nat /\ 1 <= q
    BY <1>1, Powers
  <1>3. pow10[b] = p * q
    BY <1>1, PowersAdd
  <1> HIDE DEF p, q
  <1>4. 1 * p <= q * p
    BY <1>2, TimesMonotone
  <1>5. 1 * p = p /\ q * p = p * q
    BY <1>2
  <1> QED BY <1>3, <1>4, <1>5 DEF p

\* The number of minor units that digits before and after a dot stand for.
Worth(i, f, scale) == SetString(i) * pow10[scale] + SetString(f) * pow10[scale - Len(f)]

\* The two terms of it.
LEMMA WorthTerms ==
  ASSUME NEW i \in Seq(Digit), NEW f \in Seq(Digit), NEW scale \in 0..MaxScale, Len(f) <= scale
  PROVE  /\ scale \in Nat /\ scale - Len(f) \in Nat /\ Len(f) \in Nat
         /\ SetString(i) * pow10[scale] \in Nat
         /\ SetString(f) * pow10[scale - Len(f)] \in Nat
         /\ SetString(f) * pow10[scale - Len(f)] <= MaxSmall
         /\ SetString(i) <= SetString(i) * pow10[scale]
         /\ Worth(i, f, scale) \in Nat
  <1>1. MaxScale \in Nat /\ MaxSmall \in Nat /\ pow10[MaxScale] <= MaxSmall
    BY WidthAssumption
  <1>2. scale \in Nat /\ Len(f) \in Nat /\ scale - Len(f) \in Nat /\ scale <= MaxScale
    BY <1>1, LenProperties
  <1> DEFINE x == SetString(i)
             y == SetString(f)
             p == pow10[scale]
             q == pow10[scale - Len(f)]
             r == pow10[Len(f)]
  <1>3. x \in Nat /\ y \in Nat /\ y <= r
    <2>1. x \in Nat
      BY SetStringBound
    <2>2. y \in Nat /\ y < r
      BY SetStringBound
    <2>3. r \in Nat
      BY <1>2, Powers
    <2> HIDE DEF x, y, r
    <2> QED BY <2>1, <2>2, <2>3
  <1>4. p \in Nat /\ q \in Nat /\ r \in Nat /\ 1 <= p /\ p <= pow10[MaxScale]
        /\ pow10[MaxScale] \in Nat
    <2>1. \A k \in Nat : pow10[k] \in Nat /\ pow10[k] >= 1
      BY PowersPositive
    <2>2. p <= pow10[MaxScale]
      BY <1>1, <1>2, PowersMonotone
    <2> QED BY <1>1, <1>2, <2>1, <2>2
  <1>5. p = r * q
    <2>1. Len(f) + (scale - Len(f)) = scale
      BY <1>2
    <2> QED BY <1>2, <2>1, PowersAdd
  <1> HIDE DEF x, y, p, q, r
  <1>6. y * q <= r * q /\ y * q \in Nat
    BY <1>3, <1>4, TimesMonotone
  <1>7. 1 * x <= p * x /\ p * x \in Nat
    BY <1>3, <1>4, TimesMonotone
  <1>8. 1 * x = x /\ p * x = x * p
    BY <1>3, <1>4
  <1>9. y * q <= MaxSmall
    BY <1>1, <1>4, <1>5, <1>6
  <1>10. x * p \in Nat /\ x <= x * p /\ x * p + y * q \in Nat
    BY <1>6, <1>7, <1>8
  <1> QED BY <1>2, <1>6, <1>9, <1>10 DEF Worth, x, y, p, q

\* The fast path: exact, or it says that the number is too large for it.  No
\* step of it wraps around.
LEMMA FastPathExact ==
  ASSUME NEW i \in Seq(Digit), NEW f \in Seq(Digit), NEW scale \in 0..MaxScale, Len(f) <= scale
  PROVE  parseUint64(i, f, scale) =
            IF Worth(i, f, scale) <= MaxSmall THEN Ok(Worth(i, f, scale)) ELSE Error
  <1> DEFINE x == SetString(i)
             y == SetString(f)
             p == pow10[scale]
             q == pow10[scale - Len(f)]
             v == atoiUint64(i)
             g == atoiUint64(f)
             high == Wrap(v.v * p)
             low == Wrap(g.v * q)
             n == Worth(i, f, scale)
  <1>1. /\ x * p \in Nat /\ y * q \in Nat /\ y * q <= MaxSmall /\ x <= x * p /\ n \in Nat
        /\ scale \in Nat /\ scale - Len(f) \in Nat
    BY WorthTerms
  <1>2. x \in Nat /\ y \in Nat /\ p \in Nat \ {0} /\ q \in Nat \ {0}
    BY <1>1, SetStringBound, Powers
  <1>3. MaxSmall \in Nat
    BY WidthAssumption
  <1>4. n = x * p + y * q
    BY DEF Worth
  <1>5. v = IF x <= MaxSmall THEN Ok(x) ELSE Error
    BY AtoiExact
  <1>6. g = IF y <= MaxSmall THEN Ok(y) ELSE Error
    BY AtoiExact
  <1>7. y <= MaxSmall
    <2>1. 1 <= q
      BY <1>2
    <2> HIDE DEF q, y
    <2>2. 1 * y <= q * y /\ 1 * y = y /\ q * y = y * q
      BY <1>2, <2>1, TimesMonotone
    <2> DEFINE z == y * q
    <2>3. y <= z /\ z <= MaxSmall /\ z \in Nat
      BY <1>1, <2>2
    <2> HIDE DEF z
    <2> QED BY <1>2, <1>3, <2>3
  <1>8. g.ok /\ low = y * q
    <2>1. g = Ok(y)
      BY <1>6, <1>7
    <2>2. g.ok /\ g.v = y
      BY <2>1 DEF Ok
    <2>3. Wrap(y * q) = y * q
      BY <1>1, NoWrap
    <2> HIDE DEF g, y, q
    <2> QED BY <2>2, <2>3
  <1>9. f = <<>> => y * q = 0
    <2>1. ASSUME f = <<>> PROVE y = 0
      BY <2>1, SetStringEmpty
    <2> HIDE DEF y, q
    <2> QED BY <1>2, <2>1
  <1>10. parseUint64(i, f, scale) =
           IF \/ ~v.ok \/ v.v > MaxSmall \div p
              \/ f # <<>> /\ (~g.ok \/ high > MaxSmall - low)
           THEN Error
           ELSE Ok(IF f = <<>> THEN high ELSE Wrap(high + low))
    BY DEF parseUint64
  <1> HIDE DEF v, g, high, low, n
  <1>11. CASE x > MaxSmall
    <2>1. ~(x <= MaxSmall) /\ ~(n <= MaxSmall)
      <3> HIDE DEF x, y, p, q
      <3> QED BY <1>1, <1>2, <1>3, <1>4, <1>11
    <2>2. ~v.ok
      BY <1>5, <2>1 DEF Error
    <2> QED BY <1>10, <2>1, <2>2 DEF n
  <1>12. CASE ~(x > MaxSmall)
    <2>1. v.ok /\ v.v = x
      <3>1. x <= MaxSmall
        <4> HIDE DEF x
        <4> QED BY <1>2, <1>3, <1>12
      <3>2. v = Ok(x)
        BY <1>5, <3>1
      <3> QED BY <3>2 DEF Ok
    <2>2. x > MaxSmall \div p <=> x * p > MaxSmall
      <3> HIDE DEF x, p
      <3> QED BY <1>2, <1>3, GuardExact
    <2>3. CASE x * p > MaxSmall
      <3>1. ~(n <= MaxSmall)
        <4> HIDE DEF x, y, p, q
        <4> QED BY <1>1, <1>3, <1>4, <2>3
      <3>2. v.v > MaxSmall \div p
        BY <2>1, <2>2, <2>3
      <3> QED BY <1>10, <3>1, <3>2 DEF n
    <2>4. CASE ~(x * p > MaxSmall)
      <3>1. high = x * p
        <4>1. x * p <= MaxSmall
          <5> HIDE DEF x, p
          <5> QED BY <1>1, <1>2, <1>3, <2>4
        <4>2. Wrap(x * p) = x * p
          BY <1>1, <4>1, NoWrap
        <4> HIDE DEF x, p
        <4> QED BY <2>1, <4>2 DEF high
      <3>2. ~(v.v > MaxSmall \div p)
        BY <2>1, <2>2, <2>4
      <3>3. CASE f = <<>>
        <4>1. n = x * p /\ n <= MaxSmall
          <5> HIDE DEF x, y, p, q
          <5> QED BY <1>1, <1>2, <1>3, <1>4, <1>9, <2>4, <3>3
        <4>2. parseUint64(i, f, scale) = Ok(high)
          BY <1>10, <2>1, <3>2, <3>3
        <4> HIDE DEF x, p
        <4> QED BY <3>1, <4>1, <4>2 DEF n
      <3>4. CASE f # <<>>
        <4>1. high > MaxSmall - low <=> n > MaxSmall
          <5> DEFINE h == x * p
                     k == y * q
          <5>1. h \in Nat /\ k \in Nat /\ high = h /\ low = k /\ n = h + k
            BY <1>1, <1>4, <1>8, <3>1
          <5> HIDE DEF h, k
          <5> QED BY <1>3, <5>1
        <4>2. CASE n > MaxSmall
          <5>1. ~(n <= MaxSmall)
            BY <1>1, <1>3, <4>2
          <5> QED BY <1>10, <3>4, <4>1, <4>2, <5>1 DEF n
        <4>3. CASE ~(n > MaxSmall)
          <5>1. n <= MaxSmall
            BY <1>1, <1>3, <4>3
          <5>2. high + low = n
            <6> HIDE DEF x, y, p, q
            <6> QED BY <1>4, <1>8, <3>1
          <5>3. Wrap(n) = n
            BY <1>1, <5>1, NoWrap
          <5>4. parseUint64(i, f, scale) = Ok(Wrap(high + low))
            BY <1>8, <1>10, <2>1, <3>2, <3>4, <4>1, <4>3
          <5> QED BY <5>1, <5>2, <5>3, <5>4 DEF n
        <4> QED BY <4>2, <4>3
      <3> QED BY <3>3, <3>4
    <2> QED BY <2>3, <2>4
  <1> QED BY <1>11, <1>12

\* The path in big integers: exact, up to the largest amount.
LEMMA BigPathExact ==
  ASSUME NEW i \in Seq(Digit), NEW f \in Seq(Digit), NEW scale \in 0..MaxScale, Len(f) <= scale
  PROVE  parseAmountBig(i, f, scale) =
            IF Worth(i, f, scale) > MaxBig THEN Error ELSE Ok(Worth(i, f, scale))
  <1> DEFINE m == scale - Len(f)
             z == Zeros(m)
             x == SetString(i)
             y == SetString(f)
             q == pow10[m]
             r == pow10[Len(f)]
  <1>1. scale \in Nat /\ m \in Nat /\ Len(f) \in Nat
    BY WorthTerms
  <1>2. z \in Seq(Nat) /\ Len(z) = m /\ SetString(z) = 0
    BY <1>1, SetStringZeros, SetStringBound
  <1>3. i \in Seq(Nat) /\ f \in Seq(Nat) /\ x \in Nat /\ y \in Nat
    BY SetStringBound
  <1>4. q \in Nat /\ r \in Nat
    BY <1>1, Powers
  <1>5. pow10[scale] = r * q
    <2>1. Len(f) + m = scale
      BY <1>1
    <2> QED BY <1>1, <2>1, PowersAdd
  <1> HIDE DEF m, z
  <1>6. i \o f \in Seq(Nat) /\ SetString(i \o f) = x * r + y
    BY <1>3, SetStringConcat, ConcatProperties
  <1>7. SetString((i \o f) \o z) = SetString(i \o f) * q + 0
    <2> DEFINE u == i \o f
    <2>1. u \in Seq(Nat)
      BY <1>6
    <2> HIDE DEF u
    <2>2. SetString(u \o z) = SetString(u) * pow10[Len(z)] + SetString(z)
      BY <1>2, <2>1, SetStringConcat
    <2> QED BY <1>2, <2>2 DEF u
  <1>8. (x * r + y) * q + 0 = x * (r * q) + y * q
    <2> HIDE DEF x, y, q, r
    <2> QED BY <1>3, <1>4
  <1>9. Worth(i, f, scale) = x * (r * q) + y * q
    BY <1>5 DEF Worth, m
  <1>10. SetString(i \o f \o Zeros(scale - Len(f))) = Worth(i, f, scale)
    <2>1. SetString(i \o f \o z) = Worth(i, f, scale)
      <3> HIDE DEF x, y, q, r
      <3> QED BY <1>6, <1>7, <1>8, <1>9
    <2> QED BY <2>1 DEF z, m
  <1> QED BY <1>10 DEF parseAmountBig

-----------------------------------------------------------------------------
(* The two parts of a text.                                                *)

\* Where the digits before the dot end.
Cut(s) == IF DotAt(s) = 0 THEN Len(s) + 1 ELSE DotAt(s)

\* strings.Cut finds the first dot, if there is one.
LEMMA FirstDot ==
  ASSUME NEW s \in Seq(Nat)
  PROVE  /\ Cut(s) \in 1..(Len(s) + 1) /\ Len(s) \in Nat
         /\ \A k \in 1..(Cut(s) - 1) : s[k] # Dot
         /\ DotAt(s) = 0 <=> Cut(s) = Len(s) + 1
         /\ DotAt(s) # 0 => DotAt(s) = Cut(s) /\ Cut(s) \in 1..Len(s) /\ s[Cut(s)] = Dot
  <1> DEFINE I == {k \in 1..Len(s) : s[k] = Dot}
  <1>1. DotAt(s) = IF I # {} THEN Min(I) ELSE 0
    BY DEF DotAt, SelectInSeq
  <1>2. Len(s) \in Nat
    BY LenProperties
  <1>3. CASE I = {}
    <2>1. DotAt(s) = 0 /\ Cut(s) = Len(s) + 1
      BY <1>1, <1>3 DEF Cut
    <2>2. \A k \in 1..Len(s) : s[k] # Dot
      BY <1>3
    <2> QED BY <1>2, <2>1, <2>2
  <1>4. CASE I # {}
    <2>1. I \subseteq Nat
      BY <1>2
    <2>2. Min(I) \in I /\ \A y \in I : Min(I) <= y
      <3>1. \E x \in I : \A y \in I : x <= y
        BY <1>4, <2>1, NatMin
      <3> QED BY <3>1 DEF Min
    <2> DEFINE m == Min(I)
    <2>3. DotAt(s) = m
      BY <1>1, <1>4
    <2> HIDE DEF m
    <2>4. m \in 1..Len(s) /\ s[m] = Dot /\ m # 0 /\ m \in Nat
      BY <1>2, <2>2 DEF m
    <2>5. Cut(s) = m
      BY <2>3, <2>4 DEF Cut
    <2>6. ASSUME NEW k \in 1..(m - 1) PROVE s[k] # Dot
      <3>1. k \in 1..Len(s) /\ ~(m <= k)
        BY <1>2, <2>4
      <3> QED BY <2>2, <3>1 DEF m
    <2> QED BY <1>2, <2>3, <2>4, <2>5, <2>6
  <1> QED BY <1>3, <1>4

\* What is before it and what is after it.
LEMMA PartsOfText ==
  ASSUME NEW s \in Seq(Nat)
  PROVE  /\ IntPart(s) \in Seq(Nat) /\ Len(IntPart(s)) = Cut(s) - 1
         /\ \A k \in 1..(Cut(s) - 1) : IntPart(s)[k] = s[k]
         /\ FracPart(s) \in Seq(Nat)
         /\ Len(FracPart(s)) = IF DotAt(s) = 0 THEN 0 ELSE Len(s) - Cut(s)
         /\ Len(FracPart(s)) = Decimals(s)
         /\ \A j \in 1..Len(FracPart(s)) : FracPart(s)[j] = s[Cut(s) + j]
  <1> DEFINE D == Cut(s)
  <1>1. /\ D \in 1..(Len(s) + 1) /\ Len(s) \in Nat
        /\ DotAt(s) = 0 <=> D = Len(s) + 1
        /\ DotAt(s) # 0 => DotAt(s) = D /\ D \in 1..Len(s)
    BY FirstDot
  <1> HIDE DEF D
  <1>2. CASE DotAt(s) = 0
    <2>1. IntPart(s) = s /\ FracPart(s) = <<>> /\ D = Len(s) + 1 /\ Decimals(s) = 0
      BY <1>1, <1>2 DEF IntPart, FracPart, Decimals
    <2>2. D - 1 = Len(s) /\ <<>> \in Seq(Nat) /\ Len(<<>>) = 0
      BY <1>1, <2>1
    <2>3. \A j \in 1..0 : FALSE
      OBVIOUS
    <2> QED BY <1>2, <2>1, <2>2, <2>3 DEF D
  <1>3. CASE DotAt(s) # 0
    <2>1. IntPart(s) = SubSeq(s, 1, D - 1) /\ FracPart(s) = SubSeq(s, D + 1, Len(s))
          /\ Decimals(s) = Len(s) - D
      BY <1>1, <1>3 DEF IntPart, FracPart, Decimals
    <2>2. D \in 1..Len(s) /\ D - 1 \in 0..Len(s) /\ D \in Nat
      BY <1>1, <1>3
    <2>3. /\ SubSeq(s, 1, D - 1) \in Seq(Nat) /\ Len(SubSeq(s, 1, D - 1)) = D - 1
          /\ \A k \in 1..(D - 1) : SubSeq(s, 1, D - 1)[k] = s[k]
      <3>1. \A k \in 1..(D - 1) : s[k] \in Nat
        BY <1>1, <2>2, ElementOfSeq
      <3> QED BY <1>1, <2>2, <3>1, SubSeqProperties
    <2>4. /\ SubSeq(s, D + 1, Len(s)) \in Seq(Nat) /\ Len(SubSeq(s, D + 1, Len(s))) = Len(s) - D
          /\ \A j \in 1..(Len(s) - D) : SubSeq(s, D + 1, Len(s))[j] = s[D + j]
      <3>1. \A k \in (D + 1)..Len(s) : s[k] \in Nat
        BY <1>1, <2>2, ElementOfSeq
      <3>2. D + 1 \in 1..(Len(s) + 1)
        BY <1>1, <2>2
      <3> QED BY <1>1, <2>2, <3>1, <3>2, SubSeqProperties
    <2> QED BY <1>3, <2>1, <2>3, <2>4 DEF D
  <1> QED BY <1>2, <1>3

\* The syntax ParseAmount accepts.
Readable(s, scale) ==
    /\ isDigits(IntPart(s)) /\ (DotAt(s) # 0 => isDigits(FracPart(s)))
    /\ Len(FracPart(s)) <= scale

\* The syntax that denotes an amount.
Meaningful(s, scale) ==
    /\ \A i \in DOMAIN s : s[i] \in Digit \cup {Dot}
    /\ Cardinality({i \in DOMAIN s : s[i] = Dot}) <= 1
    /\ s # <<>> /\ s[1] # Dot /\ s[Len(s)] # Dot
    /\ Decimals(s) <= scale

\* They are the same.
LEMMA SyntaxExact ==
  ASSUME NEW s \in Seq(Nat), NEW scale \in Nat
  PROVE  Readable(s, scale) <=> Meaningful(s, scale)
  <1> DEFINE D == Cut(s)
             I == IntPart(s)
             F == FracPart(s)
             dots == {i \in DOMAIN s : s[i] = Dot}
  <1>1. /\ D \in 1..(Len(s) + 1) /\ Len(s) \in Nat
        /\ \A k \in 1..(D - 1) : s[k] # Dot
        /\ DotAt(s) = 0 <=> D = Len(s) + 1
        /\ DotAt(s) # 0 => DotAt(s) = D /\ D \in 1..Len(s) /\ s[D] = Dot
    BY FirstDot
  <1>2. /\ I \in Seq(Nat) /\ Len(I) = D - 1 /\ \A k \in 1..(D - 1) : I[k] = s[k]
        /\ F \in Seq(Nat) /\ Len(F) = (IF DotAt(s) = 0 THEN 0 ELSE Len(s) - D)
        /\ Len(F) = Decimals(s) /\ \A j \in 1..Len(F) : F[j] = s[D + j]
    BY PartsOfText
  <1>3. DOMAIN s = 1..Len(s) /\ DOMAIN I = 1..(D - 1) /\ DOMAIN F = 1..Len(F) /\ Len(F) \in Nat
    BY <1>2, LenProperties
  <1>4. Dot \notin Digit
    BY DEF Dot, Digit
  <1> HIDE DEF D, I, F
  <1>5. isDigits(I) <=> D > 1 /\ \A k \in 1..(D - 1) : s[k] \in Digit
    <2>1. I # <<>> <=> Len(I) # 0
      BY <1>2, EmptySeq
    <2>2. I # <<>> <=> D > 1
      BY <1>1, <1>2, <2>1
    <2> QED BY <1>2, <1>3, <2>2 DEF isDigits
  <1>6. isDigits(F) <=> Len(F) > 0 /\ \A j \in 1..Len(F) : s[D + j] \in Digit
    <2>1. F # <<>> <=> Len(F) # 0
      BY <1>2, EmptySeq
    <2>2. F # <<>> <=> Len(F) > 0
      BY <1>3, <2>1
    <2> QED BY <1>2, <1>3, <2>2 DEF isDigits
  <1>7. s # <<>> <=> Len(s) # 0
    BY EmptySeq
  <1>8. ASSUME Readable(s, scale) PROVE Meaningful(s, scale)
    <2>1. D > 1 /\ \A k \in 1..(D - 1) : s[k] \in Digit
      BY <1>5, <1>8 DEF Readable, I
    <2>2. Decimals(s) <= scale
      BY <1>2, <1>8 DEF Readable, F
    <2>3. Len(s) # 0 /\ 1 \in 1..(D - 1) /\ 1 \in 1..Len(s)
      BY <1>1, <2>1
    <2>4. CASE DotAt(s) = 0
      <3>1. D - 1 = Len(s) /\ Len(s) \in 1..Len(s)
        BY <1>1, <2>3, <2>4
      <3>2. \A i \in DOMAIN s : s[i] \in Digit
        BY <1>3, <2>1, <3>1
      <3>3. dots = {}
        BY <1>4, <3>2
      <3>4. Cardinality(dots) <= 1
        BY <3>3, FS_EmptySet
      <3>5. s[1] \in Digit /\ s[Len(s)] \in Digit
        BY <1>3, <2>3, <3>1, <3>2
      <3>6. s[1] # Dot /\ s[Len(s)] # Dot /\ s # <<>>
        BY <1>4, <1>7, <2>3, <3>5
      <3> QED BY <2>2, <3>2, <3>4, <3>6 DEF Meaningful
    <2>5. CASE DotAt(s) # 0
      <3>1. Len(F) > 0 /\ \A j \in 1..Len(F) : s[D + j] \in Digit
        BY <1>6, <1>8, <2>5 DEF Readable, F
      <3>2. Len(F) = Len(s) - D /\ D \in 1..Len(s) /\ s[D] = Dot
        BY <1>1, <1>2, <2>5
      <3>3. ASSUME NEW i \in 1..Len(s), i # D PROVE s[i] \in Digit
        <4>1. CASE i < D
          <5>1. i \in 1..(D - 1)
            BY <1>1, <3>2, <4>1
          <5> QED BY <2>1, <5>1
        <4>2. CASE i > D
          <5>1. i - D \in 1..Len(F) /\ D + (i - D) = i
            BY <1>1, <3>2, <4>2
          <5>2. s[D + (i - D)] \in Digit
            BY <3>1, <5>1
          <5> QED BY <5>1, <5>2
        <4> QED BY <3>2, <3>3, <4>1, <4>2
      <3>4. dots = {D}
        BY <1>3, <1>4, <3>2, <3>3
      <3>5. Cardinality(dots) <= 1
        <4> HIDE DEF dots
        <4>1. Cardinality({D}) = 1
          BY FS_Singleton
        <4> QED BY <3>4, <4>1
      <3>6. Len(s) # D /\ 1 # D /\ Len(s) \in 1..Len(s)
        BY <1>1, <2>1, <2>3, <3>1, <3>2
      <3>7. s[1] \in Digit /\ s[Len(s)] \in Digit
        BY <2>3, <3>3, <3>6
      <3>8. s[1] # Dot /\ s[Len(s)] # Dot /\ s # <<>>
        BY <1>4, <1>7, <2>3, <3>7
      <3>9. \A i \in DOMAIN s : s[i] \in Digit \cup {Dot}
        BY <1>3, <3>2, <3>3
      <3> QED BY <2>2, <3>5, <3>8, <3>9 DEF Meaningful
    <2> QED BY <2>4, <2>5
  <1>9. ASSUME Meaningful(s, scale) PROVE Readable(s, scale)
    <2>1. /\ \A i \in 1..Len(s) : s[i] \in Digit \cup {Dot}
          /\ Cardinality(dots) <= 1 /\ Len(s) # 0 /\ s[1] # Dot /\ s[Len(s)] # Dot
          /\ Len(F) <= scale
      BY <1>2, <1>3, <1>7, <1>9 DEF Meaningful
    <2>2. \A k \in 1..(D - 1) : s[k] \in Digit
      <3>1. \A k \in 1..(D - 1) : k \in 1..Len(s)
        BY <1>1
      <3> QED BY <1>1, <2>1, <3>1
    <2>3. D > 1
      <3>1. D # 1
        <4>1. CASE DotAt(s) = 0
          BY <1>1, <2>1, <4>1
        <4>2. CASE DotAt(s) # 0
          BY <1>1, <2>1, <4>2
        <4> QED BY <4>1, <4>2
      <3> QED BY <1>1, <3>1
    <2>4. isDigits(I)
      BY <1>5, <2>2, <2>3
    <2>5. ASSUME DotAt(s) # 0 PROVE isDigits(F)
      <3>1. Len(F) = Len(s) - D /\ D \in 1..Len(s) /\ s[D] = Dot
        BY <1>1, <1>2, <2>5
      <3>2. D # Len(s)
        BY <2>1, <3>1
      <3>3. Len(F) > 0
        BY <1>1, <3>1, <3>2
      <3>4. ASSUME NEW j \in 1..Len(F) PROVE s[D + j] \in Digit
        <4>1. D + j \in 1..Len(s) /\ D + j # D
          BY <1>1, <3>1
        <4>2. s[D + j] # Dot
          <5> SUFFICES ASSUME s[D + j] = Dot PROVE FALSE
            OBVIOUS
          <5>1. dots \subseteq 1..Len(s) /\ IsFiniteSet(1..Len(s))
            <6>1. 1 \in Int /\ Len(s) \in Int
              BY <1>1
            <6>2. IsFiniteSet(1..Len(s))
              BY <6>1, FS_Interval, Zenon
            <6> QED BY <1>3, <6>2
          <5>2. IsFiniteSet(dots)
            BY <5>1, FS_Subset
          <5> DEFINE two == {D, D + j}
          <5>3. two \subseteq dots
            BY <1>3, <3>1, <4>1
          <5>4. IsFiniteSet({D}) /\ Cardinality({D}) = 1 /\ D + j \notin {D}
            BY <4>1, FS_Singleton
          <5>5. Cardinality({D} \cup {D + j}) = 2
            <6> DEFINE one == {D}
                       e == D + j
            <6>1. IsFiniteSet(one) /\ Cardinality(one) = 1 /\ e \notin one
              BY <5>4
            <6> HIDE DEF one, e
            <6>2. Cardinality(one \cup {e}) = Cardinality(one) + 1
              BY <6>1, FS_AddElement
            <6> QED BY <6>1, <6>2 DEF one, e
          <5>6. two = {D} \cup {D + j}
            OBVIOUS
          <5> HIDE DEF dots, two
          <5>7. Cardinality(two) <= Cardinality(dots) /\ Cardinality(dots) \in Nat
            BY <5>2, <5>3, FS_Subset, FS_CardinalityType
          <5>8. Cardinality(two) = 2
            BY <5>5, <5>6
          <5> QED BY <2>1, <5>7, <5>8
        <4> QED BY <2>1, <4>1, <4>2
      <3> QED BY <1>6, <3>3, <3>4
    <2> QED BY <2>1, <2>4, <2>5 DEF Readable, I, F
  <1> QED BY <1>8, <1>9

-----------------------------------------------------------------------------
(* ParseAmount gives what the text denotes.                                *)

\* A digit at the next lower place.
LEMMA NextPlace ==
  ASSUME NEW h \in Nat, NEW d \in Nat, NEW m \in Nat
  PROVE  h * pow10[m + 1] + d * pow10[m] = (10 * h + d) * pow10[m]
  <1> DEFINE p == pow10[m]
  <1>1. p \in Nat /\ pow10[m + 1] = 10 * p
    BY Powers
  <1> HIDE DEF p
  <1>2. h * (10 * p) + d * p = (10 * h + d) * p
    BY <1>1
  <1> QED BY <1>1, <1>2 DEF p

\* The parts of a text ParseAmount accepts are strings of digits.
LEMMA ReadableParts ==
  ASSUME NEW s \in Seq(Nat), NEW scale \in Nat, Readable(s, scale)
  PROVE  IntPart(s) \in Seq(Digit) /\ FracPart(s) \in Seq(Digit) /\ Len(FracPart(s)) <= scale
  <1> DEFINE I == IntPart(s)
             F == FracPart(s)
  <1>1. I \in Seq(Nat) /\ F \in Seq(Nat) /\ (DotAt(s) = 0 => Len(F) = 0)
    BY PartsOfText
  <1>2. DOMAIN I = 1..Len(I) /\ DOMAIN F = 1..Len(F) /\ Len(I) \in Nat /\ Len(F) \in Nat
    BY <1>1, LenProperties
  <1>3. \A k \in 1..Len(I) : I[k] \in Digit
    BY <1>2 DEF Readable, isDigits
  <1>4. \A k \in 1..Len(F) : F[k] \in Digit
    <2>1. CASE DotAt(s) = 0
      BY <1>1, <2>1
    <2>2. CASE DotAt(s) # 0
      BY <1>2, <2>2 DEF Readable, isDigits
    <2> QED BY <2>1, <2>2
  <1> HIDE DEF I, F
  <1>5. I \in Seq(Digit)
    <2> DEFINE n == Len(I)
    <2>1. I = [k \in 1..n |-> I[k]]
      BY <1>1
    <2>2. n \in Nat /\ \A k \in 1..n : I[k] \in Digit
      BY <1>2, <1>3
    <2> HIDE DEF n
    <2>3. [k \in 1..n |-> I[k]] \in Seq(Digit)
      BY <2>2, IsASeq
    <2> QED BY <2>1, <2>3, Zenon
  <1>6. F \in Seq(Digit)
    <2> DEFINE n == Len(F)
    <2>1. F = [k \in 1..n |-> F[k]]
      BY <1>1
    <2>2. n \in Nat /\ \A k \in 1..n : F[k] \in Digit
      BY <1>2, <1>4
    <2> HIDE DEF n
    <2>3. [k \in 1..n |-> F[k]] \in Seq(Digit)
      BY <2>2, IsASeq
    <2> QED BY <2>1, <2>3, Zenon
  <1> QED BY <1>5, <1>6 DEF Readable, I, F

\* The sum over the places of a text is what its two parts are worth.
LEMMA PlacesExact ==
  ASSUME NEW s \in Seq(Nat), NEW scale \in Nat, Readable(s, scale)
  PROVE  LET sum[i \in 0..Len(s)] ==
               IF i = 0 THEN 0
               ELSE IF s[i] = Dot THEN sum[i - 1]
               ELSE sum[i - 1] + s[i] * pow10[Place(s, i, scale)]
         IN sum[Len(s)] = Worth(IntPart(s), FracPart(s), scale)
  <1> DEFINE D == Cut(s)
             I == IntPart(s)
             F == FracPart(s)
             N == Len(s)
             M == Len(F)
  <1>1. /\ D \in 1..(N + 1) /\ N \in Nat
        /\ \A k \in 1..(D - 1) : s[k] # Dot
        /\ DotAt(s) = 0 <=> D = N + 1
        /\ DotAt(s) # 0 => DotAt(s) = D /\ D \in 1..N /\ s[D] = Dot
    BY FirstDot
  <1>2. /\ I \in Seq(Nat) /\ Len(I) = D - 1 /\ \A k \in 1..(D - 1) : I[k] = s[k]
        /\ F \in Seq(Nat) /\ M = (IF DotAt(s) = 0 THEN 0 ELSE N - D)
        /\ M = Decimals(s) /\ \A j \in 1..M : F[j] = s[D + j]
    BY PartsOfText
  <1>3. I \in Seq(Digit) /\ F \in Seq(Digit) /\ M <= scale
    BY ReadableParts
  <1>4. M \in Nat
    BY <1>2, LenProperties
  <1>5. \A j \in 1..M : s[D + j] # Dot
    <2>1. \A j \in 1..M : F[j] \in Digit
      BY <1>3, ElementOfSeq
    <2>2. Dot \notin Digit
      BY DEF Dot, Digit
    <2> HIDE DEF D, F, M
    <2> QED BY <1>2, <2>1, <2>2
  <1>6. PICK h \in [0..Len(I) -> Nat] :
            /\ h[0] = 0 /\ \A k \in 1..Len(I) : h[k] = 10 * h[k - 1] + I[k]
            /\ SetString(I) = h[Len(I)]
    BY <1>2, SetStringScan
  <1>7. PICK e \in [0..Len(F) -> Nat] :
            /\ e[0] = 0 /\ \A k \in 1..Len(F) : e[k] = 10 * e[k - 1] + F[k]
            /\ SetString(F) = e[Len(F)]
    BY <1>2, SetStringScan
  <1>8. ASSUME NEW k \in 1..(D - 1)
        PROVE  Place(s, k, scale) = scale + (D - 1) - k /\ scale + (D - 1) - k \in Nat
    <2>1. CASE DotAt(s) = 0
      <3>1. Place(s, k, scale) = scale - 0 + N - k
        BY <2>1 DEF Place, Decimals
      <3> HIDE DEF D, N
      <3> QED BY <1>1, <2>1, <3>1
    <2>2. CASE DotAt(s) # 0
      <3>1. ~(k > DotAt(s)) /\ DotAt(s) = D
        BY <1>1, <2>2
      <3>2. Place(s, k, scale) = scale + DotAt(s) - 1 - k
        BY <2>2, <3>1 DEF Place
      <3> HIDE DEF D, N
      <3> QED BY <1>1, <3>1, <3>2
    <2> QED BY <2>1, <2>2
  <1>9. ASSUME NEW j \in 1..M
        PROVE  Place(s, D + j, scale) = scale - j /\ scale - j \in Nat
    <2>1. DotAt(s) # 0 /\ DotAt(s) = D /\ M = N - D
      BY <1>1, <1>2
    <2>2. D + j > DotAt(s)
      BY <1>1, <2>1
    <2>3. Place(s, D + j, scale) = scale - M + N - (D + j)
      BY <1>2, <2>2 DEF Place
    <2> HIDE DEF D, M, N, F
    <2> QED BY <1>1, <1>3, <1>4, <2>1, <2>3
  <1> DEFINE base == h[D - 1] * pow10[scale]
             c == [k \in 0..N |-> IF k < D THEN h[k] * pow10[scale + (D - 1) - k]
                                  ELSE base + e[k - D] * pow10[scale - (k - D)]]
             Step(x, k) == IF s[k] = Dot THEN x ELSE x + s[k] * pow10[Place(s, k, scale)]
  <1> HIDE DEF D, I, F, N, M
  <1>10. h[D - 1] \in Nat /\ pow10[scale] \in Nat /\ base \in Nat
    <2>1. D - 1 \in 0..Len(I)
      BY <1>1, <1>2
    <2>2. h[D - 1] \in Nat /\ pow10[scale] \in Nat
      BY <2>1, Powers
    <2> QED BY <2>2
  <1>11. c[0] = 0
    <2>1. 0 < D /\ 0 \in 0..N
      BY <1>1
    <2>2. scale + (D - 1) - 0 \in Nat
      BY <1>1
    <2>3. pow10[scale + (D - 1) - 0] \in Nat
      BY <2>2, Powers
    <2>4. c[0] = 0 * pow10[scale + (D - 1) - 0]
      BY <1>6, <2>1
    <2> QED BY <2>3, <2>4
  <1>12. ASSUME NEW k \in 1..N PROVE c[k] = Step(c[k - 1], k)
    <2>0. k \in 0..N /\ k - 1 \in 0..N /\ k \in Nat /\ k - 1 \in Nat
      BY <1>1
    <2>1. CASE k < D
      <3>1. k \in 1..(D - 1) /\ k \in 1..Len(I) /\ k - 1 \in 0..Len(I) /\ k - 1 < D
        BY <1>1, <1>2, <2>1
      <3> DEFINE m == scale + (D - 1) - k
      <3>2. m \in Nat /\ Place(s, k, scale) = m /\ scale + (D - 1) - (k - 1) = m + 1
        BY <1>1, <1>8, <3>1
      <3>3. s[k] # Dot /\ I[k] = s[k] /\ s[k] \in Nat
        <4>1. I[k] \in Nat
          BY <1>2, <3>1, ElementOfSeq
        <4> QED BY <1>1, <1>2, <3>1, <4>1
      <3>4. h[k - 1] \in Nat /\ h[k] = 10 * h[k - 1] + s[k]
        BY <1>6, <3>1, <3>3
      <3>5. c[k] = h[k] * pow10[m] /\ c[k - 1] = h[k - 1] * pow10[m + 1]
        BY <2>0, <2>1, <3>1, <3>2
      <3> HIDE DEF m, c
      <3>6. h[k - 1] * pow10[m + 1] + s[k] * pow10[m] = (10 * h[k - 1] + s[k]) * pow10[m]
        BY <3>2, <3>3, <3>4, NextPlace
      <3>7. Step(c[k - 1], k) = c[k - 1] + s[k] * pow10[m]
        BY <3>2, <3>3
      <3> HIDE DEF Step
      <3> QED BY <3>4, <3>5, <3>6, <3>7
    <2>2. CASE k = D
      <3>1. s[k] = Dot
        <4>1. D # N + 1
          BY <1>1, <2>2
        <4> QED BY <1>1, <2>2, <4>1
      <3>2. k - 1 < D /\ ~(k < D) /\ k - D = 0 /\ scale + (D - 1) - (k - 1) = scale
            /\ scale - (k - D) = scale /\ k - 1 = D - 1
        BY <1>1, <2>2
      <3>3. c[k - 1] = h[D - 1] * pow10[scale]
        BY <2>0, <3>2
      <3>4. c[k] = base + e[0] * pow10[scale]
        BY <2>0, <3>2
      <3> HIDE DEF c
      <3>5. e[0] * pow10[scale] = 0
        BY <1>7, <1>10
      <3>6. c[k] = base
        <4> HIDE DEF base
        <4> QED BY <1>10, <3>4, <3>5
      <3> QED BY <3>1, <3>3, <3>6
    <2>3. CASE k > D
      <3> DEFINE j == k - D
                 m == scale - j
      <3>1. DotAt(s) # 0 /\ M = N - D
        BY <1>1, <1>2, <2>3
      <3>2. j \in 1..M /\ D + j = k /\ j - 1 \in 0..Len(F) /\ k - 1 - D = j - 1 /\ j \in Nat
        BY <1>1, <1>4, <2>3, <3>1 DEF M
      <3>3. m \in Nat /\ Place(s, k, scale) = m /\ scale - (j - 1) = m + 1
        <4>1. Place(s, D + j, scale) = scale - j /\ scale - j \in Nat
          BY <1>9, <3>2
        <4> QED BY <3>2, <4>1
      <3>4. s[k] # Dot /\ F[j] = s[k] /\ s[k] \in Nat
        <4>1. F[j] \in Nat
          BY <1>2, <3>2, ElementOfSeq DEF M
        <4> QED BY <1>2, <1>5, <3>2, <4>1
      <3>5. e[j - 1] \in Nat /\ e[j] = 10 * e[j - 1] + s[k]
        BY <1>7, <3>2, <3>4 DEF M
      <3>6. ~(k < D) /\ ~(k - 1 < D)
        BY <1>1, <2>3
      <3>7. c[k] = base + e[j] * pow10[m] /\ c[k - 1] = base + e[j - 1] * pow10[m + 1]
        <4>1. c[k] = base + e[k - D] * pow10[scale - (k - D)]
          BY <2>0, <3>6
        <4>2. c[k - 1] = base + e[k - 1 - D] * pow10[scale - (k - 1 - D)]
          BY <2>0, <3>6
        <4> HIDE DEF c, base
        <4>3. e[k - 1 - D] * pow10[scale - (k - 1 - D)] = e[j - 1] * pow10[m + 1]
          BY <3>2, <3>3
        <4> QED BY <4>1, <4>2, <4>3
      <3> HIDE DEF m, c, base, j
      <3>8. e[j - 1] * pow10[m + 1] + s[k] * pow10[m] = (10 * e[j - 1] + s[k]) * pow10[m]
        BY <3>3, <3>4, <3>5, NextPlace
      <3>9. Step(c[k - 1], k) = c[k - 1] + s[k] * pow10[m]
        BY <3>3, <3>4
      <3>10. pow10[m] \in Nat /\ pow10[m + 1] \in Nat
        BY <3>3, Powers
      <3>11. e[j - 1] * pow10[m + 1] \in Nat /\ s[k] * pow10[m] \in Nat
        <4> DEFINE x == e[j - 1]
                   y == s[k]
                   p == pow10[m + 1]
                   q == pow10[m]
        <4>1. x \in Nat /\ y \in Nat /\ p \in Nat /\ q \in Nat
          BY <3>4, <3>5, <3>10
        <4> HIDE DEF x, y, p, q
        <4>2. x * p \in Nat /\ y * q \in Nat
          BY <4>1
        <4> QED BY <4>2 DEF x, y, p, q
      <3> HIDE DEF Step
      <3> QED BY <1>10, <3>5, <3>7, <3>8, <3>9, <3>11
    <2> QED BY <1>1, <2>0, <2>1, <2>2, <2>3
  <1>13. c[N] = Worth(IntPart(s), FracPart(s), scale)
    <2>0. N \in 0..N /\ Len(I) = D - 1
      BY <1>1, <1>2
    <2>1. CASE DotAt(s) = 0
      <3>1. N < D /\ scale + (D - 1) - N = scale /\ N = D - 1 /\ M = 0
        BY <1>1, <1>2, <2>1
      <3>2. c[N] = h[D - 1] * pow10[scale]
        BY <2>0, <3>1
      <3>3. SetString(F) = 0 /\ scale - M \in Nat
        BY <1>7, <3>1 DEF M
      <3>4. SetString(F) * pow10[scale - M] = 0
        <4>1. pow10[scale - M] \in Nat
          BY <3>3, Powers
        <4> QED BY <3>3, <4>1
      <3>5. Worth(I, F, scale) = h[D - 1] * pow10[scale] + SetString(F) * pow10[scale - M]
        BY <1>6, <2>0 DEF Worth, M
      <3> HIDE DEF c
      <3>6. c[N] = Worth(I, F, scale)
        BY <1>10, <3>2, <3>4, <3>5
      <3> QED BY <3>6 DEF I, F
    <2>2. CASE DotAt(s) # 0
      <3>1. ~(N < D) /\ N - D = M
        BY <1>1, <1>2, <2>2
      <3>2. c[N] = base + e[M] * pow10[scale - M]
        BY <2>0, <3>1
      <3>3. Worth(I, F, scale) = base + e[M] * pow10[scale - M]
        BY <1>6, <1>7, <2>0 DEF Worth, M
      <3> HIDE DEF c, base
      <3> QED BY <3>2, <3>3 DEF I, F
    <2> QED BY <2>1, <2>2
  <1>14. c = [k \in 0..N |-> c[k]]
    OBVIOUS
  <1> HIDE DEF c, Step
  <1>15. c = [k \in 0..N |-> IF k = 0 THEN 0 ELSE Step(c[k - 1], k)]
    <2> DEFINE u == [k \in 0..N |-> IF k = 0 THEN 0 ELSE Step(c[k - 1], k)]
    <2>1. u = [k \in 0..N |-> u[k]]
      OBVIOUS
    <2>2. \A k \in 0..N : k = 0 \/ k \in 1..N
      BY <1>1
    <2>3. \A k \in 0..N : c[k] = u[k]
      BY <1>11, <1>12, <2>2
    <2> HIDE DEF u
    <2>4. c = u
      BY <1>14, <2>1, <2>3
    <2> QED BY <2>4 DEF u
  <1> DEFINE w == CHOOSE w : w = [k \in 0..N |-> IF k = 0 THEN 0 ELSE Step(w[k - 1], k)]
  <1>16. w = [k \in 0..N |-> IF k = 0 THEN 0 ELSE Step(w[k - 1], k)]
    BY <1>15
  <1>17. w = CHOOSE sum : sum = [i \in 0..Len(s) |->
               IF i = 0 THEN 0
               ELSE IF s[i] = Dot THEN sum[i - 1]
               ELSE sum[i - 1] + s[i] * pow10[Place(s, i, scale)]]
    BY DEF Step, N
  <1> HIDE DEF w
  <1>18. w[0] = 0 /\ \A k \in 1..N : w[k] = Step(w[k - 1], k)
    <2>1. 0 \in 0..N /\ \A k \in 1..N : k \in 0..N /\ k # 0
      BY <1>1
    <2> QED BY <1>16, <2>1
  <1> DEFINE A == {n \in Nat : n <= N => w[n] = c[n]}
  <1>19. 0 \in A
    BY <1>11, <1>18
  <1>20. ASSUME NEW n \in Nat, n \in A PROVE n + 1 \in A
    <2>1. SUFFICES ASSUME n + 1 <= N PROVE w[n + 1] = c[n + 1]
      OBVIOUS
    <2> DEFINE k == n + 1
    <2>2. k \in 1..N /\ k - 1 = n /\ n <= N
      BY <1>1, <2>1
    <2> HIDE DEF k
    <2>3. w[k] = c[k]
      BY <1>12, <1>18, <1>20, <2>2
    <2> QED BY <2>3 DEF k
  <1> HIDE DEF A
  <1>21. N \in A
    BY <1>1, <1>19, <1>20, SetInduction
  <1>22. w[Len(s)] = Worth(IntPart(s), FracPart(s), scale)
    BY <1>1, <1>13, <1>21 DEF A, N
  <1> QED BY <1>17, <1>22

\* ParseAmount on a text it accepts: what its parts are worth, whichever path
\* computes it.
LEMMA ParseWorth ==
  ASSUME NEW s \in Seq(Nat), NEW scale \in 0..MaxScale, Readable(s, scale)
  PROVE  ParseAmount(s, scale) =
            IF Worth(IntPart(s), FracPart(s), scale) > MaxBig THEN Error
            ELSE Ok(Worth(IntPart(s), FracPart(s), scale))
  <1> DEFINE I == IntPart(s)
             F == FracPart(s)
             n == Worth(I, F, scale)
  <1>1. scale \in Nat /\ MaxSmall \in Nat /\ MaxBig \in Nat /\ MaxSmall < MaxBig
    BY WidthAssumption
  <1>2. I \in Seq(Digit) /\ F \in Seq(Digit) /\ Len(F) <= scale
    BY <1>1, ReadableParts
  <1>3. n \in Nat
    BY <1>2, WorthTerms
  <1>4. parseUint64(I, F, scale) = IF n <= MaxSmall THEN Ok(n) ELSE Error
    BY <1>2, FastPathExact
  <1>5. parseAmountBig(I, F, scale) = IF n > MaxBig THEN Error ELSE Ok(n)
    BY <1>2, BigPathExact
  <1>6. ParseAmount(s, scale) = IF parseUint64(I, F, scale).ok THEN parseUint64(I, F, scale)
                                ELSE parseAmountBig(I, F, scale)
    <2>1. isDigits(I) /\ (DotAt(s) # 0 => isDigits(F)) /\ ~(Len(F) > scale)
      <3>1. Len(F) \in Nat
        BY <1>2, LenProperties
      <3>2. ~(Len(F) > scale)
        BY <1>1, <1>2, <3>1
      <3> QED BY <3>2 DEF Readable
    <2> HIDE DEF n
    <2> QED BY <2>1 DEF ParseAmount
  <1> HIDE DEF n, I, F
  <1>7. CASE n <= MaxSmall
    <2>1. ~(n > MaxBig)
      BY <1>1, <1>3, <1>7
    <2>2. parseUint64(I, F, scale).ok
      BY <1>4, <1>7 DEF Ok
    <2> QED BY <1>4, <1>6, <1>7, <2>1, <2>2 DEF n, I, F
  <1>8. CASE ~(n <= MaxSmall)
    <2>1. ~parseUint64(I, F, scale).ok
      BY <1>4, <1>8 DEF Error
    <2> QED BY <1>5, <1>6, <2>1 DEF n, I, F
  <1> QED BY <1>7, <1>8

\* ParseAmount gives the value a text denotes, for every text, every scale the
\* tables cover and every width of the word, and refuses the texts that denote
\* none (internal/model/amount.go: the fast path "reporting false the moment
\* any step would not fit in a uint64 so the caller can fall back rather than
\* wrap").
THEOREM ParseExact ==
  ASSUME NEW s \in Seq(Nat), NEW scale \in 0..MaxScale
  PROVE  ParseAmount(s, scale) = Denotes(s, scale)
  <1>1. scale \in Nat
    BY WidthAssumption
  <1> DEFINE n == Worth(IntPart(s), FracPart(s), scale)
  <1>2. CASE Readable(s, scale)
    <2>1. Meaningful(s, scale)
      BY <1>1, <1>2, SyntaxExact
    <2>2. ParseAmount(s, scale) = IF n > MaxBig THEN Error ELSE Ok(n)
      BY <1>2, ParseWorth
    <2> DEFINE sum == CHOOSE sum : sum = [i \in 0..Len(s) |->
                        IF i = 0 THEN 0
                        ELSE IF s[i] = Dot THEN sum[i - 1]
                        ELSE sum[i - 1] + s[i] * pow10[Place(s, i, scale)]]
    <2>3. sum[Len(s)] = n
      BY <1>1, <1>2, PlacesExact
    <2>4. Denotes(s, scale) = IF sum[Len(s)] > MaxBig THEN Error ELSE Ok(sum[Len(s)])
      BY <2>1 DEF Denotes, Meaningful
    <2> HIDE DEF sum, n
    <2> QED BY <2>2, <2>3, <2>4
  <1>3. CASE ~Readable(s, scale)
    <2>1. ~Meaningful(s, scale)
      BY <1>1, <1>3, SyntaxExact
    <2>2. Denotes(s, scale) = Error
      BY <2>1 DEF Denotes, Meaningful
    <2>3. Len(FracPart(s)) \in Nat
      BY PartsOfText, LenProperties
    <2>4. \/ ~isDigits(IntPart(s)) \/ (DotAt(s) # 0 /\ ~isDigits(FracPart(s)))
          \/ Len(FracPart(s)) > scale
      BY <1>1, <1>3, <2>3 DEF Readable
    <2>5. ParseAmount(s, scale) = Error
      BY <2>4 DEF ParseAmount
    <2> QED BY <2>2, <2>5
  <1> QED BY <1>2, <1>3

-----------------------------------------------------------------------------
(* The digits of a number.                                                 *)

\* Every number has a power of ten above it.
LEMMA PowersGrow ==
  ASSUME NEW n \in Nat
  PROVE  n < pow10[n + 1]
  <1> DEFINE D == {k \in Nat : k < pow10[k + 1]}
  <1>1. 0 \in D
    <2>1. 0 + 1 \in Nat
      OBVIOUS
    <2>2. pow10[0 + 1] >= 1 /\ pow10[0 + 1] \in Nat
      BY <2>1, PowersPositive
    <2> QED BY <2>2
  <1>2. ASSUME NEW k \in Nat, k \in D PROVE k + 1 \in D
    <2> DEFINE p == pow10[k + 1]
    <2>1. k + 1 \in Nat /\ p \in Nat
      BY PowersPositive
    <2>2. pow10[(k + 1) + 1] = 10 * p
      BY <2>1, Powers
    <2>3. k < p
      BY <1>2
    <2> HIDE DEF p
    <2>4. k + 1 < 10 * p
      BY <2>1, <2>3
    <2>5. k + 1 < pow10[(k + 1) + 1]
      BY <2>2, <2>4
    <2> QED BY <2>1, <2>5
  <1> HIDE DEF D
  <1>3. n \in D
    BY <1>1, <1>2, SetInduction
  <1> QED BY <1>3 DEF D

\* The first digit is not zero, and there are no more digits than needed.
LEMMA DigitCountExact ==
  ASSUME NEW n \in Nat
  PROVE  /\ DigitCount(n) \in Nat \ {0}
         /\ n < pow10[DigitCount(n)]
         /\ DigitCount(n) > 1 => pow10[DigitCount(n) - 1] <= n
  <1> DEFINE Good(k) == n \div pow10[k - 1] \in 1..9 \/ (n = 0 /\ k = 1)
             L == DigitCount(n)
  <1>1. \E k \in 1..(n + 1) : Good(k)
    <2> DEFINE above == {k \in 1..(n + 1) : n < pow10[k]}
    <2>1. n + 1 \in above
      BY PowersGrow
    <2>2. PICK k \in above : \A j \in above : k <= j
      <3>1. above \subseteq Nat /\ above # {}
        BY <2>1
      <3> HIDE DEF above
      <3> QED BY <3>1, NatMin
    <2>3. k \in 1..(n + 1) /\ n < pow10[k]
      BY <2>2
    <2> DEFINE p == pow10[k - 1]
    <2>4. k - 1 \in Nat /\ (k - 1) + 1 = k
      BY <2>3
    <2>5. p \in Nat \ {0} /\ pow10[k] = 10 * p
      BY <2>4, Powers
    <2>6. CASE p <= n
      <3> DEFINE q == n \div p
                 r == n % p
      <3>1. q \in Nat /\ r \in 0..(p - 1) /\ n = p * q + r
        BY <2>5, Division
      <3>2. ~(q <= 0)
        <4> SUFFICES ASSUME q <= 0 PROVE FALSE
          OBVIOUS
        <4> HIDE DEF q, r, p
        <4>1. q = 0 /\ p * 0 = 0
          BY <2>5, <3>1
        <4> QED BY <2>5, <2>6, <3>1, <4>1
      <3>3. ~(10 <= q)
        <4> SUFFICES ASSUME 10 <= q PROVE FALSE
          OBVIOUS
        <4> HIDE DEF q, r, p
        <4>1. 10 * p <= q * p /\ q * p = p * q /\ p * q \in Nat
          BY <2>5, <3>1, TimesMonotone
        <4> QED BY <2>3, <2>5, <3>1, <4>1
      <3>4. q \in 1..9
        <4> HIDE DEF q
        <4> QED BY <3>1, <3>2, <3>3
      <3> QED BY <2>3, <3>4
    <2>7. CASE ~(p <= n)
      <3>1. k = 1
        <4> SUFFICES ASSUME k # 1 PROVE FALSE
          OBVIOUS
        <4>1. k - 1 \in 1..(n + 1) /\ ~(k <= k - 1)
          BY <2>3
        <4>2. n < p
          <5> HIDE DEF p
          <5> QED BY <2>5, <2>7
        <4>3. k - 1 \in above
          BY <4>1, <4>2
        <4> QED BY <2>2, <4>1, <4>3
      <3>2. p = 1
        BY <3>1, Powers
      <3>3. n = 0
        <4> HIDE DEF p
        <4> QED BY <2>7, <3>2
      <3> QED BY <2>3, <3>1, <3>3
    <2> QED BY <2>6, <2>7
  <1>2. L \in 1..(n + 1) /\ Good(L)
    BY <1>1 DEF DigitCount
  <1> HIDE DEF L
  <1>3. L \in Nat \ {0} /\ L - 1 \in Nat /\ (L - 1) + 1 = L
    BY <1>2
  <1> DEFINE p == pow10[L - 1]
  <1>4. p \in Nat \ {0} /\ pow10[L] = 10 * p
    BY <1>3, Powers
  <1>5. CASE n \div p \in 1..9
    <2> DEFINE q == n \div p
               r == n % p
    <2>1. q \in Nat /\ r \in 0..(p - 1) /\ n = p * q + r
      BY <1>4, Division
    <2>2. q \in 1..9
      BY <1>5
    <2> HIDE DEF q, r, p
    <2>3. 1 * p <= q * p /\ q * p <= 9 * p /\ q * p = p * q /\ p * q \in Nat /\ 1 * p = p
      BY <1>4, <2>1, <2>2, TimesMonotone
    <2>4. p <= n /\ n < 10 * p
      BY <1>4, <2>1, <2>3
    <2> QED BY <1>3, <1>4, <2>4 DEF p, L
  <1>6. CASE n = 0 /\ L = 1
    <2>1. n < pow10[L]
      <3> HIDE DEF p
      <3> QED BY <1>4, <1>6
    <2>2. ~(L > 1)
      BY <1>6
    <2> QED BY <1>3, <2>1, <2>2 DEF L
  <1> QED BY <1>2, <1>5, <1>6

\* The number without its last digit.
LEMMA DropDigit ==
  ASSUME NEW n \in Nat, NEW p \in Nat \ {0}
  PROVE  n \div p = 10 * (n \div (10 * p)) + ((n \div p) % 10)
  <1> DEFINE q == n \div p
             r == n % p
             a == q \div 10
             b == q % 10
  <1>1. q \in Nat /\ r \in 0..(p - 1) /\ n = p * q + r
    BY Division
  <1> HIDE DEF q, r
  <1>2. a \in Nat /\ b \in 0..9 /\ q = 10 * a + b
    BY <1>1
  <1> HIDE DEF a, b
  <1>3. p * q = (10 * p) * a + p * b
    BY <1>2
  <1>4. b * p <= 9 * p /\ b * p = p * b /\ p * b \in Nat
    BY <1>2, TimesMonotone
  <1>5. p * b + r \in 0..(10 * p - 1) /\ 10 * p \in Nat \ {0}
    BY <1>1, <1>4
  <1>6. (10 * p) * a \in Nat
    BY <1>2
  <1>7. n = (10 * p) * a + (p * b + r)
    BY <1>1, <1>3, <1>4, <1>6
  <1>8. n \div (10 * p) = a
    BY <1>2, <1>5, <1>7, DivisionUnique
  <1> QED BY <1>2, <1>8 DEF q, b

\* A number's digits read as the number.
LEMMA DecimalExact ==
  ASSUME NEW n \in Nat
  PROVE  /\ Decimal(n) \in Seq(Digit) /\ Len(Decimal(n)) = DigitCount(n)
         /\ SetString(Decimal(n)) = n
  <1> DEFINE L == DigitCount(n)
             d == Decimal(n)
             q == [k \in 0..L |-> n \div pow10[L - k]]
  <1>1. L \in Nat \ {0} /\ n < pow10[L]
    BY DigitCountExact
  <1>2. d = [i \in 1..L |-> (n \div pow10[L - i]) % 10]
    BY DEF Decimal
  <1> HIDE DEF L, d
  <1>3. ASSUME NEW k \in 0..L PROVE L - k \in Nat /\ pow10[L - k] \in Nat \ {0}
    <2>1. L - k \in Nat
      BY <1>1
    <2> QED BY <2>1, Powers
  <1>4. \A k \in 0..L : q[k] \in Nat
    BY <1>3, Division
  <1>5. \A k \in 1..L : d[k] = q[k] % 10 /\ d[k] \in 0..9
    <2> TAKE k \in 1..L
    <2>1. k \in 0..L
      BY <1>1
    <2>2. d[k] = q[k] % 10 /\ q[k] \in Nat
      BY <1>2, <1>4, <2>1
    <2> HIDE DEF q
    <2> QED BY <2>2
  <1>6. q[0] = 0
    <2> DEFINE p == pow10[L]
    <2>1. p \in Nat \ {0} /\ L - 0 = L /\ 0 \in 0..L
      BY <1>1, Powers
    <2>2. q[0] = n \div p
      BY <2>1
    <2> HIDE DEF p, q
    <2>3. n \in 0..(p - 1) /\ n = p * 0 + n
      BY <1>1, <2>1 DEF p
    <2>4. n \div p = 0
      BY <2>1, <2>3, DivisionUnique
    <2> QED BY <2>2, <2>4
  <1>7. ASSUME NEW k \in 1..L PROVE q[k] = 10 * q[k - 1] + d[k]
    <2> DEFINE p == pow10[L - k]
    <2>1. k \in 0..L /\ k - 1 \in 0..L /\ L - (k - 1) = (L - k) + 1
      BY <1>1
    <2>2. p \in Nat \ {0} /\ L - k \in Nat
      BY <1>3, <2>1
    <2>3. pow10[L - (k - 1)] = 10 * p
      BY <2>1, <2>2, Powers
    <2>4. q[k] = n \div p /\ q[k - 1] = n \div (10 * p)
      BY <2>1, <2>3
    <2> HIDE DEF p, q
    <2>5. n \div p = 10 * (n \div (10 * p)) + ((n \div p) % 10)
      BY <2>2, DropDigit
    <2> QED BY <1>5, <2>4, <2>5
  <1>8. q[L] = n
    <2>1. L \in 0..L /\ L - L = 0
      BY <1>1
    <2>2. q[L] = n \div 1
      BY <2>1, Powers
    <2> QED BY <2>2
  <1>9. d \in Seq(Digit) /\ Len(d) = L
    <2>1. DOMAIN d = 1..L /\ d = [i \in 1..L |-> d[i]]
      BY <1>2
    <2>2. \A i \in 1..L : d[i] \in Digit
      BY <1>5 DEF Digit
    <2>3. d \in Seq(Digit)
      BY <1>1, <2>1, <2>2, IsASeq
    <2> QED BY <1>1, <2>1, <2>3, LenProperties
  <1>10. d \in Seq(Nat)
    BY <1>9, SetStringBound
  <1> HIDE DEF q
  <1>11. PICK h \in [0..Len(d) -> Nat] :
            /\ h[0] = 0 /\ \A k \in 1..Len(d) : h[k] = 10 * h[k - 1] + d[k]
            /\ SetString(d) = h[Len(d)]
    BY <1>10, SetStringScan
  <1> DEFINE A == {k \in Nat : k <= L => h[k] = q[k]}
  <1>12. 0 \in A
    BY <1>6, <1>11
  <1>13. ASSUME NEW m \in Nat, m \in A PROVE m + 1 \in A
    <2>1. SUFFICES ASSUME m + 1 <= L PROVE h[m + 1] = q[m + 1]
      OBVIOUS
    <2> DEFINE k == m + 1
    <2>2. k \in 1..L /\ k - 1 = m /\ m <= L /\ k \in 1..Len(d)
      BY <1>1, <1>9, <2>1
    <2> HIDE DEF k
    <2>3. h[m] = q[m]
      BY <1>13, <2>2
    <2>4. h[k] = 10 * h[m] + d[k] /\ q[k] = 10 * q[m] + d[k]
      BY <1>7, <1>11, <2>2
    <2>5. h[k] = q[k]
      BY <2>3, <2>4
    <2> QED BY <2>5 DEF k
  <1> HIDE DEF A
  <1>14. L \in A
    BY <1>1, <1>12, <1>13, SetInduction
  <1>15. SetString(d) = n
    BY <1>1, <1>8, <1>9, <1>11, <1>14 DEF A
  <1> QED BY <1>9, <1>15 DEF L, d

-----------------------------------------------------------------------------
(* ParseAmount reads back what FormatAmount writes.                        *)

\* Digits alone.
LEMMA DigitsAlone ==
  ASSUME NEW a \in Seq(Digit), a # <<>>, NEW scale \in Nat
  PROVE  /\ a \in Seq(Nat) /\ IntPart(a) = a /\ FracPart(a) = <<>> /\ Readable(a, scale)
  <1>1. a \in Seq(Nat) /\ Len(a) \in Nat /\ \A k \in 1..Len(a) : a[k] \in Digit
    BY SetStringBound, ElementOfSeq, LenProperties
  <1>2. Dot \notin Digit
    BY DEF Dot, Digit
  <1>3. DotAt(a) = 0
    <2> SUFFICES ASSUME DotAt(a) # 0 PROVE FALSE
      OBVIOUS
    <2>1. Cut(a) \in 1..Len(a) /\ a[Cut(a)] = Dot
      BY <1>1, FirstDot
    <2> QED BY <1>1, <1>2, <2>1
  <1>4. IntPart(a) = a /\ FracPart(a) = <<>>
    BY <1>3 DEF IntPart, FracPart
  <1>5. isDigits(a)
    BY <1>1 DEF isDigits
  <1>6. Len(<<>>) <= scale
    OBVIOUS
  <1> QED BY <1>1, <1>3, <1>4, <1>5, <1>6 DEF Readable

\* One text after another.
LEMMA TextConcat ==
  ASSUME NEW a \in Seq(Nat), NEW b \in Seq(Nat)
  PROVE  /\ a \o b \in Seq(Nat) /\ Len(a \o b) = Len(a) + Len(b)
         /\ \A i \in 1..(Len(a) + Len(b)) :
               (a \o b)[i] = IF i <= Len(a) THEN a[i] ELSE b[i - Len(a)]
  BY ConcatProperties

\* Digits, a dot and digits.
LEMMA DigitsWithDot ==
  ASSUME NEW a \in Seq(Digit), a # <<>>, NEW b \in Seq(Digit), b # <<>>,
         NEW scale \in Nat, Len(b) <= scale, NEW t,
         t = a \o (<<Dot>> \o b)
  PROVE  /\ t \in Seq(Nat) /\ IntPart(t) = a /\ FracPart(t) = b /\ Readable(t, scale)
  <1>1. a \in Seq(Nat) /\ Len(a) \in Nat /\ \A k \in 1..Len(a) : a[k] \in Digit
    BY SetStringBound, ElementOfSeq, LenProperties
  <1>2. b \in Seq(Nat) /\ Len(b) \in Nat /\ \A k \in 1..Len(b) : b[k] \in Digit
    BY SetStringBound, ElementOfSeq, LenProperties
  <1>3. Dot \notin Digit /\ Dot \in Nat
    BY DEF Dot, Digit
  <1> DEFINE u == <<Dot>> \o b
             L == Len(a)
  <1>4. /\ u \in Seq(Nat) /\ Len(u) = 1 + Len(b) /\ u[1] = Dot
        /\ \A j \in 1..Len(b) : u[1 + j] = b[j]
    <2>1. <<Dot>> \in Seq(Nat) /\ Len(<<Dot>>) = 1 /\ <<Dot>>[1] = Dot
      BY <1>3
    <2> DEFINE w == <<Dot>>
    <2> HIDE DEF w
    <2>2. /\ w \o b \in Seq(Nat) /\ Len(w \o b) = Len(w) + Len(b)
          /\ \A i \in 1..(Len(w) + Len(b)) :
                (w \o b)[i] = IF i <= Len(w) THEN w[i] ELSE b[i - Len(w)]
      BY <1>2, <2>1, ConcatProperties DEF w
    <2>3. Len(w) = 1 /\ w[1] = Dot
      BY <2>1 DEF w
    <2>4. (w \o b)[1] = Dot
      BY <1>2, <2>2, <2>3
    <2>5. ASSUME NEW j \in 1..Len(b) PROVE (w \o b)[1 + j] = b[j]
      <3> DEFINE i == 1 + j
      <3>1. i \in 1..(Len(w) + Len(b)) /\ ~(i <= Len(w)) /\ i - Len(w) = j
        BY <1>2, <2>3
      <3> HIDE DEF i
      <3>2. (w \o b)[i] = b[i - Len(w)]
        BY <2>2, <3>1
      <3> QED BY <3>1, <3>2 DEF i
    <2> QED BY <2>2, <2>3, <2>4, <2>5 DEF w
  <1> HIDE DEF u
  <1>5. /\ t \in Seq(Nat) /\ Len(t) = L + 1 + Len(b)
        /\ \A k \in 1..L : t[k] = a[k]
        /\ t[L + 1] = Dot
        /\ \A j \in 1..Len(b) : t[L + 1 + j] = b[j]
    <2>1. t = a \o u
      BY DEF u
    <2>2. /\ t \in Seq(Nat) /\ Len(t) = L + Len(u)
          /\ \A i \in 1..(L + Len(u)) : t[i] = IF i <= L THEN a[i] ELSE u[i - L]
      <3> DEFINE x == a \o u
      <3>1. /\ x \in Seq(Nat) /\ Len(x) = Len(a) + Len(u)
            /\ \A i \in 1..(Len(a) + Len(u)) : x[i] = IF i <= Len(a) THEN a[i] ELSE u[i - Len(a)]
        <4>1. a \in Seq(Nat) /\ u \in Seq(Nat)
          BY <1>1, <1>4
        <4> QED BY <4>1, TextConcat, Zenon
      <3>2. t = x
        BY <2>1
      <3> HIDE DEF x
      <3> QED BY <3>1, <3>2
    <2>3. \A k \in 1..L : k \in 1..(L + Len(u)) /\ k <= L
      BY <1>1, <1>2, <1>4
    <2>4. L + 1 \in 1..(L + Len(u)) /\ ~(L + 1 <= L) /\ L + 1 - L = 1
      BY <1>1, <1>2, <1>4
    <2>5. ASSUME NEW j \in 1..Len(b) PROVE t[L + 1 + j] = b[j]
      <3>1. L + 1 + j \in 1..(L + Len(u)) /\ ~(L + 1 + j <= L) /\ L + 1 + j - L = 1 + j
        <4>1. L \in Nat /\ Len(b) \in Nat /\ Len(u) = 1 + Len(b) /\ j \in 1..Len(b)
          BY <1>1, <1>2, <1>4
        <4> HIDE DEF L
        <4> QED BY <4>1
      <3> DEFINE i == L + 1 + j
      <3>2. i \in 1..(L + Len(u)) /\ ~(i <= L) /\ i - L = 1 + j
        BY <3>1
      <3> HIDE DEF i
      <3>3. t[i] = u[i - L]
        BY <2>2, <3>2
      <3> QED BY <1>4, <3>2, <3>3 DEF i
    <2>6. Len(t) = L + 1 + Len(b)
      BY <1>1, <1>2, <1>4, <2>2
    <2>7. \A k \in 1..L : t[k] = a[k]
      BY <2>2, <2>3
    <2>8. t[L + 1] = Dot
      BY <1>4, <2>2, <2>4
    <2> QED BY <2>2, <2>5, <2>6, <2>7, <2>8
  <1> HIDE DEF L
  <1> DEFINE D == Cut(t)
  <1>6. /\ D \in 1..(Len(t) + 1) /\ Len(t) \in Nat
        /\ \A k \in 1..(D - 1) : t[k] # Dot
        /\ DotAt(t) = 0 <=> D = Len(t) + 1
        /\ DotAt(t) # 0 => DotAt(t) = D /\ D \in 1..Len(t) /\ t[D] = Dot
    BY <1>5, FirstDot
  <1> HIDE DEF D
  <1>7. L \in Nat
    BY <1>1 DEF L
  <1>8. D = L + 1
    <2>1. ~(D > L + 1)
      <3> SUFFICES ASSUME D > L + 1 PROVE FALSE
        OBVIOUS
      <3>1. L + 1 \in 1..(D - 1)
        BY <1>6, <1>7
      <3> QED BY <1>5, <1>6, <3>1
    <2>2. ~(D < L + 1)
      <3> SUFFICES ASSUME D < L + 1 PROVE FALSE
        OBVIOUS
      <3>1. D \in 1..L /\ D # Len(t) + 1
        BY <1>2, <1>5, <1>6, <1>7
      <3>2. t[D] = Dot
        BY <1>6, <3>1
      <3>3. t[D] \in Digit
        BY <1>1, <1>5, <3>1 DEF L
      <3> QED BY <1>3, <3>2, <3>3
    <2> QED BY <1>6, <1>7, <2>1, <2>2
  <1>9. DotAt(t) # 0
    BY <1>2, <1>5, <1>6, <1>7, <1>8
  <1>10. /\ IntPart(t) \in Seq(Nat) /\ Len(IntPart(t)) = D - 1
         /\ \A k \in 1..(D - 1) : IntPart(t)[k] = t[k]
         /\ FracPart(t) \in Seq(Nat) /\ Len(FracPart(t)) = Len(t) - D
         /\ \A j \in 1..Len(FracPart(t)) : FracPart(t)[j] = t[D + j]
    BY <1>5, <1>9, PartsOfText DEF D
  <1>11. IntPart(t) = a
    <2>1. D - 1 = L
      BY <1>7, <1>8
    <2>2. Len(IntPart(t)) = Len(a) /\ \A k \in 1..Len(IntPart(t)) : IntPart(t)[k] = a[k]
      BY <1>5, <1>10, <2>1 DEF L
    <2> QED BY <1>1, <1>10, <2>2, SeqEqual
  <1>12. FracPart(t) = b
    <2>1. Len(t) - D = Len(b)
      BY <1>2, <1>5, <1>7, <1>8
    <2>2. \A j \in 1..Len(FracPart(t)) : FracPart(t)[j] = b[j]
      BY <1>5, <1>8, <1>10, <2>1
    <2> QED BY <1>2, <1>10, <2>1, <2>2, SeqEqual
  <1>13. isDigits(a) /\ isDigits(b)
    BY <1>1, <1>2 DEF isDigits
  <1> QED BY <1>5, <1>11, <1>12, <1>13 DEF Readable

\* The loop that counts the digits of the remainder finds as many as are
\* written, and there is room for them.
LEMMA PaddingExact ==
  ASSUME NEW scale \in 1..MaxScale, NEW r \in 0..(pow10[scale] - 1)
  PROVE  /\ r \in Nat /\ DigitCount(r) \in 1..scale
         /\ 1 + Cardinality({k \in 1..MaxScale : r >= pow10[k]}) = DigitCount(r)
  <1> DEFINE L == DigitCount(r)
             S == {k \in 1..MaxScale : r >= pow10[k]}
  <1>1. MaxScale \in Nat /\ scale \in Nat /\ scale <= MaxScale /\ scale >= 1
    BY WidthAssumption
  <1>2. pow10[scale] \in Nat /\ r \in Nat /\ r < pow10[scale]
    <2>1. pow10[scale] \in Nat
      BY <1>1, PowersPositive
    <2> QED BY <2>1
  <1>3. L \in Nat \ {0} /\ r < pow10[L] /\ (L > 1 => pow10[L - 1] <= r)
    BY <1>2, DigitCountExact
  <1> HIDE DEF L
  <1>4. L <= scale
    <2> SUFFICES ASSUME L > scale PROVE FALSE
      BY <1>1, <1>3
    <2>1. L > 1 /\ L - 1 \in Nat /\ scale <= L - 1
      BY <1>1, <1>3
    <2>2. pow10[scale] <= pow10[L - 1] /\ pow10[L - 1] \in Nat
      BY <1>1, <2>1, PowersMonotone, PowersPositive
    <2> QED BY <1>2, <1>3, <2>1, <2>2
  <1>5. S = 1..(L - 1)
    <2>1. ASSUME NEW k \in 1..MaxScale PROVE r >= pow10[k] <=> k \in 1..(L - 1)
      <3>1. k \in Nat /\ pow10[k] \in Nat /\ pow10[L] \in Nat
        BY <1>1, <1>3, PowersPositive
      <3>2. CASE k <= L - 1
        <4>1. L > 1 /\ L - 1 \in Nat /\ k \in 1..(L - 1)
          BY <1>3, <3>1, <3>2
        <4>2. pow10[k] <= pow10[L - 1] /\ pow10[L - 1] \in Nat
          BY <3>1, <3>2, <4>1, PowersMonotone, PowersPositive
        <4>3. r >= pow10[k]
          BY <1>2, <1>3, <3>1, <4>1, <4>2
        <4> QED BY <4>1, <4>3
      <3>3. CASE ~(k <= L - 1)
        <4>1. L <= k /\ L \in Nat
          BY <1>3, <3>1, <3>3
        <4>2. pow10[L] <= pow10[k]
          BY <3>1, <4>1, PowersMonotone
        <4>3. ~(r >= pow10[k])
          BY <1>2, <1>3, <3>1, <4>2
        <4>4. k \notin 1..(L - 1)
          BY <1>3, <3>1, <3>3
        <4> QED BY <4>3, <4>4
      <3> QED BY <3>2, <3>3
    <2>2. \A k \in 1..(L - 1) : k \in 1..MaxScale
      BY <1>1, <1>3, <1>4
    <2> QED BY <2>1, <2>2
  <1>6. Cardinality(1..(L - 1)) = L - 1
    <2>1. 1 \in Int /\ L - 1 \in Int
      BY <1>3
    <2>2. Cardinality(1..(L - 1)) = IF 1 > L - 1 THEN 0 ELSE (L - 1) - 1 + 1
      BY <2>1, FS_Interval, Zenon
    <2>3. CASE 1 > L - 1
      <3>1. L - 1 = 0
        BY <1>3, <2>3
      <3> QED BY <2>2, <2>3, <3>1
    <2>4. CASE ~(1 > L - 1)
      BY <1>3, <2>2, <2>4
    <2> QED BY <2>3, <2>4
  <1>7. 1 + Cardinality(S) = L
    <2> HIDE DEF S
    <2>1. Cardinality(S) = L - 1
      BY <1>5, <1>6
    <2> QED BY <1>3, <2>1
  <1> QED BY <1>1, <1>2, <1>3, <1>4, <1>7 DEF L

\* Both paths of FormatAmount write the same text.
LEMMA FormatText ==
  ASSUME NEW u \in Nat, NEW scale \in 0..MaxScale
  PROVE  FormatAmount(u, scale) =
            IF scale = 0 THEN Decimal(u)
            ELSE Decimal(u \div pow10[scale])
                   \o Fraction(u % pow10[scale], scale - DigitCount(u % pow10[scale]))
  <1>1. CASE scale = 0
    BY <1>1 DEF FormatAmount, formatUint64, formatAmountBig
  <1>2. CASE scale # 0
    <2> DEFINE r == u % pow10[scale]
    <2>1. scale \in 1..MaxScale /\ scale \in Nat
      BY <1>2, WidthAssumption
    <2>2. r \in 0..(pow10[scale] - 1)
      <3>1. pow10[scale] \in Nat \ {0}
        BY <2>1, Powers
      <3> QED BY <3>1, Division
    <2>3. r \in Nat /\ 1 + Cardinality({k \in 1..MaxScale : r >= pow10[k]}) = DigitCount(r)
      BY <2>1, <2>2, PaddingExact
    <2>4. Len(Decimal(r)) = DigitCount(r)
      BY <2>3, DecimalExact
    <2>5. formatUint64(u, scale) =
            Decimal(u \div pow10[scale]) \o Fraction(r, scale - DigitCount(r))
      BY <1>2, <2>3 DEF formatUint64
    <2>6. formatAmountBig(u, scale) =
            Decimal(u \div pow10[scale]) \o Fraction(r, scale - DigitCount(r))
      BY <1>2, <2>4 DEF formatAmountBig
    <2> QED BY <1>2, <2>5, <2>6 DEF FormatAmount
  <1> QED BY <1>1, <1>2

\* How three texts are put together makes no difference.
LEMMA TextsAssociate ==
  ASSUME NEW w \in Seq(Nat), NEW z \in Seq(Nat), NEW d \in Seq(Nat)
  PROVE  (w \o z) \o d = w \o (z \o d)
  BY ConcatAssociative, SMTT(30)

\* ParseAmount reads back every amount FormatAmount writes, for every scale
\* the tables cover and whichever path either takes (internal/model/amount.go:
\* "Two paths, one output"; "an amount that rounds is worse than an amount
\* that is slow").
THEOREM RoundTrip ==
  ASSUME NEW u \in 0..MaxBig, NEW scale \in 0..MaxScale
  PROVE  ParseAmount(FormatAmount(u, scale), scale) = Ok(u)
  <1> DEFINE t == FormatAmount(u, scale)
             n == Worth(IntPart(t), FracPart(t), scale)
  <1>1. u \in Nat /\ scale \in Nat /\ MaxBig \in Nat /\ u <= MaxBig
    BY WidthAssumption
  <1>2. t \in Seq(Nat) /\ Readable(t, scale) /\ n = u
    <2>1. CASE scale = 0
      <3> DEFINE a == Decimal(u)
      <3>1. t = a
        BY <1>1, <2>1, FormatText
      <3>2. a \in Seq(Digit) /\ SetString(a) = u /\ Len(a) \in Nat \ {0}
        BY <1>1, DecimalExact, DigitCountExact
      <3> HIDE DEF a, t
      <3>3. a # <<>>
        BY <3>2
      <3>4. t \in Seq(Nat) /\ IntPart(t) = a /\ FracPart(t) = <<>> /\ Readable(t, scale)
        BY <1>1, <3>1, <3>2, <3>3, DigitsAlone
      <3>5. n = u * pow10[0] + 0 * pow10[0]
        <4>1. scale - Len(<<>>) = 0
          <5>1. Len(<<>>) = 0 /\ 0 - 0 = 0
            OBVIOUS
          <5> QED BY <2>1, <5>1
        <4> QED BY <2>1, <3>2, <3>4, <4>1, SetStringEmpty DEF Worth
      <3> HIDE DEF n
      <3>6. n = u
        BY <1>1, <3>5, Powers
      <3> QED BY <3>4, <3>6
    <2>2. CASE scale # 0
      <3> DEFINE p == pow10[scale]
                 q == u \div p
                 r == u % p
                 a == Decimal(q)
                 d == Decimal(r)
                 z == Zeros(scale - DigitCount(r))
                 b == z \o d
      <3>1. scale \in 1..MaxScale /\ p \in Nat \ {0}
        BY <1>1, <2>2, WidthAssumption, Powers
      <3>2. q \in Nat /\ r \in 0..(p - 1) /\ u = p * q + r
        BY <1>1, <3>1, Division
      <3>3. r \in Nat /\ DigitCount(r) \in 1..scale
        BY <3>1, <3>2, PaddingExact
      <3>4. t = a \o Fraction(r, scale - DigitCount(r))
        BY <1>1, <2>2, FormatText
      <3>5. a \in Seq(Digit) /\ SetString(a) = q /\ Len(a) \in Nat \ {0}
        BY <3>2, DecimalExact, DigitCountExact
      <3>6. d \in Seq(Digit) /\ SetString(d) = r /\ Len(d) = DigitCount(r)
        BY <3>3, DecimalExact
      <3>7. /\ z \in Seq(Digit) /\ Len(z) = scale - DigitCount(r) /\ SetString(z) = 0
            /\ scale - DigitCount(r) \in Nat
        <4>1. scale - DigitCount(r) \in Nat
          BY <1>1, <3>3
        <4> QED BY <4>1, SetStringZeros
      <3>8. Fraction(r, scale - DigitCount(r)) = (<<Dot>> \o z) \o d
        BY DEF Fraction
      <3> HIDE DEF t, a, d, z, q, r, p
      <3>9. (<<Dot>> \o z) \o d = <<Dot>> \o b
        <4>1. <<Dot>> \in Seq(Nat) /\ z \in Seq(Nat) /\ d \in Seq(Nat)
          BY <3>6, <3>7, SetStringBound DEF Dot
        <4> DEFINE w == <<Dot>>
        <4> HIDE DEF w
        <4>2. w \in Seq(Nat)
          BY <4>1 DEF w
        <4>3. (w \o z) \o d = w \o (z \o d)
          BY <4>1, <4>2, TextsAssociate
        <4> QED BY <4>3 DEF w
      <3>10. b \in Seq(Digit) /\ Len(b) = scale
        <4>1. b \in Seq(Digit) /\ Len(b) = Len(z) + Len(d)
          BY <3>6, <3>7, ConcatProperties
        <4> QED BY <1>1, <3>3, <3>6, <3>7, <4>1
      <3>11. SetString(b) = r
        <4>1. z \in Seq(Nat) /\ d \in Seq(Nat)
          BY <3>6, <3>7, SetStringBound
        <4>2. SetString(b) = SetString(z) * pow10[Len(d)] + SetString(d)
          BY <4>1, SetStringConcat
        <4>3. Len(d) \in Nat /\ pow10[Len(d)] \in Nat
          BY <4>1, LenProperties, PowersPositive
        <4> HIDE DEF b
        <4> QED BY <3>3, <3>6, <3>7, <4>2, <4>3
      <3> HIDE DEF b
      <3>12. t = a \o (<<Dot>> \o b)
        BY <3>4, <3>8, <3>9
      <3>13. a # <<>> /\ b # <<>> /\ Len(b) <= scale
        BY <1>1, <3>1, <3>5, <3>10
      <3>14. t \in Seq(Nat) /\ IntPart(t) = a /\ FracPart(t) = b /\ Readable(t, scale)
        BY <1>1, <3>5, <3>10, <3>12, <3>13, DigitsWithDot
      <3>15. n = q * p + r * pow10[0]
        <4>1. scale - Len(b) = 0
          BY <1>1, <3>10
        <4> QED BY <3>5, <3>11, <3>14, <4>1 DEF Worth, p
      <3> HIDE DEF n
      <3>16. n = u
        <4>1. q * p = p * q /\ r * 1 = r
          BY <3>1, <3>2, <3>3
        <4>2. n = q * p + r * 1
          BY <3>15, Powers
        <4> QED BY <3>2, <4>1, <4>2
      <3> QED BY <3>14, <3>16
    <2> QED BY <2>1, <2>2
  <1>3. ParseAmount(t, scale) = IF n > MaxBig THEN Error ELSE Ok(n)
    BY <1>2, ParseWorth
  <1> HIDE DEF n, t
  <1>4. ~(n > MaxBig)
    BY <1>1, <1>2
  <1>5. ParseAmount(t, scale) = Ok(u)
    BY <1>2, <1>3, <1>4
  <1> QED BY <1>5 DEF t
=============================================================================
