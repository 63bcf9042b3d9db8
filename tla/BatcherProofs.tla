---------------------------- MODULE BatcherProofs ----------------------------
(***************************************************************************)
(* The batcher's promises, for every set of commands, every limit and      *)
(* every way submissions, calls and the shutdown interleave.               *)
(*                                                                         *)
(* The argument: what the batcher has accepted and not answered is the end *)
(* of the submission order, cut into the batch, the command in hand and    *)
(* the queue.  Everything before it is answered, once.                     *)
(***************************************************************************)
EXTENDS Batcher, SequenceTheorems, WellFoundedInduction, TLAPS

-----------------------------------------------------------------------------
(* The inductive invariant.                                                *)

\* How many commands the batcher is through with.
Past == Len(order) - Len(queue) - Len(held) - Len(batch)

\* The type of every variable, sharper than TypeOK where a proof needs it.
Typed ==
    /\ TypeOK
    /\ done \in [Cmds -> Seq(Result)] /\ out \in [Cmds -> Seq(Result)]

\* The unanswered commands, in order.
Pipeline ==
    /\ Past \in Nat
    /\ \A i \in 1..Len(batch) : order[Past + i] = batch[i]
    /\ \A i \in 1..Len(held) : order[Past + Len(batch) + i] = held[i]
    /\ \A i \in 1..Len(queue) : order[Past + Len(batch) + Len(held) + i] = queue[i]

\* A command gets on the queue once.
Once == \A i, j \in 1..Len(order) : order[i] = order[j] => i = j

\* Who got on the queue, and that it fits a batch.
Accepted ==
    \A c \in Cmds :
       /\ sub[c] \in {"queued", "direct", "late"} <=> c \in Range(order)
       /\ sub[c] \in {"checked", "queued", "direct", "late"} => ~Unfit(c)

\* Answered are the commands the batcher is through with, and no others.
Answered ==
    /\ \A i \in 1..Len(order) : Len(done[order[i]]) = IF i <= Past THEN 1 ELSE 0
    /\ \A c \in Cmds : c \notin Range(order) => done[c] = <<>>

\* What TigerBeetle has applied: never a command of the queue, and of the
\* batch all or nothing, all only after a call that failed.
Applied ==
    /\ \A j \in 1..Len(applied) :
          \E i \in 1..(Past + Len(batch)) : applied[j] = order[i]
    /\ \A j, k \in 1..Len(applied) : j < k => Before(applied[j], applied[k])
    /\ \/ Range(batch) \cap Range(applied) = {}
       \/ pc \in {"call", "retry"} /\ Range(batch) \subseteq Range(applied) \cap uncertain

\* Until it is told to stop the batcher passes over nothing.
NoneSkipped == ~stop => \A i \in 1..Past : order[i] \in Range(applied)

\* What each phase of the loop and of the shutdown implies.
Phases ==
    /\ LoopGone \/ pc = "drain" => batch = <<>>
    /\ pc \notin {"call", "retry"} => held = <<>>
    /\ pc = "retry" => Range(batch) \subseteq uncertain
    /\ pc \in {"drain", "exited"} \/ leaving \/ closer # "idle" => stop
    /\ watcher # "wait" => pc = "exited"
    /\ closer \in {"drain", "done"} => LoopGone
    /\ finished => LoopGone

\* Where an answer came from that says closed.
Honest ==
    \A c \in Cmds :
       /\ Closed \in Range(done[c]) => c \in uncertain \/ c \notin Range(applied)
       /\ out[c] # <<>> => \/ out[c] = done[c]
                           \/ /\ out[c] = <<Closed>> /\ finished
                              /\ c \notin Range(applied)

BatcherInv ==
    /\ Typed /\ Pipeline /\ Once /\ Accepted /\ Answered /\ Applied
    /\ NoneSkipped /\ Phases /\ Honest /\ BatchWellFormed /\ BatchingTransparent

-----------------------------------------------------------------------------
(* Induction, and what FlattenSeq computes.                                *)

\* A non-empty set of naturals has a least element.
LEMMA NatMin ==
  ASSUME NEW T, T \subseteq Nat, T # {}
  PROVE  \E x \in T : \A y \in T : x <= y
  <1> DEFINE R == {ss \in Nat \X Nat : ss[1] < ss[2]}
  <1>1. IsWellFoundedOn(R, Nat)
    BY NatLessThanWellFounded DEF OpToRel
  <1>2. PICK x \in T : \A y \in T : ~(<<y, x>> \in R)
    BY <1>1, WFMin
  <1>3. ASSUME NEW y \in T PROVE x <= y
    <2>1. x \in Nat /\ y \in Nat
      BY <1>3
    <2>2. ~(y < x)
      <3>1. <<y, x>> \notin R
        BY <1>2
      <3> QED BY <3>1, <2>1
    <2> QED BY <2>1, <2>2
  <1> QED BY <1>3

\* Induction over the naturals, for a predicate given as a set.
LEMMA SetInduction ==
  ASSUME NEW S, 0 \in S, \A n \in Nat : n \in S => n + 1 \in S
  PROVE  Nat \subseteq S
  <1> SUFFICES ASSUME Nat \ S # {} PROVE FALSE
    OBVIOUS
  <1>1. PICK x \in Nat \ S : \A y \in Nat \ S : x <= y
    BY NatMin
  <1>2. x # 0 /\ x - 1 \in Nat
    BY <1>1
  <1>3. x - 1 \in S
    BY <1>1, <1>2
  <1> QED BY <1>1, <1>2, <1>3

\* The function FlattenSeq is computed with exists.
LEMMA FlattenDefined ==
  ASSUME NEW s, NEW n \in Nat
  PROVE  \E f : f = [i \in 1..n |-> IF i = 1 THEN s[i] ELSE f[i - 1] \o s[i]]
  <1> DEFINE Sat(f, m) == f = [i \in 1..m |-> IF i = 1 THEN s[i] ELSE f[i - 1] \o s[i]]
             D == {m \in Nat : \E f : Sat(f, m)}
  <1>1. 0 \in D
    <2>1. Sat(<<>>, 0)
      OBVIOUS
    <2> QED BY <2>1
  <1>2. ASSUME NEW m \in Nat, m \in D PROVE m + 1 \in D
    <2>1. PICK f : Sat(f, m)
      BY <1>2
    <2> DEFINE g == [i \in 1..(m + 1) |-> IF i = 1 THEN s[1]
                                          ELSE IF i = m + 1 THEN f[m] \o s[m + 1]
                                          ELSE f[i]]
    <2>2. \A j \in 1..m : f[j] = IF j = 1 THEN s[j] ELSE f[j - 1] \o s[j]
      BY <2>1
    <2>3. \A j \in 1..m : g[j] = f[j]
      BY <2>2
    <2>4. ASSUME NEW i \in 1..(m + 1)
          PROVE  g[i] = IF i = 1 THEN s[i] ELSE g[i - 1] \o s[i]
      <3>1. CASE i = 1
        BY <3>1
      <3>2. CASE i # 1 /\ i \in 1..m
        <4>1. i - 1 \in 1..m
          BY <3>2
        <4>2. g[i] = f[i] /\ g[i - 1] = f[i - 1]
          BY <2>3, <3>2, <4>1
        <4> HIDE DEF g
        <4> QED BY <2>2, <3>2, <4>2
      <3>3. CASE i # 1 /\ i = m + 1
        <4>1. m \in 1..m /\ i - 1 = m
          BY <3>3
        <4>2. g[i - 1] = f[m]
          BY <2>3, <4>1
        <4>3. g[i] = f[m] \o s[i]
          BY <3>3
        <4> HIDE DEF g
        <4> QED BY <3>3, <4>2, <4>3
      <3> QED BY <3>1, <3>2, <3>3
    <2>5. Sat(g, m + 1)
      <3> DEFINE h == [i \in 1..(m + 1) |-> IF i = 1 THEN s[i] ELSE g[i - 1] \o s[i]]
      <3>1. DOMAIN g = DOMAIN h /\ \A i \in 1..(m + 1) : g[i] = h[i]
        BY <2>4
      <3>2. g = h
        BY <3>1
      <3> QED BY <3>2
    <2> HIDE DEF g
    <2>6. \E ff : Sat(ff, m + 1)
      BY <2>5
    <2> HIDE DEF Sat
    <2>7. m + 1 \in Nat
      OBVIOUS
    <2> QED BY <2>6, <2>7
  <1> HIDE DEF D
  <1>3. n \in D
    BY <1>1, <1>2, SetInduction
  <1> QED BY <1>3 DEF D

\* FlattenSeq by steps: each adds one more of the sequences.
LEMMA FlattenUnfold ==
  ASSUME NEW T, NEW s \in Seq(Seq(T)), s # <<>>
  PROVE  \E f : /\ FlattenSeq(s) = f[Len(s)]
                /\ f[1] = s[1]
                /\ \A j \in 1..(Len(s) - 1) : f[j + 1] = f[j] \o s[j + 1]
  <1> DEFINE f == CHOOSE f : f = [i \in 1..Len(s) |-> IF i = 1 THEN s[i] ELSE f[i - 1] \o s[i]]
  <1>1. f = [i \in 1..Len(s) |-> IF i = 1 THEN s[i] ELSE f[i - 1] \o s[i]]
    <2>1. Len(s) \in Nat
      OBVIOUS
    <2>2. \E g : g = [i \in 1..Len(s) |-> IF i = 1 THEN s[i] ELSE g[i - 1] \o s[i]]
      BY <2>1, FlattenDefined
    <2> QED BY <2>2
  <1>2. FlattenSeq(s) = f[Len(s)]
    BY DEF FlattenSeq
  <1> HIDE DEF f
  <1>3. \A i \in 1..Len(s) : f[i] = IF i = 1 THEN s[i] ELSE f[i - 1] \o s[i]
    BY <1>1
  <1>4. f[1] = s[1]
    BY <1>3
  <1>5. ASSUME NEW j \in 1..(Len(s) - 1) PROVE f[j + 1] = f[j] \o s[j + 1]
    <2> DEFINE i == j + 1
    <2>1. i \in 1..Len(s) /\ i # 1 /\ i - 1 = j
      OBVIOUS
    <2> HIDE DEF i
    <2>2. f[i] = f[j] \o s[i]
      BY <1>3, <2>1
    <2> QED BY <2>2 DEF i
  <1> QED BY <1>2, <1>4, <1>5

\* What FlattenSeq computes, by its last sequence.
LEMMA FlattenAppend ==
  ASSUME NEW T, NEW s \in Seq(Seq(T)), NEW x \in Seq(T)
  PROVE  /\ FlattenSeq(<<>>) = <<>>
         /\ FlattenSeq(s) \in Seq(T)
         /\ FlattenSeq(Append(s, x)) = FlattenSeq(s) \o x
  <1>1. FlattenSeq(<<>>) = <<>>
    BY DEF FlattenSeq
  <1> DEFINE t == Append(s, x)
  <1>2. /\ t \in Seq(Seq(T)) /\ t # <<>> /\ Len(t) = Len(s) + 1
        /\ \A i \in 1..Len(s) : t[i] = s[i]
        /\ t[Len(s) + 1] = x
    BY AppendProperties
  <1> HIDE DEF t
  <1>3. PICK g : /\ FlattenSeq(t) = g[Len(t)]
                 /\ g[1] = t[1]
                 /\ \A j \in 1..(Len(t) - 1) : g[j + 1] = g[j] \o t[j + 1]
    BY <1>2, FlattenUnfold
  <1>4. CASE s = <<>>
    <2>1. FlattenSeq(t) = x
      BY <1>2, <1>3, <1>4
    <2>2. <<>> \o x = x /\ <<>> \in Seq(T)
      BY ConcatEmptySeq
    <2> QED BY <1>1, <2>1, <2>2, <1>4 DEF t
  <1>5. CASE s # <<>>
    <2>1. PICK f : /\ FlattenSeq(s) = f[Len(s)]
                   /\ f[1] = s[1]
                   /\ \A j \in 1..(Len(s) - 1) : f[j + 1] = f[j] \o s[j + 1]
      BY <1>5, FlattenUnfold
    <2>0. Len(s) \in Nat /\ Len(s) \in 1..Len(s) /\ 1 \in 1..Len(s)
      BY <1>5
    <2> DEFINE D == {m \in Nat : m \in 1..Len(s) => f[m] = g[m] /\ f[m] \in Seq(T)}
    <2>2. 0 \in D
      OBVIOUS
    <2>3. ASSUME NEW m \in Nat, m \in D PROVE m + 1 \in D
      <3>1. SUFFICES ASSUME m + 1 \in 1..Len(s)
                     PROVE  f[m + 1] = g[m + 1] /\ f[m + 1] \in Seq(T)
        OBVIOUS
      <3>2. CASE m = 0
        BY <1>2, <1>3, <2>1, <2>0, <3>2
      <3>3. CASE m # 0
        <4>1. m \in 1..Len(s) /\ m \in 1..(Len(s) - 1) /\ m \in 1..(Len(t) - 1)
          BY <1>2, <3>1, <3>3
        <4>2. f[m] = g[m] /\ f[m] \in Seq(T)
          BY <2>3, <4>1
        <4>3. f[m + 1] = f[m] \o s[m + 1]
          BY <2>1, <4>1
        <4>4. g[m + 1] = g[m] \o s[m + 1]
          BY <1>2, <1>3, <3>1, <4>1
        <4>5. s[m + 1] \in Seq(T)
          BY <3>1, ElementOfSeq
        <4> QED BY <4>2, <4>3, <4>4, <4>5, ConcatProperties
      <3> QED BY <3>2, <3>3
    <2> HIDE DEF D
    <2>4. \A m \in Nat : m \in D
      BY <2>2, <2>3, SetInduction
    <2>6. f[Len(s)] = g[Len(s)] /\ f[Len(s)] \in Seq(T)
      BY <2>0, <2>4 DEF D
    <2>7. Len(s) \in 1..(Len(t) - 1)
      BY <1>2, <2>0
    <2>8. g[Len(s) + 1] = g[Len(s)] \o x
      BY <1>2, <1>3, <2>7
    <2> QED BY <1>1, <1>2, <1>3, <2>1, <2>6, <2>8 DEF t
  <1> QED BY <1>4, <1>5

-----------------------------------------------------------------------------
(* What a batch is on the wire.                                            *)

Own(c) == [n \in 1..Size[c] |-> <<c, n>>]

\* The events of one command.
LEMMA OwnEvents ==
  ASSUME NEW c \in Cmds
  PROVE  /\ Size[c] \in Nat
         /\ Own(c) \in Seq(Cmds \X Nat) /\ Len(Own(c)) = Size[c]
         /\ \A n \in 1..Size[c] : Own(c)[n] = <<c, n>>
  <1>1. Size[c] \in Nat
    BY BatcherAssumption
  <1>2. \A n \in 1..Size[c] : <<c, n>> \in Cmds \X Nat
    BY <1>1
  <1> QED
    BY <1>1, <1>2 DEF Own

\* A batch is a sequence of events.
LEMMA EventsType ==
  ASSUME NEW b \in Seq(Cmds)
  PROVE  /\ Events(<<>>) = <<>> /\ Fill(<<>>) = 0
         /\ Events(b) \in Seq(Cmds \X Nat)
         /\ Fill(b) \in Nat
  <1> DEFINE M(x) == [k \in DOMAIN x |-> [n \in 1..Size[x[k]] |-> <<x[k], n>>]]
             T == Cmds \X Nat
  <1>1. M(b) \in Seq(Seq(T))
    <2>1. \A k \in 1..Len(b) : Own(b[k]) \in Seq(Cmds \X Nat)
      BY OwnEvents, ElementOfSeq
    <2>2. M(b) = [k \in 1..Len(b) |-> Own(b[k])]
      BY DEF Own
    <2> HIDE DEF M
    <2> QED BY <2>1, <2>2
  <1>2. M(<<>>) = <<>>
    OBVIOUS
  <1>3. \A x : Events(x) = FlattenSeq(M(x))
    BY DEF Events
  <1> HIDE DEF M, T
  <1>4. <<>> \in Seq(T)
    OBVIOUS
  <1>5. FlattenSeq(<<>>) = <<>> /\ FlattenSeq(M(b)) \in Seq(T)
    BY <1>1, <1>4, FlattenAppend
  <1>6. Events(<<>>) = <<>> /\ Events(b) \in Seq(T)
    BY <1>2, <1>3, <1>5
  <1>7. Len(<<>>) = 0 /\ Len(Events(b)) \in Nat
    BY <1>6
  <1> QED BY <1>6, <1>7 DEF T, Fill

\* A command added to a batch adds its own events at the end.
LEMMA EventsAppend ==
  ASSUME NEW b \in Seq(Cmds), NEW c \in Cmds
  PROVE  /\ Events(<<>>) = <<>>
         /\ Events(b) \in Seq(Cmds \X Nat)
         /\ Events(Append(b, c)) = Events(b) \o Own(c)
         /\ Fill(b) \in Nat
         /\ Fill(Append(b, c)) = Fill(b) + Size[c]
  <1> DEFINE M(x) == [k \in DOMAIN x |-> [n \in 1..Size[x[k]] |-> <<x[k], n>>]]
             a == Append(b, c)
  <1>1. ASSUME NEW x \in Seq(Cmds)
        PROVE  /\ M(x) \in Seq(Seq(Cmds \X Nat)) /\ Len(M(x)) = Len(x)
               /\ \A k \in 1..Len(x) : M(x)[k] = Own(x[k])
    <2>1. \A k \in 1..Len(x) : Own(x[k]) \in Seq(Cmds \X Nat)
      BY OwnEvents, ElementOfSeq
    <2>2. M(x) = [k \in 1..Len(x) |-> Own(x[k])]
      BY DEF Own
    <2> HIDE DEF M
    <2> QED
      BY <2>1, <2>2
  <1>2. a \in Seq(Cmds) /\ Len(a) = Len(b) + 1 /\ a[Len(b) + 1] = c
        /\ \A k \in 1..Len(b) : a[k] = b[k]
    BY AppendProperties
  <1>3. Own(c) \in Seq(Cmds \X Nat) /\ Len(Own(c)) = Size[c] /\ Size[c] \in Nat
    BY OwnEvents
  <1> HIDE DEF a
  <1>4. M(a) = Append(M(b), Own(c))
    <2>1. /\ M(a) \in Seq(Seq(Cmds \X Nat)) /\ Len(M(a)) = Len(b) + 1
          /\ \A k \in 1..Len(b) : M(a)[k] = Own(b[k])
          /\ M(a)[Len(b) + 1] = Own(c)
      <3>1. /\ M(a) \in Seq(Seq(Cmds \X Nat)) /\ Len(M(a)) = Len(a)
            /\ \A k \in 1..Len(a) : M(a)[k] = Own(a[k])
        BY <1>1, <1>2
      <3> HIDE DEF M
      <3>2. 1..Len(b) \subseteq 1..Len(a) /\ Len(b) + 1 \in 1..Len(a)
        BY <1>2
      <3> QED BY <1>2, <3>1, <3>2
    <2>2. /\ M(b) \in Seq(Seq(Cmds \X Nat)) /\ Len(M(b)) = Len(b)
          /\ \A k \in 1..Len(b) : M(b)[k] = Own(b[k])
      BY <1>1
    <2> HIDE DEF M
    <2> DEFINE z == Append(M(b), Own(c))
    <2>3. /\ z \in Seq(Seq(Cmds \X Nat)) /\ Len(z) = Len(b) + 1
          /\ \A k \in 1..Len(b) : z[k] = Own(b[k])
          /\ z[Len(b) + 1] = Own(c)
      BY <1>3, <2>2, AppendProperties
    <2> HIDE DEF z
    <2>4. ASSUME NEW k \in 1..Len(z) PROVE M(a)[k] = z[k]
      <3>1. k \in 1..Len(b) \/ k = Len(b) + 1
        BY <2>3
      <3> QED BY <2>1, <2>3, <3>1
    <2>5. M(a) = z
      <3>1. Len(M(a)) = Len(z) /\ \A k \in 1..Len(M(a)) : M(a)[k] = z[k]
        BY <2>1, <2>3, <2>4
      <3> QED BY <2>1, <2>3, <3>1, SeqEqual
    <2> QED
      BY <2>5 DEF z
  <1>5. M(<<>>) = <<>>
    OBVIOUS
  <1>6. M(b) \in Seq(Seq(Cmds \X Nat))
    BY <1>1
  <1>7. \A x : Events(x) = FlattenSeq(M(x))
    BY DEF Events
  <1> HIDE DEF M
  <1>8. /\ FlattenSeq(<<>>) = <<>>
        /\ FlattenSeq(M(b)) \in Seq(Cmds \X Nat)
        /\ FlattenSeq(Append(M(b), Own(c))) = FlattenSeq(M(b)) \o Own(c)
    BY <1>3, <1>6, FlattenAppend
  <1>9. /\ Events(<<>>) = <<>> /\ Events(b) \in Seq(Cmds \X Nat)
        /\ Events(a) = Events(b) \o Own(c)
    BY <1>4, <1>5, <1>7, <1>8
  <1>10. Len(Events(b) \o Own(c)) = Len(Events(b)) + Len(Own(c)) /\ Len(Events(b)) \in Nat
    <2> DEFINE X == Cmds \X Nat
               es == Events(b)
               o == Own(c)
    <2>1. es \in Seq(X) /\ o \in Seq(X)
      BY <1>3, <1>9
    <2> HIDE DEF X, es, o
    <2>2. Len(es \o o) = Len(es) + Len(o) /\ Len(es) \in Nat
      BY <2>1, ConcatProperties, LenProperties
    <2> QED BY <2>2 DEF es, o
  <1> QED
    BY <1>3, <1>9, <1>10 DEF Fill, a

\* A sequence by its prefixes.
LEMMA PrefixSteps ==
  ASSUME NEW S, NEW b \in Seq(S)
  PROVE  /\ SubSeq(b, 1, 0) = <<>> /\ SubSeq(b, 1, Len(b)) = b
         /\ \A m \in 0..Len(b) : SubSeq(b, 1, m) \in Seq(S)
         /\ \A m \in 0..(Len(b) - 1) :
               SubSeq(b, 1, m + 1) = Append(SubSeq(b, 1, m), b[m + 1])
  <1>1. SubSeq(b, 1, 0) = <<>>
    BY SubSeqEmpty
  <1>2. SubSeq(b, 1, Len(b)) = b
    BY SubSeqFull
  <1>3. ASSUME NEW m \in 0..Len(b)
        PROVE  /\ SubSeq(b, 1, m) \in Seq(S) /\ Len(SubSeq(b, 1, m)) = m
               /\ \A i \in 1..m : SubSeq(b, 1, m)[i] = b[i]
    <2>1. \A i \in 1..m : b[i] \in S
      OBVIOUS
    <2> QED BY <2>1, SubSeqProperties
  <1>4. ASSUME NEW m \in 0..(Len(b) - 1)
        PROVE  SubSeq(b, 1, m + 1) = Append(SubSeq(b, 1, m), b[m + 1])
    <2> DEFINE x == SubSeq(b, 1, m + 1)
               y == SubSeq(b, 1, m)
               z == Append(y, b[m + 1])
    <2>1. m \in 0..Len(b) /\ m + 1 \in 0..Len(b) /\ b[m + 1] \in S
      OBVIOUS
    <2>2. /\ x \in Seq(S) /\ Len(x) = m + 1
          /\ \A i \in 1..(m + 1) : x[i] = b[i]
      BY <1>3, <2>1
    <2>3. /\ y \in Seq(S) /\ Len(y) = m
          /\ \A i \in 1..m : y[i] = b[i]
      BY <1>3, <2>1
    <2> HIDE DEF x, y
    <2>4. /\ z \in Seq(S) /\ Len(z) = m + 1 /\ z[m + 1] = b[m + 1]
          /\ \A i \in 1..m : z[i] = b[i]
      BY <2>1, <2>3, AppendProperties
    <2> HIDE DEF z
    <2>5. \A i \in 1..Len(x) : x[i] = z[i]
      BY <2>2, <2>4
    <2>6. x = z
      BY <2>2, <2>4, <2>5, SeqEqual
    <2> QED BY <2>6 DEF x, y, z
  <1> QED BY <1>1, <1>2, <1>3, <1>4

\* Where the window of the k-th command starts.
Offset(b, k) == Fill(SubSeq(b, 1, k - 1))

\* The windows follow each other and fill the batch.
LEMMA Offsets ==
  ASSUME NEW b \in Seq(Cmds)
  PROVE  /\ Offset(b, 1) = 0 /\ Offset(b, Len(b) + 1) = Fill(b)
         /\ \A k \in 1..(Len(b) + 1) : Offset(b, k) \in Nat
         /\ \A k \in 1..Len(b) : Offset(b, k + 1) = Offset(b, k) + Size[b[k]]
  <1>1. Offset(b, 1) = 0 /\ Offset(b, Len(b) + 1) = Fill(b)
    <2>1. Fill(<<>>) = 0
      BY EventsType
    <2>2. SubSeq(b, 1, 1 - 1) = <<>> /\ SubSeq(b, 1, (Len(b) + 1) - 1) = b
      BY PrefixSteps
    <2> QED BY <2>1, <2>2 DEF Offset
  <1>2. ASSUME NEW k \in 1..(Len(b) + 1) PROVE Offset(b, k) \in Nat
    <2>1. k - 1 \in 0..Len(b)
      OBVIOUS
    <2>2. SubSeq(b, 1, k - 1) \in Seq(Cmds)
      BY <2>1, PrefixSteps
    <2>3. \A x \in Seq(Cmds) : Fill(x) \in Nat
      BY EventsType
    <2> QED BY <2>2, <2>3 DEF Offset
  <1>3. ASSUME NEW k \in 1..Len(b)
        PROVE  Offset(b, k + 1) = Offset(b, k) + Size[b[k]]
    <2> DEFINE m == k - 1
               y == SubSeq(b, 1, m)
    <2>1. m \in 0..(Len(b) - 1) /\ m \in 0..Len(b) /\ m + 1 = k /\ (k + 1) - 1 = k
          /\ b[k] \in Cmds
      OBVIOUS
    <2> HIDE DEF m
    <2>2. SubSeq(b, 1, k) = Append(y, b[k]) /\ y \in Seq(Cmds)
      BY <2>1, PrefixSteps
    <2> HIDE DEF y
    <2>3. Fill(Append(y, b[k])) = Fill(y) + Size[b[k]]
      BY <2>1, <2>2, EventsAppend
    <2> QED BY <2>1, <2>2, <2>3 DEF Offset, m, y
  <1> QED BY <1>1, <1>2, <1>3

\* The n-th event of the k-th command is the n-th of its window.
LEMMA Windows ==
  ASSUME NEW b \in Seq(Cmds), NEW k \in 1..Len(b), NEW n \in 1..Size[b[k]]
  PROVE  /\ Offset(b, k) + n \in 1..Fill(b)
         /\ Events(b)[Offset(b, k) + n] = <<b[k], n>>
  <1> DEFINE B(m) == SubSeq(b, 1, m)
             o == Offset(b, k)
             At(m) == o + n \in 1..Fill(B(m)) /\ Events(B(m))[o + n] = <<b[k], n>>
             D == {m \in Nat : k + m <= Len(b) => At(k + m)}
  <1>1. b[k] \in Cmds /\ Size[b[k]] \in Nat /\ o \in Nat
    <2>1. b[k] \in Cmds /\ k \in 1..(Len(b) + 1)
      OBVIOUS
    <2>2. o \in Nat
      BY <2>1, Offsets
    <2>3. Size[b[k]] \in Nat
      BY <2>1, OwnEvents
    <2> QED BY <2>1, <2>2, <2>3
  <1>2. ASSUME NEW m \in 0..(Len(b) - 1)
        PROVE  /\ B(m) \in Seq(Cmds) /\ b[m + 1] \in Cmds /\ Size[b[m + 1]] \in Nat
               /\ Fill(B(m)) \in Nat /\ Fill(B(m)) = Len(Events(B(m)))
               /\ Fill(B(m + 1)) = Fill(B(m)) + Size[b[m + 1]]
               /\ \A i \in 1..Fill(B(m)) : Events(B(m + 1))[i] = Events(B(m))[i]
               /\ \A i \in 1..Size[b[m + 1]] :
                     Events(B(m + 1))[Fill(B(m)) + i] = <<b[m + 1], i>>
    <2>1. m \in 0..Len(b) /\ b[m + 1] \in Cmds
      OBVIOUS
    <2>2. B(m) \in Seq(Cmds) /\ B(m + 1) = Append(B(m), b[m + 1])
      BY <2>1, PrefixSteps
    <2> HIDE DEF B
    <2> DEFINE es == Events(B(m))
               c == b[m + 1]
               X == Cmds \X Nat
    <2>3. /\ es \in Seq(X) /\ Events(B(m + 1)) = es \o Own(c)
          /\ Fill(B(m)) \in Nat /\ Fill(B(m + 1)) = Fill(B(m)) + Size[c]
          /\ Fill(B(m)) = Len(es)
      BY <2>1, <2>2, EventsAppend DEF Fill
    <2>4. /\ Size[c] \in Nat /\ Own(c) \in Seq(X) /\ Len(Own(c)) = Size[c]
          /\ \A i \in 1..Size[c] : Own(c)[i] = <<c, i>>
      BY <2>1, OwnEvents
    <2> HIDE DEF es, c, X
    <2>5. \A i \in 1..(Len(es) + Len(Own(c))) :
             (es \o Own(c))[i] = IF i <= Len(es) THEN es[i] ELSE Own(c)[i - Len(es)]
      BY <2>3, <2>4, ConcatProperties
    <2>6. \A i \in 1..Len(es) : (es \o Own(c))[i] = es[i]
      BY <2>3, <2>4, <2>5
    <2>7. ASSUME NEW i \in 1..Size[c] PROVE (es \o Own(c))[Len(es) + i] = <<c, i>>
      <3> DEFINE le == Len(es)
                 lo == Len(Own(c))
                 z == es \o Own(c)
                 q == le + i
      <3>1. le \in Nat /\ lo \in Nat /\ i \in 1..lo
        BY <2>3, <2>4
      <3>2. \A x \in 1..(le + lo) : z[x] = IF x <= le THEN es[x] ELSE Own(c)[x - le]
        BY <2>5
      <3> HIDE DEF le, lo, z
      <3>3. q \in 1..(le + lo) /\ ~(q <= le) /\ q - le = i
        BY <3>1
      <3> HIDE DEF q
      <3>4. z[q] = Own(c)[i]
        BY <3>2, <3>3
      <3> QED BY <2>4, <3>4 DEF q, z, le
    <2> QED BY <2>1, <2>2, <2>3, <2>4, <2>6, <2>7 DEF es, c
  <1>3. At(k)
    <2> DEFINE m == k - 1
    <2>1. m \in 0..(Len(b) - 1) /\ m + 1 = k
      OBVIOUS
    <2>2. o = Fill(B(m))
      BY DEF Offset
    <2> HIDE DEF m, B, o
    <2>3. /\ Fill(B(k)) = o + Size[b[k]]
          /\ Events(B(k))[o + n] = <<b[k], n>>
      BY <1>2, <2>1, <2>2
    <2> QED BY <1>1, <2>3
  <1>4. 0 \in D
    BY <1>3
  <1>5. ASSUME NEW m \in Nat, m \in D PROVE m + 1 \in D
    <2> SUFFICES ASSUME k + (m + 1) <= Len(b) PROVE At(k + (m + 1))
      OBVIOUS
    <2> DEFINE q == k + m
    <2>1. q \in 0..(Len(b) - 1) /\ k + (m + 1) = q + 1
      OBVIOUS
    <2>2. At(q)
      BY <1>5, <2>1
    <2> HIDE DEF q, B, o
    <2>3. /\ Fill(B(q)) \in Nat /\ Size[b[q + 1]] \in Nat
          /\ Fill(B(q + 1)) = Fill(B(q)) + Size[b[q + 1]]
          /\ \A i \in 1..Fill(B(q)) : Events(B(q + 1))[i] = Events(B(q))[i]
      BY <1>2, <2>1
    <2>4. At(q + 1)
      <3>1. o + n \in 1..Fill(B(q)) /\ Events(B(q))[o + n] = <<b[k], n>>
        BY <2>2
      <3>2. o + n \in 1..Fill(B(q + 1))
        BY <2>3, <3>1
      <3>3. Events(B(q + 1))[o + n] = <<b[k], n>>
        BY <2>3, <3>1
      <3> QED BY <3>2, <3>3
    <2> HIDE DEF At
    <2> QED BY <2>1, <2>4
  <1> HIDE DEF D
  <1>6. \A m \in Nat : m \in D
    BY <1>4, <1>5, SetInduction
  <1>7. At(Len(b))
    <2> DEFINE m == Len(b) - k
    <2>1. m \in Nat /\ k + m = Len(b)
      OBVIOUS
    <2> HIDE DEF At, m
    <2> QED BY <1>6, <2>1 DEF D
  <1>8. B(Len(b)) = b
    BY PrefixSteps
  <1> QED BY <1>7, <1>8

\* A command alone in a batch.
LEMMA EventsAlone ==
  ASSUME NEW c \in Cmds
  PROVE  Events(<<c>>) = Own(c)
  <1>1. <<>> \in Seq(Cmds) /\ Append(<<>>, c) = <<c>>
    OBVIOUS
  <1>2. Events(<<>>) = <<>> /\ Events(<<c>>) = Events(<<>>) \o Own(c)
    BY <1>1, EventsAppend
  <1>3. Own(c) \in Seq(Cmds \X Nat)
    BY OwnEvents
  <1> QED BY <1>2, <1>3, ConcatEmptySeq

\* No chain reaches out of a window: the last event of a command has lost
\* its flag, and so has the last one before it.
LEMMA ChainsStayInside ==
  ASSUME NEW b \in Seq(Cmds), \A i \in 1..Len(b) : Size[b[i]] # 0,
         NEW k \in 1..Len(b), NEW j \in 1..Size[b[k]], NEW q \in 1..Fill(b),
         SameChain(Events(b), Offset(b, k) + j, q)
  PROVE  q - Offset(b, k) \in 1..Size[b[k]]
  <1> DEFINE o == Offset(b, k)
             es == Events(b)
  <1>1. b[k] \in Cmds /\ Size[b[k]] \in Nat \ {0} /\ o \in Nat /\ Fill(b) \in Nat
    <2>1. b[k] \in Cmds /\ k \in 1..(Len(b) + 1)
      OBVIOUS
    <2> QED BY <2>1, Offsets, OwnEvents, EventsType
  <1>2. DOMAIN es = 1..Fill(b)
    BY EventsType DEF Fill
  <1>3. \A n \in 1..Fill(b) :
           (o + j <= n /\ n < q) \/ (q <= n /\ n < o + j) => Chained(es[n])
    BY <1>2 DEF SameChain
  <1>4. ASSUME q > o + Size[b[k]] PROVE FALSE
    <2>1. Size[b[k]] \in 1..Size[b[k]]
      BY <1>1
    <2>2. o + Size[b[k]] \in 1..Fill(b) /\ es[o + Size[b[k]]] = <<b[k], Size[b[k]]>>
      BY <2>1, Windows
    <2> DEFINE n == o + Size[b[k]]
    <2>3. n \in 1..Fill(b) /\ es[n] = <<b[k], Size[b[k]]>>
      BY <2>2
    <2>4. o + j <= n /\ n < q
      BY <1>1, <1>4
    <2> HIDE DEF o, es, n
    <2>5. Chained(es[n])
      BY <1>3, <2>3, <2>4
    <2> QED BY <2>3, <2>5 DEF Chained
  <1>5. ASSUME q <= o PROVE FALSE
    <2>1. k # 1
      BY <1>5, Offsets
    <2> DEFINE p == k - 1
    <2>2. p \in 1..Len(b) /\ p + 1 = k
      BY <2>1
    <2> HIDE DEF p
    <2>3. b[p] \in Cmds /\ Size[b[p]] \in Nat \ {0}
      <3>1. b[p] \in Cmds /\ Size[b[p]] # 0
        BY <2>2
      <3> DEFINE c == b[p]
      <3> HIDE DEF c
      <3>2. c \in Cmds /\ Size[c] # 0
        BY <3>1 DEF c
      <3>3. Size[c] \in Nat
        BY <3>2, OwnEvents
      <3> QED BY <3>2, <3>3 DEF c
    <2>4. Size[b[p]] \in 1..Size[b[p]] /\ Offset(b, p) + Size[b[p]] = o
      BY <2>2, <2>3, Offsets
    <2>5. o \in 1..Fill(b) /\ es[o] = <<b[p], Size[b[p]]>>
      BY <2>2, <2>4, Windows
    <2>6. q <= o /\ o < o + j
      BY <1>1, <1>5
    <2> HIDE DEF o, es
    <2>7. Chained(es[o])
      BY <1>3, <2>5, <2>6
    <2> QED BY <2>5, <2>7 DEF Chained
  <1> HIDE DEF o
  <1>6. q - o \in 1..Size[b[k]]
    BY <1>1, <1>4, <1>5
  <1> QED BY <1>6 DEF o

\* Within the window the chains are those of the command alone.
LEMMA ChainsOfOne ==
  ASSUME NEW b \in Seq(Cmds), NEW k \in 1..Len(b),
         NEW i \in 1..Size[b[k]], NEW n \in 1..Size[b[k]]
  PROVE  SameChain(Events(b), Offset(b, k) + i, Offset(b, k) + n)
            <=> SameChain(Own(b[k]), i, n)
  <1> DEFINE o == Offset(b, k)
             es == Events(b)
             c == b[k]
  <1>1. c \in Cmds /\ Size[c] \in Nat /\ o \in Nat /\ Fill(b) \in Nat
    <2>1. c \in Cmds /\ k \in 1..(Len(b) + 1)
      OBVIOUS
    <2> QED BY <2>1, Offsets, OwnEvents, EventsType
  <1>2. DOMAIN es = 1..Fill(b) /\ DOMAIN Own(c) = 1..Size[c]
    BY <1>1, EventsType, OwnEvents DEF Fill
  <1>3. \A m \in 1..Size[c] : o + m \in 1..Fill(b) /\ es[o + m] = Own(c)[m]
    BY <1>1, Windows, OwnEvents
  <1> HIDE DEF o, es, c
  <1>4. ASSUME SameChain(es, o + i, o + n), NEW m \in 1..Size[c],
               (i <= m /\ m < n) \/ (n <= m /\ m < i)
        PROVE  Chained(Own(c)[m])
    <2>1. o + m \in DOMAIN es /\ es[o + m] = Own(c)[m]
      BY <1>2, <1>3
    <2>2. i \in Int /\ n \in Int
      BY <1>1 DEF c
    <2>3. (o + i <= o + m /\ o + m < o + n) \/ (o + n <= o + m /\ o + m < o + i)
      BY <1>1, <1>4, <2>2
    <2>4. Chained(es[o + m])
      BY <1>4, <2>1, <2>3 DEF SameChain
    <2> QED BY <2>1, <2>4
  <1>5. ASSUME SameChain(Own(c), i, n), NEW p \in 1..Fill(b),
               (o + i <= p /\ p < o + n) \/ (o + n <= p /\ p < o + i)
        PROVE  Chained(es[p])
    <2> DEFINE m == p - o
    <2>1. i \in 1..Size[c] /\ n \in 1..Size[c]
      BY DEF c
    <2>2. m \in 1..Size[c] /\ o + m = p /\ ((i <= m /\ m < n) \/ (n <= m /\ m < i))
      BY <1>1, <1>5, <2>1
    <2> HIDE DEF m
    <2>3. Chained(Own(c)[m])
      BY <1>2, <1>5, <2>2 DEF SameChain
    <2> QED BY <1>3, <2>2, <2>3
  <1>6. SameChain(es, o + i, o + n) => SameChain(Own(c), i, n)
    BY <1>2, <1>4 DEF SameChain
  <1>7. SameChain(Own(c), i, n) => SameChain(es, o + i, o + n)
    BY <1>2, <1>5 DEF SameChain
  <1> QED BY <1>6, <1>7 DEF o, es, c

\* The window of a command holds what TigerBeetle would answer it alone.
LEMMA WindowIsOwnAnswer ==
  ASSUME NEW b \in Seq(Cmds), \A i \in 1..Len(b) : Size[b[i]] # 0,
         NEW k \in 1..Len(b)
  PROVE  /\ OutcomesOf(b, k) = Answer(Events(<<b[k]>>))
         /\ OutcomesOf(b, k) \in Seq(Verdict)
  <1> DEFINE o == Offset(b, k)
             es == Events(b)
             c == b[k]
             whole == Answer(es)
             alone == Answer(Own(c))
  <1>1. c \in Cmds /\ Size[c] \in Nat /\ o \in Nat /\ Fill(b) \in Nat
    <2>1. c \in Cmds /\ k \in 1..(Len(b) + 1)
      OBVIOUS
    <2> QED BY <2>1, Offsets, OwnEvents, EventsType
  <1>2. DOMAIN es = 1..Fill(b) /\ DOMAIN Own(c) = 1..Size[c]
    BY <1>1, EventsType, OwnEvents DEF Fill
  <1>3. \A m \in 1..Size[c] : /\ o + m \in 1..Fill(b) /\ es[o + m] = <<c, m>>
                              /\ Own(c)[m] = <<c, m>>
    BY <1>1, Windows, OwnEvents
  <1>4. ASSUME NEW i \in 1..Size[c]
        PROVE  (\E q \in 1..Fill(b) : SameChain(es, o + i, q) /\ es[q][2] \in Bad[es[q][1]])
               <=> (\E n \in 1..Size[c] : SameChain(Own(c), i, n)
                                             /\ Own(c)[n][2] \in Bad[Own(c)[n][1]])
    <2>1. ASSUME NEW q \in 1..Fill(b), SameChain(es, o + i, q), es[q][2] \in Bad[es[q][1]]
          PROVE  \E n \in 1..Size[c] : SameChain(Own(c), i, n)
                                          /\ Own(c)[n][2] \in Bad[Own(c)[n][1]]
      <3> DEFINE n == q - o
      <3>1. n \in 1..Size[c]
        BY <2>1, ChainsStayInside
      <3>2. o + n = q
        BY <1>1
      <3> HIDE DEF n
      <3>3. SameChain(Own(c), i, n)
        BY <2>1, <3>1, <3>2, ChainsOfOne
      <3>4. Own(c)[n] = es[q]
        BY <1>3, <3>1, <3>2
      <3> QED BY <2>1, <3>1, <3>3, <3>4
    <2>2. ASSUME NEW n \in 1..Size[c], SameChain(Own(c), i, n),
                 Own(c)[n][2] \in Bad[Own(c)[n][1]]
          PROVE  \E q \in 1..Fill(b) : SameChain(es, o + i, q) /\ es[q][2] \in Bad[es[q][1]]
      <3>1. SameChain(es, o + i, o + n)
        BY <2>2, ChainsOfOne
      <3>2. o + n \in 1..Fill(b) /\ es[o + n] = Own(c)[n]
        BY <1>3
      <3> QED BY <2>2, <3>1, <3>2
    <2> QED BY <2>1, <2>2
  <1>5. \A q \in 1..Fill(b) : whole[q] \in Verdict
    BY <1>2 DEF Answer, Verdict
  <1>6. \A m \in 1..Size[c] : alone[m] \in Verdict /\ whole[o + m] = alone[m]
    BY <1>2, <1>3, <1>4 DEF Answer, Verdict
  <1>7. DOMAIN alone = 1..Size[c]
    BY <1>2 DEF Answer
  <1>8. OutcomesOf(b, k) = SubSeq(whole, o + 1, o + Size[c])
    BY DEF OutcomesOf, Offset
  <1> HIDE DEF whole, alone, o, c
  <1>9. alone \in Seq(Verdict) /\ Len(alone) = Size[c]
    <2>1. alone = [m \in 1..Size[c] |-> alone[m]]
      BY <1>7 DEF alone, Answer
    <2>2. alone \in [1..Size[c] -> Verdict]
      BY <1>6, <2>1
    <2>3. alone \in Seq(Verdict)
      BY <1>1, <2>2, SeqDef
    <2>4. Len(alone) \in Nat /\ DOMAIN alone = 1..Len(alone)
      BY <2>3, LenProperties
    <2>5. 1..Len(alone) = 1..Size[c]
      BY <1>7, <2>4
    <2> QED BY <1>1, <2>3, <2>4, <2>5
  <1> DEFINE w == SubSeq(whole, o + 1, o + Size[c])
  <1>10. /\ w \in Seq(Verdict) /\ Len(w) = Size[c]
         /\ \A m \in 1..Size[c] : w[m] = whole[o + m]
    <2>1. \A i \in (o + 1)..(o + Size[c]) : whole[i] \in Verdict
      <3> SUFFICES ASSUME NEW i \in (o + 1)..(o + Size[c]) PROVE whole[i] \in Verdict
        OBVIOUS
      <3> DEFINE m == i - o
      <3>1. m \in 1..Size[c] /\ o + m = i
        BY <1>1
      <3> HIDE DEF m
      <3> QED BY <1>6, <3>1
    <2>2. /\ w \in Seq(Verdict)
          /\ Len(w) = IF o + 1 <= o + Size[c] THEN (o + Size[c]) - (o + 1) + 1 ELSE 0
          /\ \A i \in 1..((o + Size[c]) - (o + 1) + 1) : w[i] = whole[(o + 1) + i - 1]
      BY <1>1, <2>1, SubSeqProperties, SMTT(30)
    <2> HIDE DEF w
    <2>3. Len(w) = Size[c] /\ (o + Size[c]) - (o + 1) + 1 = Size[c]
      BY <1>1, <2>2, SMTT(30)
    <2>4. ASSUME NEW m \in 1..Size[c] PROVE w[m] = whole[o + m]
      <3>1. (o + 1) + m - 1 = o + m
        BY <1>1
      <3>2. w[m] = whole[(o + 1) + m - 1]
        BY <2>2, <2>3
      <3> QED BY <3>1, <3>2
    <2> QED BY <2>2, <2>3, <2>4
  <1> HIDE DEF w
  <1>11. w = alone
    <2>1. Len(w) = Len(alone) /\ \A m \in 1..Len(w) : w[m] = alone[m]
      BY <1>6, <1>9, <1>10
    <2> QED BY <1>9, <1>10, <2>1, SeqEqual
  <1>12. Events(<<b[k]>>) = Own(c)
    BY <1>1, EventsAlone DEF c
  <1> QED BY <1>8, <1>9, <1>11, <1>12 DEF w, alone

-----------------------------------------------------------------------------
(* What TigerBeetle applies of a batch.                                    *)

\* What of b is not in A, in order: Unseen for the batch and what was applied.
Outside(b, A) == FlattenSeq([k \in DOMAIN b |-> IF b[k] \in A THEN <<>> ELSE <<b[k]>>])

\* What one command adds to it.
Kept(c, A) == IF c \in A THEN <<>> ELSE <<c>>

\* It is built up with the batch.
LEMMA OutsideAppend ==
  ASSUME NEW b \in Seq(Cmds), NEW c \in Cmds, NEW A
  PROVE  /\ Outside(<<>>, A) = <<>>
         /\ Outside(b, A) \in Seq(Cmds)
         /\ Outside(Append(b, c), A) = Outside(b, A) \o Kept(c, A)
  <1> DEFINE One(x) == IF x \in A THEN <<>> ELSE <<x>>
             M(x) == [k \in DOMAIN x |-> IF x[k] \in A THEN <<>> ELSE <<x[k]>>]
             a == Append(b, c)
  <1>1. \A x \in Cmds : One(x) \in Seq(Cmds)
    OBVIOUS
  <1>2. ASSUME NEW x \in Seq(Cmds)
        PROVE  /\ M(x) \in Seq(Seq(Cmds)) /\ Len(M(x)) = Len(x)
               /\ \A k \in 1..Len(x) : M(x)[k] = One(x[k])
    <2>1. M(x) = [k \in 1..Len(x) |-> One(x[k])]
      OBVIOUS
    <2>2. \A k \in 1..Len(x) : One(x[k]) \in Seq(Cmds)
      BY <1>1
    <2> HIDE DEF M, One
    <2> QED BY <2>1, <2>2
  <1>3. a \in Seq(Cmds) /\ Len(a) = Len(b) + 1 /\ a[Len(b) + 1] = c
        /\ \A k \in 1..Len(b) : a[k] = b[k]
    BY AppendProperties
  <1>4. \A x : Outside(x, A) = FlattenSeq(M(x))
    BY DEF Outside
  <1>5. M(<<>>) = <<>>
    OBVIOUS
  <1>6. One(c) \in Seq(Cmds)
    BY <1>1
  <1> HIDE DEF a, M, One
  <1>7. M(a) = Append(M(b), One(c))
    <2>1. /\ M(a) \in Seq(Seq(Cmds)) /\ Len(M(a)) = Len(b) + 1
          /\ \A k \in 1..Len(b) : M(a)[k] = One(b[k])
          /\ M(a)[Len(b) + 1] = One(c)
      <3>1. /\ M(a) \in Seq(Seq(Cmds)) /\ Len(M(a)) = Len(a)
            /\ \A k \in 1..Len(a) : M(a)[k] = One(a[k])
        BY <1>2, <1>3
      <3>2. 1..Len(b) \subseteq 1..Len(a) /\ Len(b) + 1 \in 1..Len(a)
        BY <1>3
      <3> QED BY <1>3, <3>1, <3>2
    <2>2. /\ M(b) \in Seq(Seq(Cmds)) /\ Len(M(b)) = Len(b)
          /\ \A k \in 1..Len(b) : M(b)[k] = One(b[k])
      BY <1>2
    <2> DEFINE z == Append(M(b), One(c))
    <2>3. /\ z \in Seq(Seq(Cmds)) /\ Len(z) = Len(b) + 1
          /\ \A k \in 1..Len(b) : z[k] = One(b[k])
          /\ z[Len(b) + 1] = One(c)
      BY <1>6, <2>2, AppendProperties
    <2> HIDE DEF z
    <2>4. ASSUME NEW k \in 1..Len(z) PROVE M(a)[k] = z[k]
      <3>1. k \in 1..Len(b) \/ k = Len(b) + 1
        BY <2>3
      <3> QED BY <2>1, <2>3, <3>1
    <2>5. M(a) = z
      <3>1. Len(M(a)) = Len(z) /\ \A k \in 1..Len(M(a)) : M(a)[k] = z[k]
        BY <2>1, <2>3, <2>4
      <3> QED BY <2>1, <2>3, <3>1, SeqEqual
    <2> QED
      BY <2>5 DEF z
  <1>8. /\ FlattenSeq(<<>>) = <<>> /\ FlattenSeq(M(b)) \in Seq(Cmds)
        /\ FlattenSeq(Append(M(b), One(c))) = FlattenSeq(M(b)) \o One(c)
    BY <1>2, <1>6, FlattenAppend
  <1>9. /\ Outside(<<>>, A) = <<>> /\ Outside(b, A) \in Seq(Cmds)
        /\ Outside(a, A) = Outside(b, A) \o One(c)
    BY <1>4, <1>5, <1>7, <1>8
  <1> QED BY <1>9 DEF a, One, Kept

\* A batch TigerBeetle has not seen is applied whole, one it has seen not at
\* all.
LEMMA ApplyWhole ==
  ASSUME NEW b \in Seq(Cmds), NEW A
  PROVE  /\ (\A i \in 1..Len(b) : b[i] \notin A) => Outside(b, A) = b
         /\ (\A i \in 1..Len(b) : b[i] \in A) => Outside(b, A) = <<>>
  <1> DEFINE B(m) == SubSeq(b, 1, m)
             None == \A i \in 1..Len(b) : b[i] \notin A
             All == \A i \in 1..Len(b) : b[i] \in A
             D == {m \in Nat : m <= Len(b) => /\ None => Outside(B(m), A) = B(m)
                                              /\ All => Outside(B(m), A) = <<>>}
  <1>1. /\ B(0) = <<>> /\ B(Len(b)) = b
        /\ \A m \in 0..Len(b) : B(m) \in Seq(Cmds)
        /\ \A m \in 0..(Len(b) - 1) : B(m + 1) = Append(B(m), b[m + 1])
    BY PrefixSteps
  <1>2. Outside(<<>>, A) = <<>>
    BY DEF Outside, FlattenSeq
  <1> HIDE DEF B
  <1>3. 0 \in D
    BY <1>1, <1>2
  <1>4. ASSUME NEW m \in Nat, m \in D PROVE m + 1 \in D
    <2> SUFFICES ASSUME m + 1 <= Len(b)
                 PROVE  /\ None => Outside(B(m + 1), A) = B(m + 1)
                        /\ All => Outside(B(m + 1), A) = <<>>
      OBVIOUS
    <2>1. m \in 0..Len(b) /\ m \in 0..(Len(b) - 1) /\ m + 1 \in 1..Len(b)
          /\ b[m + 1] \in Cmds
      OBVIOUS
    <2>2. (None => Outside(B(m), A) = B(m)) /\ (All => Outside(B(m), A) = <<>>)
      BY <1>4, <2>1
    <2>3. B(m) \in Seq(Cmds) /\ B(m + 1) = Append(B(m), b[m + 1])
      BY <1>1, <2>1
    <2>4. Outside(B(m + 1), A) = Outside(B(m), A) \o Kept(b[m + 1], A)
      <3> DEFINE x == B(m)
                 c == b[m + 1]
      <3>1. x \in Seq(Cmds) /\ c \in Cmds /\ B(m + 1) = Append(x, c)
        BY <2>1, <2>3
      <3> HIDE DEF x, c
      <3>2. Outside(Append(x, c), A) = Outside(x, A) \o Kept(c, A)
        BY <3>1, OutsideAppend, Zenon
      <3> QED BY <3>1, <3>2 DEF x, c
    <2>5. ASSUME None PROVE Outside(B(m + 1), A) = B(m + 1)
      <3>1. Outside(B(m + 1), A) = B(m) \o <<b[m + 1]>>
        <4>1. b[m + 1] \notin A
          BY <2>1, <2>5
        <4>2. Outside(B(m), A) = B(m)
          BY <2>2, <2>5
        <4>3. Kept(b[m + 1], A) = <<b[m + 1]>>
          BY <4>1 DEF Kept
        <4> QED BY <2>4, <4>2, <4>3
      <3> QED BY <2>1, <2>3, <3>1, AppendIsConcat
    <2>6. ASSUME All PROVE Outside(B(m + 1), A) = <<>>
      <3>1. Outside(B(m + 1), A) = <<>> \o <<>>
        <4>1. b[m + 1] \in A
          BY <2>1, <2>6
        <4>2. Outside(B(m), A) = <<>>
          BY <2>2, <2>6
        <4>3. Kept(b[m + 1], A) = <<>>
          BY <4>1 DEF Kept
        <4> QED BY <2>4, <4>2, <4>3
      <3> QED BY <3>1
    <2> QED BY <2>5, <2>6
  <1> HIDE DEF D
  <1>5. \A m \in Nat : m \in D
    BY <1>3, <1>4, SetInduction
  <1>6. Len(b) \in D /\ Len(b) \in Nat
    BY <1>5
  <1> QED BY <1>1, <1>6 DEF D

-----------------------------------------------------------------------------
(* The invariant holds at first and every step keeps it.                   *)

\* The members of a sequence.
LEMMA InRange ==
  ASSUME NEW S, NEW s \in Seq(S)
  PROVE  /\ Range(s) \subseteq S
         /\ \A x : x \in Range(s) <=> \E i \in 1..Len(s) : s[i] = x
  BY DEF Range

\* Init establishes the invariant.
LEMMA InitInv == Init => BatcherInv
  <1> SUFFICES ASSUME Init PROVE BatcherInv
    OBVIOUS
  <1> USE DEF Init
  <1>0. Range(<<>>) = {} /\ Len(<<>>) = 0
    BY DEF Range
  <1>1. TypeOK
    <2>1. <<>> \in Seq(Cmds) /\ 0 <= MaxQueue
      BY BatcherAssumption
    <2>2. \A c \in Cmds : done[c] = <<>> /\ out[c] = <<>>
      OBVIOUS
    <2>3. \A c \in Cmds : Range(done[c]) \cup Range(out[c]) \subseteq Result
      BY <1>0, <2>2
    <2>4. {timer, leaving, stop, finished} \subseteq BOOLEAN
      OBVIOUS
    <2>5. uncertain \subseteq Cmds /\ Len(queue) <= MaxQueue /\ Len(held) <= 1
      BY <1>0, <2>1
    <2>6. sub \in [Cmds -> {"new", "checked", "queued", "direct", "late", "refused"}]
      OBVIOUS
    <2> QED BY <2>1, <2>3, <2>4, <2>5, <2>6 DEF TypeOK
  <1>2. Typed
    BY <1>1 DEF Typed
  <1>3. Pipeline /\ Once
    BY DEF Pipeline, Past, Once
  <1>4. Accepted /\ Answered
    BY <1>0 DEF Accepted, Answered
  <1>5. Applied /\ NoneSkipped
    BY <1>0 DEF Applied, NoneSkipped, Past
  <1>6. Phases
    BY <1>0 DEF Phases, LoopGone
  <1>7. Honest
    BY <1>0 DEF Honest
  <1>8. BatchWellFormed
    <2>1. Fill(<<>>) = 0
      <3>1. <<>> \in Seq(Cmds)
        OBVIOUS
      <3> QED BY <3>1, EventsType
    <2> QED BY <2>1, BatcherAssumption DEF BatchWellFormed
  <1>9. BatchingTransparent
    BY <1>0 DEF BatchingTransparent
  <1> QED BY <1>2, <1>3, <1>4, <1>5, <1>6, <1>7, <1>8, <1>9 DEF BatcherInv

\* What only speaks of the commands and their answers survives a step that
\* moves none.
LEMMA NothingMoves ==
  ASSUME BatcherInv, UNCHANGED <<done, queue, batch, held, order>>
  PROVE  /\ Pipeline' /\ Once' /\ Answered' /\ BatchWellFormed' /\ BatchingTransparent'
         /\ Past' = Past
  <1> USE DEF BatcherInv
  <1>1. Past' = Past /\ Pipeline' /\ Once'
    BY DEF Pipeline, Past, Once
  <1>2. Answered'
    BY <1>1 DEF Answered
  <1>3. BatchWellFormed' /\ BatchingTransparent'
    BY DEF BatchWellFormed, BatchingTransparent
  <1> QED BY <1>1, <1>2, <1>3

\* The steps of a submission that is not yet on the queue, or already is.
LEMMA SubmitStep ==
  ASSUME BatcherInv, NEW c \in Cmds,
         Enter(c) \/ TurnAway(c) \/ CallerGone(c) \/ HandBack(c)
  PROVE  BatcherInv'
  <1> USE DEF BatcherInv, loop, shutdown, tigerbeetle
  <1>0. UNCHANGED <<out, done, queue, loop, shutdown, order, tigerbeetle>>
    BY DEF Enter, TurnAway, CallerGone, HandBack
  <1>1. /\ Pipeline' /\ Once' /\ Answered' /\ BatchWellFormed' /\ BatchingTransparent'
        /\ Past' = Past
    BY <1>0, NothingMoves
  <1>2. \E v \in {"refused", "checked", "late", "direct"} :
           /\ sub' = [sub EXCEPT ![c] = v]
           /\ v = "checked" => sub[c] = "new" /\ ~Unfit(c)
           /\ v = "refused" => sub[c] \in {"new", "checked"}
           /\ v \in {"late", "direct"} => sub[c] = "queued"
    BY DEF Enter, TurnAway, CallerGone, HandBack
  <1>3. Typed'
    BY <1>0, <1>2 DEF Typed, TypeOK
  <1>4. Accepted'
    BY <1>0, <1>2 DEF Accepted, Typed, TypeOK, Unfit
  <1>5. Applied' /\ NoneSkipped'
    BY <1>0, <1>1 DEF Applied, NoneSkipped, Before
  <1>6. Phases' /\ Honest'
    BY <1>0 DEF Phases, LoopGone, Honest
  <1> QED BY <1>1, <1>3, <1>4, <1>5, <1>6

\* watchLate passes on an answer, or says closed once the settlers are done:
\* by then nothing is left that could still apply the command.
LEMMA WatchLateStep ==
  ASSUME BatcherInv, NEW c \in Cmds, WatchLate(c)
  PROVE  BatcherInv'
  <1> USE DEF BatcherInv, loop, shutdown, tigerbeetle
  <1>0. UNCHANGED <<sub, done, queue, loop, shutdown, order, tigerbeetle>>
    BY DEF WatchLate
  <1>1. /\ Pipeline' /\ Once' /\ Answered' /\ BatchWellFormed' /\ BatchingTransparent'
        /\ Past' = Past
    BY <1>0, NothingMoves
  <1>2. /\ sub[c] = "late" /\ (done[c] # <<>> \/ finished)
        /\ out' = [out EXCEPT ![c] = IF done[c] # <<>> THEN done[c] ELSE <<Closed>>]
    BY DEF WatchLate
  <1>3. done \in [Cmds -> Seq(Result)] /\ out \in [Cmds -> Seq(Result)]
    BY DEF Typed
  <1>4. Typed'
    <2>1. Closed \in Result
      BY DEF Closed, Result
    <2>2. out' \in [Cmds -> Seq(Result)]
      BY <1>2, <1>3, <2>1
    <2>3. \A d \in Cmds : Range(done'[d]) \subseteq Result /\ Range(out'[d]) \subseteq Result
      BY <1>0, <1>3, <2>2, InRange
    <2>4. TypeOK'
      BY <1>0, <2>3 DEF Typed, TypeOK
    <2> QED BY <1>0, <1>3, <2>2, <2>4 DEF Typed
  <1>5. Accepted' /\ Applied' /\ NoneSkipped' /\ Phases'
    <2>1. Accepted'
      BY <1>0 DEF Accepted, Unfit
    <2>2. Applied' /\ NoneSkipped'
      BY <1>0, <1>1 DEF Applied, NoneSkipped, Before
    <2>3. Phases'
      BY <1>0 DEF Phases, LoopGone
    <2> QED BY <2>1, <2>2, <2>3
  <1>6. Honest'
    <2>1. ASSUME done[c] = <<>> PROVE finished /\ c \notin Range(applied)
      <3>1. finished /\ batch = <<>>
        BY <1>2, <2>1 DEF Phases
      <3>2. /\ order \in Seq(Cmds) /\ applied \in Seq(Cmds) /\ batch \in Seq(Cmds)
            /\ queue \in Seq(Cmds) /\ held \in Seq(Cmds)
        BY DEF Typed, TypeOK
      <3>3. Len(batch) = 0 /\ Past \in Nat /\ Past <= Len(order)
        BY <3>1, <3>2, SMTT(30) DEF Past, Pipeline
      <3>4. \A i \in 1..Past : done[order[i]] # <<>>
        BY <3>2, <3>3, SMTT(30) DEF Answered
      <3>5. \A j \in 1..Len(applied) : applied[j] # c
        BY <2>1, <3>3, <3>4, SMTT(30) DEF Applied
      <3> QED BY <3>1, <3>2, <3>5, InRange
    <2> QED BY <1>0, <1>2, <1>3, <2>1 DEF Honest
  <1> QED BY <1>1, <1>4, <1>5, <1>6

\* The steps of the shutdown that answer nobody.
LEMMA ShutdownStep ==
  ASSUME BatcherInv, Cancel \/ CallClose \/ SettlerWakes \/ SettlerDone
  PROVE  BatcherInv'
  <1> USE DEF BatcherInv, submission, loop, shutdown, tigerbeetle
  <1>0. UNCHANGED <<submission, done, queue, loop, order, tigerbeetle>>
    BY DEF Cancel, CallClose, SettlerWakes, SettlerDone
  <1>1. /\ Pipeline' /\ Once' /\ Answered' /\ BatchWellFormed' /\ BatchingTransparent'
        /\ Past' = Past
    BY <1>0, NothingMoves
  <1>2. stop => stop' = TRUE
    BY DEF Cancel, CallClose, SettlerWakes, SettlerDone, Typed, TypeOK
  <1>3. Typed'
    <2>1. stop' \in BOOLEAN /\ finished' \in BOOLEAN
      BY DEF Cancel, CallClose, SettlerWakes, SettlerDone, Typed, TypeOK
    <2>2. watcher' \in {"wait", "drain", "done"} /\ closer' \in {"idle", "wait", "drain", "done"}
      BY DEF Cancel, CallClose, SettlerWakes, SettlerDone, Typed, TypeOK
    <2> QED BY <1>0, <2>1, <2>2 DEF Typed, TypeOK
  <1>4. Accepted' /\ Applied'
    <2>1. Accepted'
      BY <1>0 DEF Accepted, Unfit
    <2>2. Applied'
      BY <1>0, <1>1 DEF Applied, Before
    <2> QED BY <2>1, <2>2
  <1>5. NoneSkipped'
    BY <1>0, <1>1, <1>2 DEF NoneSkipped
  <1>6. finished' => LoopGone'
    BY <1>0 DEF Phases, LoopGone, Cancel, CallClose, SettlerWakes, SettlerDone
  <1>7. Phases'
    <2>1. watcher' # "wait" => pc' = "exited"
      BY <1>0 DEF Phases, Cancel, CallClose, SettlerWakes, SettlerDone
    <2>2. closer' \in {"drain", "done"} => LoopGone'
      BY <1>0 DEF Phases, LoopGone, Cancel, CallClose, SettlerWakes, SettlerDone
    <2>3. pc' \in {"drain", "exited"} \/ leaving' \/ closer' # "idle" => stop'
      BY <1>0, <1>2 DEF Phases, Cancel, CallClose, SettlerWakes, SettlerDone
    <2> QED BY <1>0, <1>6, <2>1, <2>2, <2>3 DEF Phases, LoopGone
  <1>8. Honest'
    <2>1. finished => finished'
      BY DEF Cancel, CallClose, SettlerWakes, SettlerDone
    <2> QED BY <1>0, <2>1 DEF Honest
  <1> QED BY <1>1, <1>3, <1>4, <1>5, <1>7, <1>8

\* The steps of the loop that neither receive, apply nor answer.
LEMMA LoopIdleStep ==
  ASSUME BatcherInv, Tick \/ SeeStop \/ Retry \/ LoopReturns
  PROVE  BatcherInv'
  <1> USE DEF BatcherInv, submission, loop, shutdown, tigerbeetle
  <1>0. UNCHANGED <<submission, done, queue, batch, held, shutdown, order, tigerbeetle>>
    BY DEF Tick, SeeStop, Retry, LoopReturns
  <1>1. /\ Pipeline' /\ Once' /\ Answered' /\ BatchWellFormed' /\ BatchingTransparent'
        /\ Past' = Past
    BY <1>0, NothingMoves
  <1>2. /\ pc' \in {"select", "call", "drain", "exited"}
        /\ pc' = "drain" => pc = "select" /\ batch = <<>> /\ stop
        /\ pc' = "exited" => pc = "drain"
        /\ pc' = "select" => pc = "select"
        /\ pc' = "call" => pc \in {"select", "retry"}
    BY DEF Tick, SeeStop, Retry, LoopReturns
  <1>3. Typed'
    <2>1. timer' \in BOOLEAN
      BY DEF Tick, SeeStop, Retry, LoopReturns, Typed, TypeOK
    <2>2. leaving' \in BOOLEAN
      BY DEF Tick, SeeStop, Retry, LoopReturns, Typed, TypeOK
    <2> QED BY <1>0, <1>2, <2>1, <2>2 DEF Typed, TypeOK
  <1>4. Accepted' /\ NoneSkipped'
    BY <1>0, <1>1 DEF Accepted, Unfit, NoneSkipped
  <1>5. Applied'
    <2>1. pc \in {"call", "retry"} => pc' \in {"call", "retry"}
      BY DEF Tick, SeeStop, Retry, LoopReturns
    <2> QED BY <1>0, <1>1, <2>1 DEF Applied, Before
  <1>6. ~LoopGone
    BY DEF Tick, SeeStop, Retry, LoopReturns, LoopGone
  <1>7. Phases'
    <2>1. leaving' => stop
      BY DEF Tick, SeeStop, Retry, LoopReturns, Phases
    <2> QED BY <1>0, <1>2, <1>6, <2>1 DEF Phases, LoopGone
  <1>8. Honest'
    BY <1>0 DEF Honest
  <1> QED BY <1>1, <1>3, <1>4, <1>5, <1>7, <1>8

\* The places of the unanswered commands in the order.
LEMMA Places ==
  ASSUME BatcherInv
  PROVE  /\ order \in Seq(Cmds) /\ applied \in Seq(Cmds) /\ batch \in Seq(Cmds)
         /\ queue \in Seq(Cmds) /\ held \in Seq(Cmds)
         /\ Len(order) \in Nat /\ Len(batch) \in Nat /\ Len(queue) \in Nat
         /\ Len(held) \in Nat /\ Len(applied) \in Nat /\ Past \in Nat
         /\ Len(order) = Past + Len(batch) + Len(held) + Len(queue)
         /\ \A i \in 1..Len(batch) : /\ Past + i \in 1..Len(order)
                                     /\ order[Past + i] = batch[i] /\ batch[i] \in Cmds
  <1>1. /\ order \in Seq(Cmds) /\ applied \in Seq(Cmds) /\ batch \in Seq(Cmds)
        /\ queue \in Seq(Cmds) /\ held \in Seq(Cmds)
    BY DEF BatcherInv, Typed, TypeOK
  <1>2. /\ Len(order) \in Nat /\ Len(batch) \in Nat /\ Len(queue) \in Nat
        /\ Len(held) \in Nat /\ Len(applied) \in Nat
    BY <1>1
  <1>3. Past \in Nat /\ Len(order) = Past + Len(batch) + Len(held) + Len(queue)
    BY <1>2 DEF BatcherInv, Pipeline, Past
  <1>4. \A i \in 1..Len(batch) : order[Past + i] = batch[i]
    BY DEF BatcherInv, Pipeline
  <1>5. \A i \in 1..Len(batch) : Past + i \in 1..Len(order)
    BY <1>2, <1>3
  <1> QED BY <1>1, <1>2, <1>3, <1>4, <1>5

\* The commands of the batch have no answer yet, and fit.
LEMMA BatchUnanswered ==
  ASSUME BatcherInv, NEW i \in 1..Len(batch)
  PROVE  done[batch[i]] = <<>> /\ Size[batch[i]] # 0
  <1>1. /\ Past \in Nat /\ Past + i \in 1..Len(order) /\ order[Past + i] = batch[i]
        /\ batch[i] \in Cmds /\ order \in Seq(Cmds)
    BY Places
  <1>2. Len(done[batch[i]]) = IF Past + i <= Past THEN 1 ELSE 0
    BY <1>1 DEF BatcherInv, Answered
  <1>3. done[batch[i]] \in Seq(Result)
    BY <1>1 DEF BatcherInv, Typed
  <1>4. batch[i] \in Range(order)
    BY <1>1, InRange
  <1>5. ~Unfit(batch[i])
    BY <1>1, <1>4 DEF BatcherInv, Accepted
  <1> QED BY <1>1, <1>2, <1>3, <1>5 DEF Unfit

\* What a call that goes through leaves behind in TigerBeetle: the batch is
\* applied, behind everything applied before.
LEMMA ApplyEffect ==
  ASSUME BatcherInv, pc = "call", Apply
  PROVE  /\ applied' \in Seq(Cmds)
         /\ Range(applied') = Range(applied) \cup Range(batch)
         /\ \A j \in 1..Len(applied') :
               \E i \in 1..(Past + Len(batch)) : applied'[j] = order[i]
         /\ \A j, k \in 1..Len(applied') : j < k => Before(applied'[j], applied'[k])
         /\ Range(batch) \subseteq Range(applied')
  <1>0. /\ order \in Seq(Cmds) /\ applied \in Seq(Cmds) /\ batch \in Seq(Cmds)
        /\ Len(order) \in Nat /\ Len(batch) \in Nat /\ Len(applied) \in Nat /\ Past \in Nat
        /\ \A i \in 1..Len(batch) : /\ Past + i \in 1..Len(order)
                                    /\ order[Past + i] = batch[i] /\ batch[i] \in Cmds
    BY Places
  <1>1. Unseen = Outside(batch, Range(applied))
    BY DEF Unseen, Outside
  <1>2. applied' = applied \o Unseen
    BY DEF Apply
  <1>3. /\ \A j \in 1..Len(applied) :
              \E i \in 1..(Past + Len(batch)) : applied[j] = order[i]
        /\ \A j, k \in 1..Len(applied) : j < k => Before(applied[j], applied[k])
    BY DEF BatcherInv, Applied
  <1>4. CASE Range(batch) \subseteq Range(applied)
    <2>1. \A i \in 1..Len(batch) : batch[i] \in Range(applied)
      BY <1>0, <1>4, InRange
    <2>2. Unseen = <<>>
      BY <1>0, <1>1, <2>1, ApplyWhole
    <2>3. applied' = applied
      BY <1>0, <1>2, <2>2, ConcatEmptySeq
    <2> QED BY <1>0, <1>3, <1>4, <2>3
  <1>5. CASE Range(batch) \cap Range(applied) = {}
    <2>1. \A i \in 1..Len(batch) : batch[i] \notin Range(applied)
      BY <1>0, <1>5, InRange
    <2>2. Unseen = batch
      BY <1>0, <1>1, <2>1, ApplyWhole
    <2>3. applied' = applied \o batch
      BY <1>2, <2>2
    <2>4. /\ applied' \in Seq(Cmds) /\ Len(applied') = Len(applied) + Len(batch)
          /\ \A i \in 1..(Len(applied) + Len(batch)) : applied'[i] =
                IF i <= Len(applied) THEN applied[i] ELSE batch[i - Len(applied)]
      BY <1>0, <2>3, ConcatProperties
    <2>5. Range(applied') = Range(applied) \cup Range(batch)
      BY <1>0, <2>3, RangeConcatenation
    <2>6. \A j \in 1..Len(applied) : applied'[j] = applied[j]
      BY <1>0, <2>4
    <2>7. ASSUME NEW j \in 1..Len(applied'), ~(j <= Len(applied))
          PROVE  \E i \in 1..Len(batch) :
                    /\ j = Len(applied) + i /\ applied'[j] = order[Past + i]
                    /\ Past + i \in 1..Len(order)
      <3> DEFINE i == j - Len(applied)
      <3>1. i \in 1..Len(batch) /\ j = Len(applied) + i
        BY <1>0, <2>4, <2>7
      <3>2. applied'[j] = batch[i]
        BY <1>0, <2>4, <2>7
      <3> HIDE DEF i
      <3> QED BY <1>0, <3>1, <3>2
    <2>8. ASSUME NEW j \in 1..Len(applied')
          PROVE  \E i \in 1..(Past + Len(batch)) : applied'[j] = order[i]
      <3>1. CASE j <= Len(applied)
        <4>1. j \in 1..Len(applied)
          BY <1>0, <3>1
        <4> QED BY <1>3, <2>6, <4>1
      <3>2. CASE ~(j <= Len(applied))
        <4>1. PICK i \in 1..Len(batch) : applied'[j] = order[Past + i]
          BY <2>7, <3>2
        <4>2. Past + i \in 1..(Past + Len(batch))
          BY <1>0
        <4> QED BY <4>1, <4>2
      <3> QED BY <3>1, <3>2
    <2>9. ASSUME NEW j \in 1..Len(applied'), NEW k \in 1..Len(applied'), j < k
          PROVE  Before(applied'[j], applied'[k])
      <3>1. CASE k <= Len(applied)
        <4>1. j \in 1..Len(applied) /\ k \in 1..Len(applied)
          BY <1>0, <2>9, <3>1
        <4> QED BY <1>3, <2>6, <2>9, <4>1
      <3>2. CASE ~(k <= Len(applied))
        <4>1. PICK n \in 1..Len(batch) :
                 /\ k = Len(applied) + n /\ applied'[k] = order[Past + n]
                 /\ Past + n \in 1..Len(order)
          BY <2>7, <3>2
        <4>2. CASE j <= Len(applied)
          <5>1. j \in 1..Len(applied)
            BY <4>2
          <5>2. PICK i \in 1..(Past + Len(batch)) : applied[j] = order[i]
            BY <1>3, <5>1
          <5>3. i <= Past
            <6> SUFFICES ASSUME ~(i <= Past) PROVE FALSE
              OBVIOUS
            <6> DEFINE m == i - Past
            <6>1. m \in 1..Len(batch) /\ i = Past + m
              BY <1>0
            <6> HIDE DEF m
            <6>2. applied[j] = batch[m]
              BY <1>0, <5>2, <6>1
            <6>3. applied[j] \in Range(applied)
              BY <1>0, <5>1, InRange
            <6> QED BY <2>1, <6>1, <6>2, <6>3
          <5>4. i \in 1..Len(order) /\ i < Past + n
            BY <1>0, <4>1, <5>3
          <5>5. DOMAIN order = 1..Len(order)
            BY <1>0
          <5>6. applied'[j] = order[i]
            BY <2>6, <5>1, <5>2
          <5> QED BY <4>1, <5>4, <5>5, <5>6 DEF Before
        <4>3. CASE ~(j <= Len(applied))
          <5>1. PICK m \in 1..Len(batch) :
                   /\ j = Len(applied) + m /\ applied'[j] = order[Past + m]
                   /\ Past + m \in 1..Len(order)
            BY <2>7, <4>3
          <5>2. Past + m < Past + n
            BY <1>0, <2>9, <4>1, <5>1
          <5>3. DOMAIN order = 1..Len(order)
            BY <1>0
          <5> QED BY <4>1, <5>1, <5>2, <5>3 DEF Before
        <4> QED BY <4>2, <4>3
      <3> QED BY <3>1, <3>2
    <2> QED BY <2>4, <2>5, <2>8, <2>9
  <1> QED BY <1>4, <1>5 DEF BatcherInv, Applied

\* A call that fails may have applied the batch; either way it is uncertain.
LEMMA CallFailsStep ==
  ASSUME BatcherInv, CallFails
  PROVE  BatcherInv'
  <1> USE DEF BatcherInv, submission, loop, shutdown, tigerbeetle
  <1>0. /\ UNCHANGED <<submission, done, queue, batch, held, timer, leaving, shutdown, order>>
        /\ pc = "call" /\ pc' = "retry" /\ uncertain' = uncertain \cup Range(batch)
        /\ Apply \/ applied' = applied
    BY DEF CallFails
  <1>1. /\ Pipeline' /\ Once' /\ Answered' /\ BatchWellFormed' /\ BatchingTransparent'
        /\ Past' = Past
    BY <1>0, NothingMoves
  <1>2. batch \in Seq(Cmds) /\ applied \in Seq(Cmds)
    BY Places
  <1>3. Range(batch) \subseteq Cmds
    BY <1>2, InRange
  <1>4. /\ applied' \in Seq(Cmds)
        /\ \A j \in 1..Len(applied') :
              \E i \in 1..(Past + Len(batch)) : applied'[j] = order[i]
        /\ \A j, k \in 1..Len(applied') : j < k => Before(applied'[j], applied'[k])
        /\ Range(applied) \subseteq Range(applied')
        /\ Range(applied') \subseteq Range(applied) \cup Range(batch)
    <2>1. CASE Apply
      BY <1>0, <2>1, ApplyEffect
    <2>2. CASE applied' = applied
      BY <1>2, <2>2 DEF Applied
    <2> QED BY <1>0, <2>1, <2>2
  <1>5. Range(batch) \cap Range(applied') = {} \/ Range(batch) \subseteq Range(applied')
    <2>1. CASE Apply
      BY <1>0, <2>1, ApplyEffect
    <2>2. CASE applied' = applied
      BY <2>2 DEF Applied
    <2> QED BY <1>0, <2>1, <2>2
  <1>6. Typed'
    BY <1>0, <1>3, <1>4 DEF Typed, TypeOK
  <1>7. Accepted'
    BY <1>0 DEF Accepted, Unfit
  <1>8. Applied'
    BY <1>0, <1>1, <1>4, <1>5 DEF Applied, Before
  <1>9. NoneSkipped'
    BY <1>0, <1>1, <1>4 DEF NoneSkipped
  <1>10. Phases'
    BY <1>0 DEF Phases, LoopGone
  <1>11. Honest'
    <2>1. ~finished
      BY <1>0 DEF Phases, LoopGone
    <2> QED BY <1>0, <1>4, <2>1 DEF Honest
  <1> QED BY <1>1, <1>6, <1>7, <1>8, <1>9, <1>10, <1>11

\* A command that fits starts a batch of its own.
LEMMA BatchOfOne ==
  ASSUME NEW c \in Cmds, ~Unfit(c)
  PROVE  Fill(Append(<<>>, c)) <= MaxBatch
  <1>1. <<>> \in Seq(Cmds)
    OBVIOUS
  <1>2. Fill(Append(<<>>, c)) = Fill(<<>>) + Size[c] /\ Fill(<<>>) = 0
    BY <1>1, EventsAppend, EventsType
  <1> QED BY <1>2, BatcherAssumption DEF Unfit

\* When flush returns the batch is behind, and the command in hand has
\* become the new one.
LEMMA FlushedEffect ==
  ASSUME BatcherInv, pc \in {"call", "retry"}, Flushed, UNCHANGED <<queue, order>>
  PROVE  /\ batch' \in Seq(Cmds) /\ held' = <<>> /\ timer' \in BOOLEAN
         /\ pc' \in {"select", "call", "drain"} /\ leaving' = leaving
         /\ pc' = "drain" => leaving /\ batch' = <<>>
         /\ Past' = Past + Len(batch)
         /\ batch' = held
         /\ Pipeline' /\ BatchWellFormed'
  <1>0. /\ order \in Seq(Cmds) /\ batch \in Seq(Cmds)
        /\ queue \in Seq(Cmds) /\ held \in Seq(Cmds)
        /\ Len(order) \in Nat /\ Len(batch) \in Nat /\ Len(queue) \in Nat
        /\ Len(held) \in Nat /\ Past \in Nat
        /\ Len(order) = Past + Len(batch) + Len(held) + Len(queue)
    BY Places
  <1>1. Len(held) <= 1 /\ timer \in BOOLEAN
    BY DEF BatcherInv, Typed, TypeOK
  <1>2. CASE held = <<>>
    <2>1. /\ batch' = <<>> /\ held' = <<>> /\ timer' = timer /\ leaving' = leaving
          /\ pc' = IF leaving THEN "drain" ELSE "select"
      BY <1>2 DEF Flushed
    <2>2. Past' = Past + Len(batch)
      BY <1>0, <1>2, <2>1 DEF Past
    <2>3. Pipeline'
      <3>1. Past' \in Nat
        BY <1>0, <2>2
      <3>2. Len(batch') = 0 /\ Len(held') = 0 /\ Len(held) = 0
        BY <1>2, <2>1
      <3>3. \A i \in 1..Len(queue) : order[Past + Len(batch) + i] = queue[i]
        BY <1>0, <3>2 DEF BatcherInv, Pipeline
      <3>4. \A i \in 1..Len(queue') : order'[Past' + Len(batch') + Len(held') + i] = queue'[i]
        BY <1>0, <2>2, <3>2, <3>3
      <3> QED BY <3>1, <3>2, <3>4 DEF Pipeline
    <2>4. BatchWellFormed'
      <3>1. Fill(<<>>) = 0
        BY <1>0, EventsType
      <3> QED BY <2>1, <3>1, BatcherAssumption DEF BatchWellFormed
    <2> QED BY <1>1, <1>2, <2>1, <2>2, <2>3, <2>4
  <1>3. CASE held # <<>>
    <2>1. Len(held) = 1 /\ held[1] \in Cmds /\ held = <<held[1]>>
      <3>0. held \in Seq(Cmds) /\ Len(held) \in Nat
        BY <1>0
      <3>1. Len(held) = 1 /\ 1 \in 1..Len(held)
        <4>1. Len(held) # 0
          BY <1>3, <3>0, EmptySeq
        <4>2. Len(held) <= 1
          BY <1>1
        <4> DEFINE n == Len(held)
        <4>3. n \in Nat /\ n # 0 /\ n <= 1
          BY <3>0, <4>1, <4>2
        <4> HIDE DEF n
        <4>4. n = 1 /\ 1 \in 1..n
          BY <4>3
        <4> QED BY <4>4 DEF n
      <3>2. held[1] \in Cmds
        BY <3>0, <3>1
      <3>3. /\ <<held[1]>> \in Seq(Cmds) /\ Len(<<held[1]>>) = 1
            /\ \A i \in 1..1 : held[i] = <<held[1]>>[i]
        BY <3>2
      <3> QED BY <1>0, <3>1, <3>2, <3>3, SeqEqual
    <2>2. /\ batch' = Append(<<>>, held[1]) /\ held' = <<>> /\ leaving' = leaving
          /\ timer' \in BOOLEAN /\ pc' \in {"select", "call"}
      BY <1>3 DEF Flushed, Place
    <2>3. batch' = <<held[1]>> /\ Len(batch') = 1 /\ Len(held') = 0 /\ batch' = held
      BY <2>1, <2>2
    <2>4. Past' = Past + Len(batch)
      BY <1>0, <2>1, <2>3 DEF Past
    <2>5. order[Past + Len(batch) + 1] = held[1]
      BY <2>1 DEF BatcherInv, Pipeline
    <2>6. Pipeline'
      <3>1. Past' \in Nat
        BY <1>0, <2>4
      <3>2. \A i \in 1..Len(batch') : order'[Past' + i] = batch'[i]
        BY <1>0, <2>3, <2>4, <2>5
      <3>3. \A i \in 1..Len(queue) : order[Past + Len(batch) + Len(held) + i] = queue[i]
        BY DEF BatcherInv, Pipeline
      <3>4. Past' + Len(batch') + Len(held') = Past + Len(batch) + Len(held)
        BY <1>0, <2>1, <2>3, <2>4
      <3>5. \A i \in 1..Len(queue') : order'[Past' + Len(batch') + Len(held') + i] = queue'[i]
        BY <3>3, <3>4
      <3> QED BY <2>3, <3>1, <3>2, <3>5 DEF Pipeline
    <2>7. BatchWellFormed'
      <3>1. Past + Len(batch) + 1 \in 1..Len(order)
        BY <1>0, <2>1
      <3>2. held[1] \in Range(order)
        BY <1>0, <2>5, <3>1, InRange
      <3>3. ~Unfit(held[1])
        BY <2>1, <3>2 DEF BatcherInv, Accepted
      <3>4. Fill(batch') <= MaxBatch
        BY <2>1, <2>2, <3>3, BatchOfOne
      <3>5. \A j, k \in DOMAIN batch' : Op[batch'[j]] = Op[batch'[k]]
        BY <2>3
      <3> QED BY <3>4, <3>5 DEF BatchWellFormed
    <2> QED BY <1>0, <2>2, <2>3, <2>4, <2>6, <2>7
  <1> QED BY <1>2, <1>3

\* The batch gets an answer: closed only if a call with it has failed, and
\* outcomes only if they are its own.
BatchAnswered ==
    /\ done' \in [Cmds -> Seq(Result)]
    /\ \A c \in Cmds : ~InBatch(c) => done'[c] = done[c]
    /\ \A c \in Cmds : InBatch(c) =>
          \E r \in Result : /\ done'[c] = <<r>>
                            /\ r = Closed => c \in uncertain
                            /\ r.kind = "outcomes" => r.of = Answer(Events(<<c>>))

\* The end of a flush: the batch is answered, each command once, and left
\* behind.  It has been applied, or the batcher is stopping.
LEMMA FlushStep ==
  ASSUME BatcherInv, pc \in {"call", "retry"}, Flushed,
         UNCHANGED <<submission, queue, shutdown, order, uncertain>>,
         BatchAnswered,
         \/ pc = "call" /\ Apply
         \/ stop /\ applied' = applied
  PROVE  BatcherInv'
  <1> USE DEF submission, shutdown
  <1>0. /\ order \in Seq(Cmds) /\ applied \in Seq(Cmds) /\ batch \in Seq(Cmds)
        /\ queue \in Seq(Cmds) /\ held \in Seq(Cmds)
        /\ Len(order) \in Nat /\ Len(batch) \in Nat /\ Len(queue) \in Nat
        /\ Len(held) \in Nat /\ Len(applied) \in Nat /\ Past \in Nat
        /\ Len(order) = Past + Len(batch) + Len(held) + Len(queue)
        /\ \A i \in 1..Len(batch) : /\ Past + i \in 1..Len(order)
                                    /\ order[Past + i] = batch[i] /\ batch[i] \in Cmds
    BY Places
  <1>1. /\ batch' \in Seq(Cmds) /\ held' = <<>> /\ timer' \in BOOLEAN
        /\ pc' \in {"select", "call", "drain"} /\ leaving' = leaving
        /\ pc' = "drain" => leaving /\ batch' = <<>>
        /\ Past' = Past + Len(batch)
        /\ batch' = held
        /\ Pipeline' /\ BatchWellFormed'
    BY FlushedEffect
  <1>2. \A c : InBatch(c) <=> \E i \in 1..Len(batch) : batch[i] = c
    <2>1. DOMAIN batch = 1..Len(batch)
      BY <1>0
    <2> QED BY <2>1 DEF InBatch
  <1>3. /\ applied' \in Seq(Cmds)
        /\ \A j \in 1..Len(applied') :
              \E i \in 1..(Past + Len(batch)) : applied'[j] = order[i]
        /\ \A j, k \in 1..Len(applied') : j < k => Before(applied'[j], applied'[k])
        /\ Range(applied) \subseteq Range(applied')
        /\ Range(applied') \subseteq Range(applied) \cup Range(batch)
        /\ stop \/ Range(batch) \subseteq Range(applied')
    <2>1. CASE pc = "call" /\ Apply
      BY <2>1, ApplyEffect
    <2>2. CASE stop /\ applied' = applied
      BY <1>0, <2>2 DEF BatcherInv, Applied
    <2> QED BY <2>1, <2>2
  <1>4. Typed'
    <2>1. out' \in [Cmds -> Seq(Result)]
      BY DEF BatcherInv, Typed
    <2>2. \A c \in Cmds : Range(done'[c]) \subseteq Result /\ Range(out'[c]) \subseteq Result
      BY <2>1, InRange DEF BatchAnswered
    <2>3. Len(held') <= 1
      BY <1>1
    <2>4. {timer', leaving', stop', finished'} \subseteq BOOLEAN
      BY <1>1 DEF BatcherInv, Typed, TypeOK
    <2>5. /\ queue' \in Seq(Cmds) /\ Len(queue') <= MaxQueue /\ batch' \in Seq(Cmds)
          /\ held' \in Seq(Cmds) /\ order' \in Seq(Cmds) /\ applied' \in Seq(Cmds)
          /\ uncertain' \subseteq Cmds
      BY <1>0, <1>1, <1>3 DEF BatcherInv, Typed, TypeOK
    <2>6. /\ sub' \in [Cmds -> {"new", "checked", "queued", "direct", "late", "refused"}]
          /\ pc' \in {"unstarted", "select", "call", "retry", "drain", "exited"}
          /\ watcher' \in {"wait", "drain", "done"}
          /\ closer' \in {"idle", "wait", "drain", "done"}
      BY <1>1 DEF BatcherInv, Typed, TypeOK
    <2>7. TypeOK'
      BY <2>2, <2>3, <2>4, <2>5, <2>6 DEF TypeOK
    <2> QED BY <2>1, <2>7 DEF Typed, BatchAnswered
  <1>5. Once' /\ Accepted'
    BY DEF BatcherInv, Once, Accepted, Unfit
  <1>6. Answered'
    <2>1. ASSUME NEW i \in 1..Len(order)
          PROVE  Len(done'[order[i]]) = IF i <= Past + Len(batch) THEN 1 ELSE 0
      <3>1. order[i] \in Cmds
        BY <1>0
      <3>2. Len(done[order[i]]) = IF i <= Past THEN 1 ELSE 0
        BY DEF BatcherInv, Answered
      <3>3. CASE i <= Past \/ i > Past + Len(batch)
        <4>1. ~InBatch(order[i])
          <5> SUFFICES ASSUME NEW n \in 1..Len(batch), batch[n] = order[i] PROVE FALSE
            BY <1>2
          <5>1. order[Past + n] = order[i] /\ Past + n \in 1..Len(order)
            BY <1>0
          <5>2. i = Past + n
            BY <5>1 DEF BatcherInv, Once
          <5>3. Past \in Nat /\ Len(batch) \in Nat
            BY <1>0
          <5> QED BY <3>3, <5>2, <5>3
        <4>2. done'[order[i]] = done[order[i]]
          BY <3>1, <4>1 DEF BatchAnswered
        <4>3. Past \in Nat /\ Len(batch) \in Nat /\ i \in Nat
          BY <1>0
        <4>4. (i <= Past) <=> (i <= Past + Len(batch))
          BY <3>3, <4>3
        <4> QED BY <3>2, <4>2, <4>4
      <3>4. CASE ~(i <= Past) /\ i <= Past + Len(batch)
        <4> DEFINE n == i - Past
        <4>1. n \in 1..Len(batch) /\ i = Past + n
          BY <1>0, <3>4
        <4> HIDE DEF n
        <4>2. InBatch(order[i])
          BY <1>0, <1>2, <4>1
        <4>3. PICK r \in Result : done'[order[i]] = <<r>>
          BY <3>1, <4>2 DEF BatchAnswered
        <4> QED BY <3>4, <4>3
      <3>5. Past \in Nat /\ Len(batch) \in Nat /\ i \in Nat
        BY <1>0
      <3> QED BY <3>3, <3>4, <3>5
    <2>2. ASSUME NEW c \in Cmds, c \notin Range(order) PROVE done'[c] = <<>>
      <3>1. ~InBatch(c)
        BY <1>0, <1>2, <2>2, InRange
      <3> QED BY <2>2, <3>1 DEF BatcherInv, Answered, BatchAnswered
    <2> QED BY <1>1, <2>1, <2>2 DEF Answered
  <1>7. Applied'
    <2>1. ASSUME NEW j \in 1..Len(applied')
          PROVE  \E i \in 1..(Past' + Len(batch')) : applied'[j] = order'[i]
      <3>1. PICK i \in 1..(Past + Len(batch)) : applied'[j] = order[i]
        BY <1>3
      <3>2. i \in 1..(Past' + Len(batch'))
        BY <1>0, <1>1
      <3> QED BY <3>1, <3>2
    <2>2. Range(batch') \cap Range(applied') = {}
      <3> SUFFICES ASSUME NEW c \in Range(held), c \in Range(applied') PROVE FALSE
        BY <1>1
      <3>1. PICK n \in 1..Len(held) : held[n] = c
        BY <1>0, InRange
      <3>2. order[Past + Len(batch) + n] = c
        BY <3>1 DEF BatcherInv, Pipeline
      <3>3. PICK j \in 1..Len(applied') : applied'[j] = c
        BY <1>3, InRange
      <3>4. PICK i \in 1..(Past + Len(batch)) : c = order[i]
        BY <1>3, <3>3
      <3>5. /\ Past \in Nat /\ Len(batch) \in Nat /\ Len(held) \in Nat
            /\ Len(queue) \in Nat
            /\ Len(order) = Past + Len(batch) + Len(held) + Len(queue)
        BY <1>0
      <3>6. Past + Len(batch) + n \in 1..Len(order) /\ i \in 1..Len(order)
        BY <3>5
      <3>7. i = Past + Len(batch) + n
        BY <3>2, <3>4, <3>6 DEF BatcherInv, Once
      <3> QED BY <3>5, <3>7
    <2>3. \A j, k \in 1..Len(applied') : j < k => Before(applied[j], applied[k])'
      BY <1>3 DEF Before
    <2> QED BY <2>1, <2>2, <2>3 DEF Applied
  <1>8. NoneSkipped'
    <2> SUFFICES ASSUME ~stop, NEW i \in 1..(Past + Len(batch))
                 PROVE  order[i] \in Range(applied')
      BY <1>1 DEF NoneSkipped
    <2>1. CASE i <= Past
      <3>1. i \in 1..Past
        BY <1>0, <2>1
      <3> QED BY <1>3, <3>1 DEF BatcherInv, NoneSkipped
    <2>2. CASE ~(i <= Past)
      <3> DEFINE n == i - Past
      <3>1. n \in 1..Len(batch) /\ i = Past + n
        BY <1>0, <2>2
      <3> HIDE DEF n
      <3>2. batch[n] \in Range(batch)
        BY <1>0, <3>1, InRange
      <3> QED BY <1>0, <1>3, <3>1, <3>2
    <2> QED BY <2>1, <2>2
  <1>9. ~finished
    BY DEF BatcherInv, Phases, LoopGone
  <1>10. Phases'
    BY <1>1, <1>9 DEF BatcherInv, Phases, LoopGone
  <1>11. Honest'
    <2> SUFFICES ASSUME NEW c \in Cmds
                 PROVE  /\ Closed \in Range(done'[c]) => c \in uncertain \/ c \notin Range(applied')
                        /\ out[c] # <<>> => out[c] = done'[c]
      BY DEF Honest
    <2>1. CASE InBatch(c)
      <3>1. PICK r \in Result : done'[c] = <<r>> /\ (r = Closed => c \in uncertain)
        BY <2>1 DEF BatchAnswered
      <3>2. Range(<<r>>) = {r}
        BY DEF Range
      <3>3. done[c] = <<>>
        BY <1>2, <2>1, BatchUnanswered
      <3>4. out[c] = <<>>
        BY <1>9, <3>3 DEF BatcherInv, Honest
      <3> QED BY <3>1, <3>2, <3>4
    <2>2. CASE ~InBatch(c)
      <3>1. c \notin Range(batch)
        BY <1>0, <1>2, <2>2, InRange
      <3>2. done'[c] = done[c]
        BY <2>2 DEF BatchAnswered
      <3> QED BY <1>3, <1>9, <3>1, <3>2 DEF BatcherInv, Honest
    <2> QED BY <2>1, <2>2
  <1>12. BatchingTransparent'
    <2> SUFFICES ASSUME NEW c \in Cmds, NEW r \in Range(done'[c]), r.kind = "outcomes"
                 PROVE  r.of = Answer(Events(<<c>>))
      BY DEF BatchingTransparent
    <2>1. CASE InBatch(c)
      <3>1. PICK x \in Result : /\ done'[c] = <<x>>
                                /\ x.kind = "outcomes" => x.of = Answer(Events(<<c>>))
        BY <2>1 DEF BatchAnswered
      <3>2. Range(<<x>>) = {x}
        BY DEF Range
      <3>3. r = x
        BY <3>1, <3>2
      <3> QED BY <3>1, <3>3
    <2>2. CASE ~InBatch(c)
      <3>1. done'[c] = done[c]
        BY <2>2 DEF BatchAnswered
      <3> QED BY <3>1 DEF BatcherInv, BatchingTransparent
    <2> QED BY <2>1, <2>2
  <1> QED BY <1>1, <1>4, <1>5, <1>6, <1>7, <1>8, <1>10, <1>11, <1>12 DEF BatcherInv

\* The three ways a flush ends.
LEMMA CallStep ==
  ASSUME BatcherInv, CallOk \/ CallMismatched \/ GiveUp
  PROVE  BatcherInv'
  <1>0. batch \in Seq(Cmds) /\ done \in [Cmds -> Seq(Result)]
    BY DEF BatcherInv, Typed, TypeOK
  <1>1. \A c \in Cmds : InBatch(c) => done[c] = <<>>
    BY <1>0, BatchUnanswered DEF InBatch
  <1>2. Closed \in Result /\ Mismatch \in Result /\ Mismatch # Closed
        /\ Mismatch.kind # "outcomes" /\ Closed.kind # "outcomes"
    BY DEF Closed, Mismatch, Result
  <1>3. CASE CallOk
    <2> DEFINE R(c) == [kind |-> "outcomes", of |-> OutcomesOf(batch, Index(c))]
    <2>1. ASSUME NEW c \in Cmds, InBatch(c)
          PROVE  R(c) \in Result /\ R(c) # Closed /\ R(c).of = Answer(Events(<<c>>))
      <3>1. Index(c) \in 1..Len(batch) /\ batch[Index(c)] = c
        BY <1>0, <2>1 DEF InBatch, Index
      <3>2. \A i \in 1..Len(batch) : Size[batch[i]] # 0
        BY BatchUnanswered
      <3>3. /\ OutcomesOf(batch, Index(c)) = Answer(Events(<<c>>))
            /\ OutcomesOf(batch, Index(c)) \in Seq(Verdict)
        BY <1>0, <3>1, <3>2, WindowIsOwnAnswer
      <3>4. R(c) # Closed
        BY DEF Closed
      <3> QED BY <3>3, <3>4 DEF Result
    <2>2. /\ pc = "call" /\ Apply /\ Flushed
          /\ done' = [c \in Cmds |-> IF ~InBatch(c) THEN done[c] ELSE Append(done[c], R(c))]
          /\ UNCHANGED <<submission, queue, shutdown, order, uncertain>>
      BY <1>3 DEF CallOk
    <2>3. \A c \in Cmds : R(c).kind = "outcomes"
      OBVIOUS
    <2> HIDE DEF R
    <2>4. \A c \in Cmds : ~InBatch(c) => done'[c] = done[c]
      BY <2>2
    <2>5. ASSUME NEW c \in Cmds, InBatch(c) PROVE done'[c] = <<R(c)>>
      <3>1. done'[c] = Append(<<>>, R(c))
        BY <1>1, <2>2, <2>5
      <3> QED BY <3>1
    <2>6. done' \in [Cmds -> Seq(Result)]
      <3>1. ASSUME NEW c \in Cmds PROVE done'[c] \in Seq(Result)
        <4>1. CASE InBatch(c)
          <5>1. R(c) \in Result /\ done'[c] = <<R(c)>>
            BY <2>1, <2>5, <4>1
          <5> QED BY <5>1
        <4>2. CASE ~InBatch(c)
          BY <1>0, <2>4, <4>2
        <4> QED BY <4>1, <4>2
      <3> QED BY <2>2, <3>1
    <2>7. \A c \in Cmds : InBatch(c) =>
             \E r \in Result : /\ done'[c] = <<r>>
                               /\ r = Closed => c \in uncertain
                               /\ r.kind = "outcomes" => r.of = Answer(Events(<<c>>))
      BY <2>1, <2>5
    <2>8. BatchAnswered
      BY <2>4, <2>6, <2>7 DEF BatchAnswered
    <2> QED BY <2>2, <2>8, FlushStep
  <1>4. ASSUME NEW R \in {Mismatch, Closed}, Flushed, pc \in {"call", "retry"},
               UNCHANGED <<submission, queue, shutdown, order, uncertain>>,
               done' = [c \in Cmds |-> IF InBatch(c) THEN Append(done[c], R) ELSE done[c]],
               R = Closed => pc = "retry",
               (pc = "call" /\ Apply) \/ (stop /\ applied' = applied)
        PROVE  BatcherInv'
    <2>1. \A c \in Cmds : ~InBatch(c) => done'[c] = done[c]
      BY <1>4
    <2>2. ASSUME NEW c \in Cmds, InBatch(c) PROVE done'[c] = <<R>>
      <3>1. done'[c] = Append(<<>>, R)
        BY <1>1, <1>4, <2>2
      <3> QED BY <3>1
    <2>3. R \in Result /\ R.kind # "outcomes"
      BY <1>2
    <2>4. done' \in [Cmds -> Seq(Result)]
      <3>1. ASSUME NEW c \in Cmds PROVE done'[c] \in Seq(Result)
        <4>1. CASE InBatch(c)
          <5>1. done'[c] = <<R>>
            BY <2>2, <4>1
          <5> QED BY <2>3, <5>1
        <4>2. CASE ~InBatch(c)
          BY <1>0, <2>1, <4>2
        <4> QED BY <4>1, <4>2
      <3> QED BY <1>4, <3>1
    <2>5. R = Closed => \A c \in Cmds : InBatch(c) => c \in uncertain
      <3>1. \A c \in Cmds : InBatch(c) => c \in Range(batch)
        BY DEF InBatch, Range
      <3> QED BY <1>4, <3>1 DEF BatcherInv, Phases
    <2>6. \A c \in Cmds : InBatch(c) =>
             \E r \in Result : /\ done'[c] = <<r>>
                               /\ r = Closed => c \in uncertain
                               /\ r.kind = "outcomes" => r.of = Answer(Events(<<c>>))
      BY <2>2, <2>3, <2>5
    <2>7. BatchAnswered
      BY <2>1, <2>4, <2>6 DEF BatchAnswered
    <2> QED BY <1>4, <2>7, FlushStep
  <1>5. CASE CallMismatched
    <2>1. /\ Flushed /\ pc = "call" /\ Apply
          /\ UNCHANGED <<submission, queue, shutdown, order, uncertain>>
          /\ done' = [c \in Cmds |-> IF InBatch(c) THEN Append(done[c], Mismatch) ELSE done[c]]
      BY <1>5 DEF CallMismatched
    <2> QED BY <1>2, <1>4, <2>1
  <1>6. CASE GiveUp
    <2>1. /\ Flushed /\ pc = "retry" /\ stop /\ applied' = applied
          /\ UNCHANGED <<submission, queue, shutdown, order, uncertain>>
          /\ done' = [c \in Cmds |-> IF InBatch(c) THEN Append(done[c], Closed) ELSE done[c]]
      BY <1>6 DEF GiveUp, tigerbeetle
    <2> QED BY <1>4, <2>1
  <1> QED BY <1>3, <1>5, <1>6

\* A command gets on the queue, behind all others.
LEMMA EnqueueStep ==
  ASSUME BatcherInv, NEW c \in Cmds, Enqueue(c)
  PROVE  BatcherInv'
  <1> USE DEF submission, loop, shutdown, tigerbeetle
  <1>0. /\ order \in Seq(Cmds) /\ applied \in Seq(Cmds) /\ batch \in Seq(Cmds)
        /\ queue \in Seq(Cmds) /\ held \in Seq(Cmds)
        /\ Len(order) \in Nat /\ Len(batch) \in Nat /\ Len(queue) \in Nat
        /\ Len(held) \in Nat /\ Len(applied) \in Nat /\ Past \in Nat
        /\ Len(order) = Past + Len(batch) + Len(held) + Len(queue)
    BY Places
  <1>1. /\ sub[c] = "checked" /\ Len(queue) < MaxQueue
        /\ queue' = Append(queue, c) /\ order' = Append(order, c)
        /\ sub' = [sub EXCEPT ![c] = "queued"]
        /\ UNCHANGED <<out, done, batch, held, timer, pc, leaving, stop, finished,
                       watcher, closer, applied, uncertain>>
    BY DEF Enqueue
  <1>2. /\ queue' \in Seq(Cmds) /\ Len(queue') = Len(queue) + 1
        /\ \A i \in 1..Len(queue) : queue'[i] = queue[i]
        /\ queue'[Len(queue) + 1] = c
    BY <1>0, <1>1, AppendProperties
  <1>3. /\ order' \in Seq(Cmds) /\ Len(order') = Len(order) + 1
        /\ \A i \in 1..Len(order) : order'[i] = order[i]
        /\ order'[Len(order) + 1] = c
    BY <1>0, <1>1, AppendProperties
  <1>4. Past' = Past
    BY <1>0, <1>1, <1>2, <1>3 DEF Past
  <1>5. c \notin Range(order) /\ ~Unfit(c) /\ done[c] = <<>>
    BY <1>1 DEF BatcherInv, Accepted, Answered
  <1>6. \A i \in 1..Len(order) : order[i] # c
    BY <1>0, <1>5, InRange
  <1>7. \A d : d \in Range(order') <=> d \in Range(order) \/ d = c
    <2>1. ASSUME NEW d PROVE d \in Range(order') <=> d \in Range(order) \/ d = c
      <3>1. d \in Range(order') <=> \E i \in 1..Len(order') : order'[i] = d
        BY <1>3, InRange
      <3>2. d \in Range(order) <=> \E i \in 1..Len(order) : order[i] = d
        BY <1>0, InRange
      <3>3. \A i \in 1..Len(order') : i \in 1..Len(order) \/ i = Len(order) + 1
        BY <1>0, <1>3
      <3>4. 1..Len(order) \subseteq 1..Len(order') /\ Len(order) + 1 \in 1..Len(order')
        BY <1>0, <1>3
      <3> QED BY <1>3, <3>1, <3>2, <3>3, <3>4
    <2> QED BY <2>1
  <1>8. Typed'
    <2>1. Len(queue') <= MaxQueue
      BY <1>0, <1>1, <1>2, BatcherAssumption
    <2> QED BY <1>1, <1>2, <1>3, <2>1 DEF BatcherInv, Typed, TypeOK
  <1>9. Pipeline'
    <2>1. \A i \in 1..Len(batch) : order'[Past + i] = batch[i]
      <3>1. \A i \in 1..Len(batch) : Past + i \in 1..Len(order) /\ order[Past + i] = batch[i]
        BY Places
      <3> QED BY <1>3, <3>1
    <2>2. \A i \in 1..Len(held) : order'[Past + Len(batch) + i] = held[i]
      <3>1. \A i \in 1..Len(held) : Past + Len(batch) + i \in 1..Len(order)
        BY <1>0
      <3>2. \A i \in 1..Len(held) : order[Past + Len(batch) + i] = held[i]
        BY DEF BatcherInv, Pipeline
      <3> QED BY <1>3, <3>1, <3>2
    <2>3. ASSUME NEW i \in 1..Len(queue')
          PROVE  order'[Past + Len(batch) + Len(held) + i] = queue'[i]
      <3>1. CASE i \in 1..Len(queue)
        <4>1. Past + Len(batch) + Len(held) + i \in 1..Len(order)
          BY <1>0, <3>1
        <4>2. order[Past + Len(batch) + Len(held) + i] = queue[i]
          BY <3>1 DEF BatcherInv, Pipeline
        <4> QED BY <1>2, <1>3, <3>1, <4>1, <4>2
      <3>2. CASE i = Len(queue) + 1
        <4>1. Past + Len(batch) + Len(held) + i = Len(order) + 1
          BY <1>0, <3>2
        <4> QED BY <1>2, <1>3, <3>2, <4>1
      <3> QED BY <1>0, <1>2, <3>1, <3>2
    <2> QED BY <1>0, <1>1, <1>4, <2>1, <2>2, <2>3 DEF Pipeline
  <1>10. Once'
    <2> SUFFICES ASSUME NEW i \in 1..Len(order'), NEW j \in 1..Len(order'),
                        order'[i] = order'[j]
                 PROVE  i = j
      BY DEF Once
    <2>0. Len(order) \in Nat /\ Len(order') = Len(order) + 1
      BY <1>0, <1>3
    <2>1. /\ i \in 1..Len(order) \/ i = Len(order) + 1
          /\ j \in 1..Len(order) \/ j = Len(order) + 1
      BY <2>0
    <2> QED BY <1>3, <1>6, <2>1 DEF BatcherInv, Once
  <1>11. Accepted'
    <2>1. ASSUME NEW d \in Cmds
          PROVE  /\ sub'[d] \in {"queued", "direct", "late"} <=> d \in Range(order')
                 /\ sub'[d] \in {"checked", "queued", "direct", "late"} => ~Unfit(d)
      <3>1. sub \in [Cmds -> {"new", "checked", "queued", "direct", "late", "refused"}]
        BY DEF BatcherInv, Typed, TypeOK
      <3>2. CASE d = c
        BY <1>1, <1>5, <1>7, <3>1, <3>2
      <3>3. CASE d # c
        <4>1. sub'[d] = sub[d] /\ (d \in Range(order') <=> d \in Range(order))
          BY <1>1, <1>7, <3>1, <3>3
        <4> QED BY <4>1 DEF BatcherInv, Accepted
      <3> QED BY <3>2, <3>3
    <2> QED BY <2>1 DEF Accepted, Unfit
  <1>12. Answered'
    <2>1. ASSUME NEW i \in 1..Len(order')
          PROVE  Len(done[order'[i]]) = IF i <= Past THEN 1 ELSE 0
      <3>1. CASE i \in 1..Len(order)
        BY <1>3, <3>1 DEF BatcherInv, Answered
      <3>2. CASE i = Len(order) + 1
        <4>1. ~(i <= Past)
          BY <1>0, <3>2
        <4> QED BY <1>3, <1>5, <3>2, <4>1
      <3>3. Len(order) \in Nat /\ Len(order') = Len(order) + 1
        BY <1>0, <1>3
      <3>4. i \in 1..Len(order) \/ i = Len(order) + 1
        BY <3>3
      <3> QED BY <3>1, <3>2, <3>4
    <2>2. \A d \in Cmds : d \notin Range(order') => done[d] = <<>>
      BY <1>7 DEF BatcherInv, Answered
    <2> QED BY <1>1, <1>4, <2>1, <2>2 DEF Answered
  <1>13. Applied'
    <2>1. ASSUME NEW j \in 1..Len(applied)
          PROVE  \E i \in 1..(Past + Len(batch)) : applied[j] = order'[i]
      <3>1. PICK i \in 1..(Past + Len(batch)) : applied[j] = order[i]
        BY DEF BatcherInv, Applied
      <3>2. i \in 1..Len(order)
        BY <1>0
      <3> QED BY <1>3, <3>1, <3>2
    <2>2. ASSUME NEW d, NEW e, Before(d, e) PROVE Before(d, e)'
      <3>1. DOMAIN order = 1..Len(order) /\ DOMAIN order' = 1..Len(order')
        BY <1>0, <1>3
      <3>2. PICK j, k \in 1..Len(order) : j < k /\ order[j] = d /\ order[k] = e
        BY <2>2, <3>1 DEF Before
      <3>3. j \in 1..Len(order') /\ k \in 1..Len(order') /\ order'[j] = d /\ order'[k] = e
        BY <1>0, <1>3, <3>2
      <3> QED BY <3>1, <3>2, <3>3 DEF Before
    <2>3. \A j, k \in 1..Len(applied) : j < k => Before(applied[j], applied[k])'
      BY <1>1, <2>2 DEF BatcherInv, Applied
    <2>4. \/ Range(batch) \cap Range(applied) = {}
          \/ pc \in {"call", "retry"} /\ Range(batch) \subseteq Range(applied) \cap uncertain
      BY DEF BatcherInv, Applied
    <2> QED BY <1>1, <1>4, <2>1, <2>3, <2>4 DEF Applied
  <1>14. NoneSkipped'
    <2>1. \A i \in 1..Past : i \in 1..Len(order)
      BY <1>0
    <2> QED BY <1>1, <1>3, <1>4, <2>1 DEF BatcherInv, NoneSkipped
  <1>15. Phases' /\ Honest'
    BY <1>1 DEF BatcherInv, Phases, LoopGone, Honest
  <1>16. BatchWellFormed' /\ BatchingTransparent'
    BY <1>1 DEF BatcherInv, BatchWellFormed, BatchingTransparent
  <1> QED BY <1>8, <1>9, <1>10, <1>11, <1>12, <1>13, <1>14, <1>15, <1>16 DEF BatcherInv

\* The first command of the queue, its place and its answer.
LEMMA HeadOfQueue ==
  ASSUME BatcherInv, queue # <<>>
  PROVE  LET p == Past + Len(batch) + Len(held) + 1 IN
         /\ Head(queue) \in Cmds /\ Tail(queue) \in Seq(Cmds)
         /\ Len(Tail(queue)) = Len(queue) - 1
         /\ p \in 1..Len(order) /\ order[p] = Head(queue)
         /\ \A i \in 1..Len(Tail(queue)) : order[p + i] = Tail(queue)[i]
         /\ ~Unfit(Head(queue))
  <1> DEFINE p == Past + Len(batch) + Len(held) + 1
  <1>0. /\ order \in Seq(Cmds) /\ queue \in Seq(Cmds)
        /\ Len(order) \in Nat /\ Len(batch) \in Nat /\ Len(queue) \in Nat
        /\ Len(held) \in Nat /\ Past \in Nat
        /\ Len(order) = Past + Len(batch) + Len(held) + Len(queue)
    BY Places
  <1>1. /\ Head(queue) \in Cmds /\ Tail(queue) \in Seq(Cmds)
        /\ Len(Tail(queue)) = Len(queue) - 1 /\ Head(queue) = queue[1]
        /\ \A i \in 1..Len(Tail(queue)) : Tail(queue)[i] = queue[i + 1]
        /\ 1 \in 1..Len(queue)
    BY <1>0, HeadTailProperties
  <1>2. p \in 1..Len(order) /\ order[p] = Head(queue)
    BY <1>0, <1>1 DEF BatcherInv, Pipeline
  <1>3. ASSUME NEW i \in 1..Len(Tail(queue)) PROVE order[p + i] = Tail(queue)[i]
    <2>1. i + 1 \in 1..Len(queue)
      BY <1>0, <1>1
    <2>2. order[Past + Len(batch) + Len(held) + (i + 1)] = queue[i + 1]
      BY <2>1 DEF BatcherInv, Pipeline
    <2>3. Past + Len(batch) + Len(held) + (i + 1) = p + i
      BY <1>0
    <2> QED BY <1>1, <2>2, <2>3
  <1>4. Head(queue) \in Range(order)
    BY <1>0, <1>2, InRange
  <1>5. ~Unfit(Head(queue))
    BY <1>1, <1>4 DEF BatcherInv, Accepted
  <1> QED BY <1>1, <1>2, <1>3, <1>5

\* A drain answers the first command of the queue.  The loop is through with
\* its batch by then, so the command was never sent.
LEMMA DrainStep ==
  ASSUME BatcherInv, DrainOne
  PROVE  BatcherInv'
  <1> USE DEF submission, loop, shutdown, tigerbeetle
  <1> DEFINE h == Head(queue)
             p == Past + 1
  <1>0. /\ order \in Seq(Cmds) /\ applied \in Seq(Cmds) /\ batch \in Seq(Cmds)
        /\ queue \in Seq(Cmds) /\ held \in Seq(Cmds)
        /\ Len(order) \in Nat /\ Len(queue) \in Nat /\ Past \in Nat
        /\ Len(order) = Past + Len(batch) + Len(held) + Len(queue)
    BY Places
  <1>1. /\ queue # <<>> /\ queue' = Tail(queue)
        /\ done' = [done EXCEPT ![h] = Append(@, Closed)]
        /\ UNCHANGED <<sub, out, batch, held, timer, pc, leaving, stop, finished,
                       watcher, closer, order, applied, uncertain>>
    BY DEF DrainOne
  <1>2. batch = <<>> /\ held = <<>> /\ stop
    BY DEF DrainOne, Draining, BatcherInv, Phases, LoopGone
  <1>3. Len(batch) = 0 /\ Len(held) = 0
    BY <1>2
  <1>4. /\ h \in Cmds /\ queue' \in Seq(Cmds) /\ Len(queue') = Len(queue) - 1
        /\ p \in 1..Len(order) /\ order[p] = h
        /\ \A i \in 1..Len(queue') : order[p + i] = queue'[i]
    <2>1. Past + Len(batch) + Len(held) + 1 = p
      BY <1>0, <1>3
    <2> QED BY <1>1, <2>1, HeadOfQueue
  <1>5. done \in [Cmds -> Seq(Result)] /\ Closed \in Result
    BY DEF BatcherInv, Typed, Closed, Result
  <1>6. done[h] = <<>>
    <2>1. Len(done[order[p]]) = IF p <= Past THEN 1 ELSE 0
      BY <1>4 DEF BatcherInv, Answered
    <2>2. Len(done[h]) = 0
      BY <1>0, <1>4, <2>1
    <2> QED BY <1>4, <1>5, <2>2
  <1> HIDE DEF h
  <1>7. /\ done' \in [Cmds -> Seq(Result)] /\ done'[h] = <<Closed>>
        /\ \A c \in Cmds : c # h => done'[c] = done[c]
    <2>1. done'[h] = Append(<<>>, Closed)
      BY <1>1, <1>4, <1>5, <1>6
    <2> QED BY <1>1, <1>4, <1>5, <2>1
  <1>8. Past' = p
    BY <1>0, <1>1, <1>3, <1>4 DEF Past
  <1>9. Typed'
    <2>1. \A c \in Cmds : Range(done'[c]) \subseteq Result /\ Range(out'[c]) \subseteq Result
      <3>1. out' \in [Cmds -> Seq(Result)]
        BY <1>1 DEF BatcherInv, Typed
      <3> QED BY <1>7, <3>1, InRange
    <2>2. Len(queue') <= MaxQueue
      BY <1>0, <1>4, BatcherAssumption DEF BatcherInv, Typed, TypeOK
    <2> QED BY <1>1, <1>4, <1>7, <2>1, <2>2 DEF BatcherInv, Typed, TypeOK
  <1>10. Pipeline'
    <2>1. \A i \in 1..Len(queue') : order'[Past' + Len(batch') + Len(held') + i] = queue'[i]
      <3>1. Past' + Len(batch') + Len(held') = p
        BY <1>0, <1>1, <1>3, <1>8
      <3> QED BY <1>1, <1>4, <3>1
    <2>2. Past' \in Nat /\ Len(batch') = 0 /\ Len(held') = 0
      BY <1>0, <1>1, <1>3, <1>8
    <2> QED BY <2>1, <2>2 DEF Pipeline
  <1>11. Once' /\ Accepted'
    BY <1>1 DEF BatcherInv, Once, Accepted, Unfit
  <1>12. Answered'
    <2>1. ASSUME NEW i \in 1..Len(order)
          PROVE  Len(done'[order[i]]) = IF i <= p THEN 1 ELSE 0
      <3>1. order[i] \in Cmds
        BY <1>0
      <3>2. CASE i = p
        <4>1. done'[order[i]] = <<Closed>>
          BY <1>4, <1>7, <3>2
        <4>2. i <= p
          BY <1>0, <3>2
        <4> QED BY <4>1, <4>2
      <3>3. CASE i # p
        <4>1. order[i] # h
          BY <1>4, <3>3 DEF BatcherInv, Once
        <4>2. Len(done'[order[i]]) = IF i <= Past THEN 1 ELSE 0
          BY <1>7, <3>1, <4>1 DEF BatcherInv, Answered
        <4>3. Past \in Nat /\ i \in Nat
          BY <1>0
        <4>4. (i <= Past) <=> (i <= p)
          BY <3>3, <4>3
        <4> QED BY <4>2, <4>4
      <3> QED BY <3>2, <3>3
    <2>2. ASSUME NEW c \in Cmds, c \notin Range(order) PROVE done'[c] = <<>>
      <3>1. c # h
        BY <1>0, <1>4, <2>2, InRange
      <3> QED BY <1>7, <2>2, <3>1 DEF BatcherInv, Answered
    <2> QED BY <1>1, <1>8, <2>1, <2>2 DEF Answered
  <1>13. h \notin Range(applied)
    <2> SUFFICES ASSUME h \in Range(applied) PROVE FALSE
      OBVIOUS
    <2>1. PICK j \in 1..Len(applied) : applied[j] = h
      BY <1>0, InRange
    <2>2. PICK i \in 1..(Past + Len(batch)) : h = order[i]
      BY <2>1 DEF BatcherInv, Applied
    <2>3. Past \in Nat /\ i <= Past /\ i \in 1..Len(order)
      BY <1>0, <1>3
    <2>4. i = p
      BY <1>4, <2>2, <2>3 DEF BatcherInv, Once
    <2> QED BY <2>3, <2>4
  <1>14. Applied'
    <2>1. ASSUME NEW j \in 1..Len(applied)
          PROVE  \E i \in 1..(Past' + Len(batch')) : applied[j] = order[i]
      <3>1. PICK i \in 1..(Past + Len(batch)) : applied[j] = order[i]
        BY DEF BatcherInv, Applied
      <3>2. i \in 1..(Past' + Len(batch'))
        BY <1>0, <1>1, <1>3, <1>8
      <3> QED BY <3>1, <3>2
    <2>2. \A j, k \in 1..Len(applied) : j < k => Before(applied[j], applied[k])'
      BY <1>1 DEF BatcherInv, Applied, Before
    <2>3. Range(batch') \cap Range(applied') = {}
      BY <1>1, <1>2 DEF Range
    <2> QED BY <1>1, <2>1, <2>2, <2>3 DEF Applied
  <1>15. NoneSkipped' /\ Phases'
    BY <1>1, <1>2 DEF BatcherInv, NoneSkipped, Phases, LoopGone
  <1>16. Honest'
    <2> SUFFICES ASSUME NEW c \in Cmds
                 PROVE  /\ Closed \in Range(done'[c]) => c \in uncertain \/ c \notin Range(applied)
                        /\ out[c] # <<>> => \/ out[c] = done'[c]
                                            \/ /\ out[c] = <<Closed>> /\ finished
                                               /\ c \notin Range(applied)
      BY <1>1 DEF Honest
    <2>1. CASE c = h
      BY <1>6, <1>13, <2>1 DEF BatcherInv, Honest
    <2>2. CASE c # h
      <3>1. done'[c] = done[c]
        BY <1>7, <2>2
      <3> QED BY <3>1 DEF BatcherInv, Honest
    <2> QED BY <2>1, <2>2
  <1>17. BatchWellFormed'
    BY <1>1 DEF BatcherInv, BatchWellFormed
  <1>18. BatchingTransparent'
    <2> SUFFICES ASSUME NEW c \in Cmds, NEW r \in Range(done'[c]), r.kind = "outcomes"
                 PROVE  r.of = Answer(Events(<<c>>))
      BY DEF BatchingTransparent
    <2>1. CASE c = h
      <3>1. Range(<<Closed>>) = {Closed}
        BY DEF Range
      <3>2. r = Closed
        BY <1>7, <2>1, <3>1
      <3> QED BY <3>2 DEF Closed
    <2>2. CASE c # h
      <3>1. done'[c] = done[c]
        BY <1>7, <2>2
      <3> QED BY <3>1 DEF BatcherInv, BatchingTransparent
    <2> QED BY <2>1, <2>2
  <1> QED BY <1>9, <1>10, <1>11, <1>12, <1>14, <1>15, <1>16, <1>17, <1>18 DEF BatcherInv

\* What the loop receives was never sent.
LEMMA HeadUnsent ==
  ASSUME BatcherInv, queue # <<>>, held = <<>>
  PROVE  Head(queue) \notin Range(applied)
  <1> DEFINE h == Head(queue)
             p == Past + Len(batch) + Len(held) + 1
  <1>0. /\ order \in Seq(Cmds) /\ applied \in Seq(Cmds)
        /\ Len(order) \in Nat /\ Len(batch) \in Nat /\ Len(queue) \in Nat
        /\ Len(held) \in Nat /\ Past \in Nat
        /\ Len(order) = Past + Len(batch) + Len(held) + Len(queue)
    BY Places
  <1>1. p \in 1..Len(order) /\ order[p] = h
    BY HeadOfQueue
  <1> HIDE DEF h
  <1>2. h \notin Range(applied)
    <2> SUFFICES ASSUME h \in Range(applied) PROVE FALSE
      OBVIOUS
    <2>1. PICK j \in 1..Len(applied) : applied[j] = h
      BY <1>0, InRange
    <2>2. PICK i \in 1..(Past + Len(batch)) : h = order[i]
      BY <2>1 DEF BatcherInv, Applied
    <2>3. i < p /\ i \in 1..Len(order)
      BY <1>0
    <2>4. i = p
      BY <1>1, <2>2, <2>3 DEF BatcherInv, Once
    <2> QED BY <2>3, <2>4
  <1> QED BY <1>2 DEF h

\* The loop receives a command and keeps it: in hand, or in the batch.
LEMMA ReceiveStep ==
  ASSUME BatcherInv, Receive
  PROVE  BatcherInv'
  <1> USE DEF submission, loop, shutdown, tigerbeetle
  <1> DEFINE h == Head(queue)
             p == Past + Len(batch) + 1
  <1>0. /\ order \in Seq(Cmds) /\ applied \in Seq(Cmds) /\ batch \in Seq(Cmds)
        /\ queue \in Seq(Cmds) /\ held \in Seq(Cmds)
        /\ Len(order) \in Nat /\ Len(queue) \in Nat /\ Past \in Nat /\ Len(batch) \in Nat
        /\ Len(order) = Past + Len(batch) + Len(held) + Len(queue)
    BY Places
  <1>1. /\ pc = "select" /\ queue # <<>> /\ queue' = Tail(queue)
        /\ UNCHANGED <<sub, out, done, leaving, stop, finished, watcher, closer, order,
                       applied, uncertain>>
    BY DEF Receive
  <1>2. held = <<>> /\ Len(held) = 0
    BY <1>1 DEF BatcherInv, Phases
  <1>3. Range(batch) \cap Range(applied) = {}
    BY <1>1 DEF BatcherInv, Applied
  <1>4. /\ h \in Cmds /\ queue' \in Seq(Cmds) /\ Len(queue') = Len(queue) - 1
        /\ p \in 1..Len(order) /\ order[p] = h
        /\ \A i \in 1..Len(queue') : order[p + i] = queue'[i]
        /\ ~Unfit(h)
    <2>1. Past + Len(batch) + Len(held) + 1 = p
      BY <1>0, <1>2
    <2> QED BY <1>1, <2>1, HeadOfQueue
  <1>5. h \notin Range(applied)
    BY <1>1, <1>2, HeadUnsent
  <1>6. /\ pc' \in {"select", "call"} /\ timer' \in BOOLEAN
        /\ \/ batch' = batch /\ held' = <<h>> /\ pc' = "call"
           \/ batch' = Append(batch, h) /\ held' = <<>> /\ ~MustFlush(h)
    BY DEF Receive, Place
  <1> HIDE DEF h
  <1>7. \/ /\ batch' = batch /\ held' = <<h>> /\ pc' = "call"
           /\ Len(held') = 1 /\ held'[1] = h
        \/ /\ batch' = Append(batch, h) /\ held' = <<>> /\ ~MustFlush(h)
           /\ Len(batch') = Len(batch) + 1 /\ Len(held') = 0
           /\ batch'[Len(batch) + 1] = h
           /\ \A i \in 1..Len(batch) : batch'[i] = batch[i]
    <2>1. CASE batch' = batch /\ held' = <<h>> /\ pc' = "call"
      <3>1. Len(<<h>>) = 1 /\ <<h>>[1] = h
        OBVIOUS
      <3> QED BY <2>1, <3>1
    <2>2. CASE batch' = Append(batch, h) /\ held' = <<>> /\ ~MustFlush(h)
      <3>1. /\ Len(Append(batch, h)) = Len(batch) + 1 /\ Append(batch, h)[Len(batch) + 1] = h
            /\ \A i \in 1..Len(batch) : Append(batch, h)[i] = batch[i]
        <4>1. batch \in Seq(Cmds) /\ h \in Cmds
          BY <1>0, <1>4
        <4> QED BY <4>1, AppendProperties
      <3>2. Len(<<>>) = 0
        OBVIOUS
      <3> QED BY <2>2, <3>1, <3>2
    <2> QED BY <1>6, <2>1, <2>2
  <1>8. /\ batch' \in Seq(Cmds) /\ held' \in Seq(Cmds) /\ Len(batch') \in Nat
        /\ Len(held') <= 1 /\ Len(held') \in Nat
        /\ Len(batch') + Len(held') = Len(batch) + 1 /\ Len(batch') >= Len(batch)
    <2>0. batch \in Seq(Cmds) /\ h \in Cmds /\ Len(batch) \in Nat
      BY <1>0, <1>4
    <2>1. batch' \in Seq(Cmds) /\ held' \in Seq(Cmds)
      <3>1. <<h>> \in Seq(Cmds) /\ <<>> \in Seq(Cmds) /\ Append(batch, h) \in Seq(Cmds)
        BY <2>0, AppendProperties
      <3> QED BY <1>6, <2>0, <3>1
    <2>2. (Len(batch') = Len(batch) /\ Len(held') = 1)
          \/ (Len(batch') = Len(batch) + 1 /\ Len(held') = 0)
      BY <1>7
    <2>3. Len(batch') \in Nat /\ Len(held') <= 1 /\ Len(held') \in Nat
          /\ Len(batch') + Len(held') = Len(batch) + 1 /\ Len(batch') >= Len(batch)
      <3> DEFINE x == Len(batch')
                 y == Len(held')
                 z == Len(batch)
      <3>1. z \in Nat /\ ((x = z /\ y = 1) \/ (x = z + 1 /\ y = 0))
        BY <2>0, <2>2
      <3> HIDE DEF x, y, z
      <3>2. x \in Nat /\ y <= 1 /\ y \in Nat /\ x + y = z + 1 /\ x >= z
        BY <3>1
      <3> QED BY <3>2 DEF x, y, z
    <2> QED BY <2>1, <2>3
  <1>9. Past' = Past
    <2> DEFINE x == Len(batch')
               y == Len(held')
               z == Len(batch)
               q == Len(queue)
               qq == Len(queue')
               o == Len(order)
    <2>1. /\ x \in Nat /\ y \in Nat /\ z \in Nat /\ q \in Nat /\ o \in Nat
          /\ x + y = z + 1 /\ qq = q - 1
      BY <1>0, <1>4, <1>8
    <2>2. Past = o - q - 0 - z /\ Past' = o - qq - y - x
      BY <1>1, <1>2 DEF Past
    <2> HIDE DEF x, y, z, q, qq, o
    <2> QED BY <2>1, <2>2
  <1>10. Typed'
    <2>1. Len(queue') <= MaxQueue
      BY <1>0, <1>4, BatcherAssumption DEF BatcherInv, Typed, TypeOK
    <2> QED BY <1>1, <1>4, <1>6, <1>8, <2>1 DEF BatcherInv, Typed, TypeOK
  <1>11. Pipeline'
    <2>1. ASSUME NEW i \in 1..Len(batch') PROVE order[Past + i] = batch'[i]
      <3>1. \A n \in 1..Len(batch) : order[Past + n] = batch[n]
        BY DEF BatcherInv, Pipeline
      <3>2. CASE batch' = batch
        BY <3>1, <3>2
      <3>3. CASE /\ Len(batch') = Len(batch) + 1 /\ batch'[Len(batch) + 1] = h
                 /\ \A n \in 1..Len(batch) : batch'[n] = batch[n]
        <4>1. i \in 1..Len(batch) \/ i = Len(batch) + 1
          BY <1>0, <3>3
        <4>2. Past + (Len(batch) + 1) = p
          BY <1>0
        <4> QED BY <1>4, <3>1, <3>3, <4>1, <4>2
      <3> QED BY <1>7, <3>2, <3>3
    <2>2. ASSUME NEW i \in 1..Len(held') PROVE order[Past + Len(batch') + i] = held'[i]
      <3> DEFINE n == Len(held')
      <3>0. n \in Nat /\ n <= 1 /\ i \in 1..n
        BY <1>8
      <3> HIDE DEF n
      <3>1. i = 1 /\ n = 1
        BY <3>0
      <3>2. batch' = batch /\ held'[1] = h
        BY <1>7, <3>1 DEF n
      <3> QED BY <1>4, <3>1, <3>2
    <2>3. ASSUME NEW i \in 1..Len(queue')
          PROVE  order[Past + Len(batch') + Len(held') + i] = queue'[i]
      <3>0. /\ Len(batch') \in Nat /\ Len(held') \in Nat /\ Past \in Nat
            /\ Len(batch) \in Nat /\ Len(batch') + Len(held') = Len(batch) + 1
        BY <1>0, <1>8
      <3>1. Past + Len(batch') + Len(held') = p
        BY <3>0
      <3> QED BY <1>4, <3>1
    <2> QED BY <1>0, <1>1, <1>9, <2>1, <2>2, <2>3 DEF Pipeline
  <1>12. Once' /\ Accepted'
    BY <1>1 DEF BatcherInv, Once, Accepted, Unfit
  <1>13. Answered'
    BY <1>1, <1>9 DEF BatcherInv, Answered
  <1>14. Applied'
    <2>1. ASSUME NEW j \in 1..Len(applied)
          PROVE  \E i \in 1..(Past' + Len(batch')) : applied[j] = order[i]
      <3>1. PICK i \in 1..(Past + Len(batch)) : applied[j] = order[i]
        BY DEF BatcherInv, Applied
      <3>2. i \in 1..(Past' + Len(batch'))
        BY <1>0, <1>8, <1>9
      <3> QED BY <3>1, <3>2
    <2>2. \A j, k \in 1..Len(applied) : j < k => Before(applied[j], applied[k])'
      BY <1>1 DEF BatcherInv, Applied, Before
    <2>3. Range(batch') \cap Range(applied) = {}
      <3> SUFFICES ASSUME NEW c \in Range(batch'), c \in Range(applied) PROVE FALSE
        OBVIOUS
      <3>1. PICK i \in 1..Len(batch') : batch'[i] = c
        BY <1>8, InRange
      <3>2. CASE batch' = batch
        BY <1>3, <3>2
      <3>3. CASE /\ Len(batch') = Len(batch) + 1 /\ batch'[Len(batch) + 1] = h
                 /\ \A n \in 1..Len(batch) : batch'[n] = batch[n]
        <4>1. i \in 1..Len(batch) \/ i = Len(batch) + 1
          BY <1>0, <3>3
        <4>2. CASE i \in 1..Len(batch)
          <5>1. batch[i] = c
            BY <3>1, <3>3, <4>2
          <5>2. c \in Range(batch)
            BY <1>0, <4>2, <5>1, InRange
          <5> QED BY <1>3, <5>2
        <4>3. CASE i = Len(batch) + 1
          BY <1>5, <3>1, <3>3, <4>3
        <4> QED BY <4>1, <4>2, <4>3
      <3> QED BY <1>7, <3>2, <3>3
    <2> QED BY <1>1, <2>1, <2>2, <2>3 DEF Applied
  <1>15. NoneSkipped'
    BY <1>1, <1>9 DEF BatcherInv, NoneSkipped
  <1>16. Phases'
    <2>1. ~LoopGone' /\ pc' # "drain" /\ pc' # "exited" /\ pc' # "retry"
      BY <1>6 DEF LoopGone
    <2>2. pc' \notin {"call", "retry"} => held' = <<>>
      BY <1>6
    <2>3. ~LoopGone
      BY <1>1 DEF LoopGone
    <2> QED BY <1>1, <2>1, <2>2, <2>3 DEF BatcherInv, Phases
  <1>17. Honest' /\ BatchingTransparent'
    BY <1>1 DEF BatcherInv, Honest, BatchingTransparent
  <1>18. BatchWellFormed'
    <2>0. Fill(batch) <= MaxBatch /\ \A j, k \in 1..Len(batch) : Op[batch[j]] = Op[batch[k]]
      BY <1>0 DEF BatcherInv, BatchWellFormed
    <2>1. CASE batch' = batch
      BY <2>1 DEF BatcherInv, BatchWellFormed
    <2>2. CASE batch' # batch
      <3>1. /\ batch' = Append(batch, h) /\ ~MustFlush(h)
            /\ Len(batch') = Len(batch) + 1 /\ batch'[Len(batch) + 1] = h
            /\ \A i \in 1..Len(batch) : batch'[i] = batch[i]
        BY <1>7, <2>2
      <3>2. Fill(batch') = Fill(batch) + Size[h] /\ Fill(batch) \in Nat /\ Size[h] \in Nat
        BY <1>0, <1>4, <3>1, EventsAppend, OwnEvents
      <3>3. Fill(batch') <= MaxBatch
        <4>1. CASE batch = <<>>
          <5>1. Fill(batch') = Fill(Append(<<>>, h))
            BY <3>1, <4>1
          <5> QED BY <1>4, <5>1, BatchOfOne
        <4>2. CASE batch # <<>>
          BY <3>1, <3>2, <4>2, BatcherAssumption DEF MustFlush
        <4> QED BY <4>1, <4>2
      <3>4. \A i \in 1..Len(batch) : Op[h] = Op[batch[i]]
        <4> SUFFICES ASSUME NEW i \in 1..Len(batch) PROVE Op[h] = Op[batch[i]]
          OBVIOUS
        <4>1. batch # <<>> /\ 1 \in 1..Len(batch)
          BY <1>0
        <4>2. Op[h] = Op[batch[1]]
          BY <3>1, <4>1 DEF MustFlush
        <4> QED BY <2>0, <4>1, <4>2
      <3>5. \A i \in 1..Len(batch') : i \in 1..Len(batch) \/ i = Len(batch) + 1
        BY <1>0, <3>1
      <3>6. \A j, k \in 1..Len(batch') : Op[batch'[j]] = Op[batch'[k]]
        BY <2>0, <3>1, <3>4, <3>5
      <3>7. DOMAIN batch' = 1..Len(batch')
        BY <1>8
      <3> QED BY <3>3, <3>6, <3>7 DEF BatchWellFormed
    <2> QED BY <2>1, <2>2
  <1> QED BY <1>10, <1>11, <1>12, <1>13, <1>14, <1>15, <1>16, <1>17, <1>18 DEF BatcherInv

\* Every step keeps the invariant.
LEMMA NextInv == BatcherInv /\ [Next]_vars => BatcherInv'
  <1> SUFFICES ASSUME BatcherInv, [Next]_vars PROVE BatcherInv'
    OBVIOUS
  <1>1. CASE UNCHANGED vars
    <2> USE <1>1 DEF vars, submission, loop, shutdown, tigerbeetle, BatcherInv
    <2>1. /\ Pipeline' /\ Once' /\ Answered' /\ BatchWellFormed' /\ BatchingTransparent'
          /\ Past' = Past
      BY NothingMoves
    <2>2. Typed'
      BY DEF Typed, TypeOK
    <2>3. Accepted' /\ Applied' /\ NoneSkipped'
      BY <2>1 DEF Accepted, Unfit, Applied, Before, NoneSkipped
    <2>4. Phases' /\ Honest'
      BY DEF Phases, LoopGone, Honest
    <2> QED BY <2>1, <2>2, <2>3, <2>4
  <1>2. CASE Loop
    BY <1>2, ReceiveStep, LoopIdleStep, CallStep, CallFailsStep DEF Loop
  <1>3. CASE Settling
    BY <1>3, ShutdownStep, DrainStep DEF Settling
  <1>4. CASE Cancel \/ CallClose
    BY <1>4, ShutdownStep
  <1>5. ASSUME NEW c \in Cmds, Caller(c) PROVE BatcherInv'
    BY <1>5, SubmitStep, EnqueueStep, WatchLateStep DEF Caller
  <1> QED BY <1>1, <1>2, <1>3, <1>4, <1>5 DEF Next

-----------------------------------------------------------------------------
(* The promises.                                                           *)

\* Every reachable state of the batcher satisfies the invariant.
LEMMA BatcherInvariant == Spec => []BatcherInv
  BY InitInv, NextInv, PTL DEF Spec

\* SubmitAsync, the loop and the settlers keep to their types; in particular
\* the queue never holds more than batcher.max_queue commands.
THEOREM BatcherTypeCorrect == Spec => []TypeOK
  <1>1. BatcherInv => TypeOK
    BY DEF BatcherInv, Typed
  <1> QED BY <1>1, BatcherInvariant, PTL

\* In somebody's hand are the commands behind the first Past ones.
LEMMA InHandIsRest ==
  ASSUME BatcherInv, NEW i \in 1..Len(order)
  PROVE  order[i] \in InHand <=> i > Past
  <1> DEFINE lb == Len(batch)
             lh == Len(held)
             lq == Len(queue)
             lo == Len(order)
             pb == Past
             ph == Past + lb
             pq == Past + lb + lh
  <1>1. /\ order \in Seq(Cmds) /\ batch \in Seq(Cmds) /\ queue \in Seq(Cmds)
        /\ held \in Seq(Cmds)
        /\ Len(batch) \in Nat /\ Len(queue) \in Nat /\ Len(held) \in Nat /\ Past \in Nat
        /\ Len(order) = Past + Len(batch) + Len(held) + Len(queue)
    BY Places
  <1>2. /\ \A j \in 1..Len(batch) : order[pb + j] = batch[j]
        /\ \A j \in 1..Len(held) : order[ph + j] = held[j]
        /\ \A j \in 1..Len(queue) : order[pq + j] = queue[j]
    BY DEF BatcherInv, Pipeline
  <1>3. InHand = Range(batch) \cup Range(held) \cup Range(queue)
    <2>1. CASE LoopGone
      <3>1. batch = <<>> /\ held = <<>>
        BY <2>1 DEF BatcherInv, Phases, LoopGone
      <3>2. Range(<<>>) = {}
        BY DEF Range
      <3> QED BY <2>1, <3>1, <3>2 DEF InHand
    <2>2. CASE ~LoopGone
      BY <2>2 DEF InHand
    <2> QED BY <2>1, <2>2
  <1>4. /\ ph = pb + lb /\ pq = ph + lh /\ lo = pq + lq
        /\ pb \in Nat /\ ph \in Nat /\ pq \in Nat /\ i \in Nat /\ 1 <= i /\ i <= lo
        /\ lb \in Nat /\ lh \in Nat /\ lq \in Nat /\ lo \in Nat
    BY <1>1
  <1>5. \A m, n \in 1..lo : order[m] = order[n] => m = n
    BY DEF BatcherInv, Once
  <1>6. i \in 1..lo
    OBVIOUS
  <1>7. /\ \A x : x \in Range(batch) <=> \E j \in 1..lb : batch[j] = x
        /\ \A x : x \in Range(held) <=> \E j \in 1..lh : held[j] = x
        /\ \A x : x \in Range(queue) <=> \E j \in 1..lq : queue[j] = x
    BY <1>1, InRange
  <1>8. /\ \A j \in 1..lb : order[pb + j] = batch[j]
        /\ \A j \in 1..lh : order[ph + j] = held[j]
        /\ \A j \in 1..lq : order[pq + j] = queue[j]
    BY <1>2
  <1>9. pb = Past
    OBVIOUS
  <1> HIDE DEF lb, lh, lq, lo, pb, ph, pq
  <1>10. ASSUME order[i] \in InHand PROVE i > pb
    <2>1. CASE order[i] \in Range(batch)
      <3>1. PICK j \in 1..lb : batch[j] = order[i]
        BY <2>1, <1>7
      <3>2. pb + j \in 1..lo
        BY <1>4
      <3>3. order[pb + j] = order[i]
        BY <1>8, <3>1
      <3>4. i = pb + j
        BY <1>5, <1>6, <3>2, <3>3, Zenon
      <3> QED BY <1>4, <3>4
    <2>2. CASE order[i] \in Range(held)
      <3>1. PICK j \in 1..lh : held[j] = order[i]
        BY <2>2, <1>7
      <3>2. ph + j \in 1..lo
        BY <1>4
      <3>3. order[ph + j] = order[i]
        BY <1>8, <3>1
      <3>4. i = ph + j
        BY <1>5, <1>6, <3>2, <3>3, Zenon
      <3> QED BY <1>4, <3>4
    <2>3. CASE order[i] \in Range(queue)
      <3>1. PICK j \in 1..lq : queue[j] = order[i]
        BY <2>3, <1>7
      <3>2. pq + j \in 1..lo
        BY <1>4
      <3>3. order[pq + j] = order[i]
        BY <1>8, <3>1
      <3>4. i = pq + j
        BY <1>5, <1>6, <3>2, <3>3, Zenon
      <3> QED BY <1>4, <3>4
    <2> QED BY <1>3, <1>10, <2>1, <2>2, <2>3
  <1>11. ASSUME i > pb PROVE order[i] \in InHand
    <2>1. CASE i <= ph
      <3> DEFINE k == i - pb
      <3>1. k \in 1..lb /\ pb + k = i
        BY <1>4, <1>11, <2>1
      <3> HIDE DEF k
      <3>2. batch[k] = order[i]
        BY <1>8, <3>1
      <3>3. order[i] \in Range(batch)
        BY <1>7, <3>1, <3>2
      <3> QED BY <1>3, <3>3
    <2>2. CASE i > ph /\ i <= pq
      <3> DEFINE k == i - ph
      <3>1. k \in 1..lh /\ ph + k = i
        BY <1>4, <2>2
      <3> HIDE DEF k
      <3>2. held[k] = order[i]
        BY <1>8, <3>1
      <3>3. order[i] \in Range(held)
        BY <1>7, <3>1, <3>2
      <3> QED BY <1>3, <3>3
    <2>3. CASE i > pq
      <3> DEFINE k == i - pq
      <3>1. k \in 1..lq /\ pq + k = i
        BY <1>4, <2>3
      <3> HIDE DEF k
      <3>2. queue[k] = order[i]
        BY <1>8, <3>1
      <3>3. order[i] \in Range(queue)
        BY <1>7, <3>1, <3>2
      <3> QED BY <1>3, <3>3
    <2>4. i <= ph \/ (i > ph /\ i <= pq) \/ i > pq
      BY <1>4
    <2> QED BY <2>1, <2>2, <2>3, <2>4
  <1> QED BY <1>10, <1>11, <1>9

\* A command that got on the queue is in somebody's hand or has its one answer,
\* by whichever of flush, the drain of the loop and the two settlers got hold
\* of it: written twice or let go without an answer is none.
THEOREM AnsweredOnce == Spec => []ExactlyOneAnswer
  <1>1. ASSUME BatcherInv PROVE ExactlyOneAnswer
    <2> SUFFICES ASSUME NEW c \in Cmds
                 PROVE  Len(done[c]) = IF c \in Range(order) /\ c \notin InHand THEN 1 ELSE 0
      BY DEF ExactlyOneAnswer
    <2>1. order \in Seq(Cmds) /\ Past \in Nat
      BY <1>1, Places
    <2>2. CASE c \in Range(order)
      <3>1. PICK i \in 1..Len(order) : order[i] = c
        BY <2>1, <2>2, InRange
      <3>2. Len(done[c]) = IF i <= Past THEN 1 ELSE 0
        BY <1>1, <3>1 DEF BatcherInv, Answered
      <3>3. c \in InHand <=> i > Past
        BY <1>1, <3>1, InHandIsRest
      <3>4. i <= Past <=> ~(i > Past)
        BY <2>1
      <3> QED BY <2>2, <3>2, <3>3, <3>4
    <2>3. CASE c \notin Range(order)
      <3>1. done[c] = <<>> /\ Len(<<>>) = 0
        BY <1>1, <2>3 DEF BatcherInv, Answered
      <3> QED BY <2>3, <3>1
    <2> QED BY <2>2, <2>3
  <1> QED BY <1>1, BatcherInvariant, PTL

\* ErrClosed, from GiveUp, a drain or watchLate, is never said of a command
\* that TigerBeetle has applied or will apply, a failed call excepted.
THEOREM ClosedNeverLies == Spec => []ClosedIsHonest
  <1>1. ASSUME BatcherInv PROVE ClosedIsHonest
    <2> SUFFICES ASSUME NEW c \in Cmds, Closed \in Range(Reply(c)), c \notin uncertain
                 PROVE  c \notin Range(applied)
      BY DEF ClosedIsHonest
    <2>1. /\ Closed \in Range(done[c]) => c \notin Range(applied)
          /\ out[c] # <<>> => out[c] = done[c] \/ c \notin Range(applied)
      BY <1>1 DEF BatcherInv, Honest
    <2>2. CASE sub[c] = "late" /\ out[c] # done[c]
      <3>1. Range(<<>>) = {}
        BY DEF Range
      <3>2. Reply(c) = out[c]
        BY <2>2 DEF Reply
      <3>3. out[c] # <<>>
        BY <3>1, <3>2
      <3> QED BY <2>1, <2>2, <3>3
    <2>3. CASE ~(sub[c] = "late" /\ out[c] # done[c])
      <3>1. Reply(c) = done[c]
        BY <2>3 DEF Reply
      <3> QED BY <2>1, <3>1
    <2> QED BY <2>2, <2>3
  <1> QED BY <1>1, BatcherInvariant, PTL

\* TigerBeetle applies commands in the order of the queue; until the batcher
\* is told to stop it passes over none.
THEOREM OrderKept == Spec => []OrderWhileRunning
  <1>1. ASSUME BatcherInv PROVE OrderWhileRunning
    <2>0. /\ order \in Seq(Cmds) /\ applied \in Seq(Cmds) /\ batch \in Seq(Cmds)
          /\ Len(order) \in Nat /\ Len(batch) \in Nat /\ Past \in Nat
          /\ \A i \in 1..Len(batch) : /\ Past + i \in 1..Len(order)
                                      /\ order[Past + i] = batch[i] /\ batch[i] \in Cmds
      BY <1>1, Places
    <2>1. DOMAIN order = 1..Len(order) /\ DOMAIN applied = 1..Len(applied)
      BY <2>0
    <2>2. \A j, k \in DOMAIN applied : j < k => Before(applied[j], applied[k])
      BY <1>1, <2>1 DEF BatcherInv, Applied
    <2>3. ASSUME ~stop, NEW c \in Cmds, NEW d \in Cmds, Before(c, d), d \in Range(applied)
          PROVE  \E j, k \in DOMAIN applied : j < k /\ applied[j] = c /\ applied[k] = d
      <3>1. PICK i, n \in 1..Len(order) : i < n /\ order[i] = c /\ order[n] = d
        BY <2>1, <2>3 DEF Before
      <3>2. PICK k \in 1..Len(applied) : applied[k] = d
        BY <2>0, <2>3, InRange
      <3>3. PICK m \in 1..(Past + Len(batch)) : d = order[m]
        BY <1>1, <3>2 DEF BatcherInv, Applied
      <3>4. n = m
        <4>1. m \in 1..Len(order)
          <5>1. Len(order) >= Past + Len(batch)
            <6>1. /\ Len(held) \in Nat /\ Len(queue) \in Nat
                  /\ Len(order) = Past + Len(batch) + Len(held) + Len(queue)
              BY <1>1, Places
            <6> QED BY <2>0, <6>1
          <5> QED BY <2>0, <5>1
        <4> QED BY <1>1, <3>1, <3>3, <4>1 DEF BatcherInv, Once
      <3>5. c \in Range(applied)
        <4>1. CASE i <= Past
          <5>1. i \in 1..Past
            BY <2>0, <4>1
          <5> QED BY <1>1, <2>3, <3>1, <5>1 DEF BatcherInv, NoneSkipped
        <4>2. CASE ~(i <= Past)
          <5> DEFINE a == i - Past
                     b == n - Past
          <5>0. i \in Nat /\ n \in Nat /\ i < n /\ n <= Past + Len(batch)
            BY <3>1, <3>3, <3>4
          <5>1. a \in 1..Len(batch) /\ b \in 1..Len(batch) /\ i = Past + a /\ n = Past + b
            BY <2>0, <4>2, <5>0
          <5> HIDE DEF a, b
          <5>2. batch[a] = c /\ batch[b] = d
            BY <2>0, <3>1, <5>1
          <5>3. c \in Range(batch) /\ d \in Range(batch)
            BY <2>0, <5>1, <5>2, InRange
          <5> QED BY <1>1, <2>3, <5>3 DEF BatcherInv, Applied
        <4> QED BY <4>1, <4>2
      <3>6. PICK j \in 1..Len(applied) : applied[j] = c
        BY <2>0, <3>5, InRange
      <3>7. c # d
        BY <1>1, <3>1 DEF BatcherInv, Once
      <3>8. ~(k < j)
        <4> SUFFICES ASSUME k < j PROVE FALSE
          OBVIOUS
        <4>1. Before(d, c)
          BY <2>1, <2>2, <3>2, <3>6
        <4>2. PICK x, y \in 1..Len(order) : x < y /\ order[x] = d /\ order[y] = c
          BY <2>1, <4>1 DEF Before
        <4>3. x = n /\ y = i
          BY <1>1, <3>1, <4>2 DEF BatcherInv, Once
        <4>4. i < n /\ n < i /\ i \in Int /\ n \in Int
          BY <3>1, <4>2, <4>3
        <4> QED BY <4>4
      <3>9. j # k
        BY <3>2, <3>6, <3>7
      <3>10. j < k
        <4>1. j \in Int /\ k \in Int
          BY <3>2, <3>6
        <4> QED BY <3>8, <3>9, <4>1
      <3> QED BY <2>1, <3>2, <3>6, <3>10
    <2> QED BY <2>2, <2>3 DEF OrderWhileRunning, AppliedInSubmitOrder
  <1> QED BY <1>1, BatcherInvariant, PTL

\* What flush sends is of one operation and within max_batch_size.
THEOREM BatchesWellFormed == Spec => []BatchWellFormed
  <1>1. BatcherInv => BatchWellFormed
    BY DEF BatcherInv
  <1> QED BY <1>1, BatcherInvariant, PTL

\* The outcomes a command gets out of a shared request are the ones it would
\* get alone, whatever its neighbours link or get rejected.
THEOREM BatchingIsTransparent == Spec => []BatchingTransparent
  <1>1. BatcherInv => BatchingTransparent
    BY DEF BatcherInv
  <1> QED BY <1>1, BatcherInvariant, PTL
=============================================================================
