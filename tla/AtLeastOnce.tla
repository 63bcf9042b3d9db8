---------------------------- MODULE AtLeastOnce ----------------------------
(***************************************************************************)
(* What the sink promises its users, whatever happens to its processes: a  *)
(* command is never lost.  The command topics are append-only logs.  A     *)
(* record is settled once it has been applied (or found unfit for          *)
(* application) and everything it must publish has been acknowledged.  The *)
(* group's committed offset is the point consumption restarts from, so it  *)
(* may only ever stand where everything below it is settled.               *)
(*                                                                         *)
(* A committed offset may move backwards: records are then processed       *)
(* again, which "at least once" allows.                                    *)
(***************************************************************************)
EXTENDS Naturals

CONSTANTS Partitions,   \* topic partitions of the command topics
          Log           \* Log[p]: the offsets at which p holds a record

VARIABLES settled,      \* settled[p]: offsets whose processing is final
          committed     \* committed[p]: the group's committed offset

vars == <<settled, committed>>

SafeAt(p, w) == \A o \in Log[p] : o < w => o \in settled[p]

TypeOK ==
    /\ settled \in [Partitions -> SUBSET Nat]
    /\ committed \in [Partitions -> Nat]

Init ==
    /\ settled = [p \in Partitions |-> {}]
    /\ committed = [p \in Partitions |-> 0]

Settle(p, o) ==
    /\ settled' = [settled EXCEPT ![p] = @ \cup {o}]
    /\ UNCHANGED committed

\* One OffsetCommit request moves the offsets of any number of partitions.
Commit ==
    /\ committed' \in [Partitions -> Nat]
    /\ \A p \in Partitions :
          committed'[p] # committed[p] => SafeAt(p, committed'[p])
    /\ UNCHANGED settled

Next == Commit \/ \E p \in Partitions : \E o \in Log[p] : Settle(p, o)

Spec == Init /\ [][Next]_vars

\* No record below the committed offset was skipped: a restart, which begins
\* at the committed offset, loses nothing.
NoLoss == \A p \in Partitions : SafeAt(p, committed[p])
=============================================================================
