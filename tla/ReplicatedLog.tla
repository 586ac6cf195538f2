--------------------------- MODULE ReplicatedLog ----------------------------
(***************************************************************************)
(* What the brain's Raft group promises the state machines above it: there *)
(* is one log of committed entries, which only grows, and every member has *)
(* applied a prefix of it, which only grows, whatever members restart,     *)
(* are elected or install snapshots.                                       *)
(*                                                                         *)
(* Module BrainRaft implements this specification.                         *)
(***************************************************************************)
EXTENDS Naturals, Sequences, SequencesExt

CONSTANT Member

VARIABLES
    committed,    \* the committed entries some member knows of
    applied       \* [Member -> how many of them it has applied]

vars == <<committed, applied>>

Init == applied \in [Member -> 0 .. Len(committed)]

\* Member i applies further, to the end of what is known to be committed or past it.
Advance(i) ==
    /\ applied'[i] > applied[i]
    /\ applied' = [applied EXCEPT ![i] = applied'[i]]
    /\ IsPrefix(committed, committed')
    /\ applied'[i] <= Len(committed')
    /\ committed' # committed => applied'[i] = Len(committed')

Next == \E i \in Member : Advance(i)

Spec == Init /\ [][Next]_vars
=============================================================================
