---------------------------- MODULE MCRaftDriver ----------------------------
(* Model-checking instances of RaftDriver.                                 *)
EXTENDS RaftDriver, TLC

\* A fresh member; one recovered with two uncommitted entries; one recovered with
\* a committed entry to replay.
FreshMember == [term |-> 0, log |-> <<>>, commit |-> 0, base |-> 0]
TwoPending == [term |-> 1, log |-> <<1, 1>>, commit |-> 0, base |-> 0]
OneCommitted == [term |-> 1, log |-> <<1>>, commit |-> 1, base |-> 0]

\* Threads are interchangeable; used by the runs that check no liveness.
Symmetry == Permutations(Thread)
=============================================================================
