--------------------------- MODULE WriteAuthority ---------------------------
(***************************************************************************)
(* What write admission promises, node by node, whatever is delivered to   *)
(* the node and in which order: its leader term and its active generation  *)
(* never go back, it holds write authority only for its current term and   *)
(* generation, authority is granted only for a generation that Raft has    *)
(* committed, and every change of term or generation takes it away.        *)
(*                                                                         *)
(* Module Handover implements this specification.                          *)
(***************************************************************************)
EXTENDS Naturals

CONSTANTS Node, None

VARIABLES
    term,         \* [Node -> the leader term the node has observed]
    generation,   \* [Node -> the generation it has active, 0 before the first]
    authority,    \* [Node -> None, or the term and generation writes must carry]
    committed     \* how many generations Raft has committed

vars == <<term, generation, authority, committed>>

Init ==
    /\ term = [n \in Node |-> 0]
    /\ generation = [n \in Node |-> 0]
    /\ authority = [n \in Node |-> None]
    /\ committed = 0

Commit ==
    /\ committed' = committed + 1
    /\ UNCHANGED <<term, generation, authority>>

\* Node n loses its authority and may move on to a later term or generation.
Revoke(n) ==
    /\ term' = [term EXCEPT ![n] = term'[n]] /\ term'[n] >= term[n]
    /\ generation' = [generation EXCEPT ![n] = generation'[n]] /\ generation'[n] >= generation[n]
    /\ authority' = [authority EXCEPT ![n] = None]
    /\ UNCHANGED committed

\* Node n may accept writes of its term and generation.
Grant(n) ==
    /\ generation[n] \in 1 .. committed
    /\ authority' = [authority EXCEPT ![n] = [term |-> term[n], generation |-> generation[n]]]
    /\ UNCHANGED <<term, generation, committed>>

Next == Commit \/ \E n \in Node : Revoke(n) \/ Grant(n)

Spec == Init /\ [][Next]_vars
=============================================================================
