----------------------------- MODULE MCHandover -----------------------------
(* A model-checking instance of Handover: a placement of two shards on n1, *)
(* one that removes n1, and two that PlacementSnapshot::new refuses.       *)
EXTENDS Handover, TLC

CONSTANTS n1, n2, s1, s2

MCLayouts == {s1 :> <<n1>> @@ s2 :> <<n2, n1>>,
              s1 :> <<n2>>,
              s1 :> <<n2, n2>>,
              s1 :> <<n1>> @@ s2 :> <<>>}
=============================================================================
