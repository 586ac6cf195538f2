---------------------------- MODULE ControlState ----------------------------
(***************************************************************************)
(* The replicated state machine of the brain (cluster.rs, placement.rs):   *)
(* the placement map, the scale plan and the removal of nodes, changed     *)
(* only by committed commands.  A state machine is a record with fields    *)
(*    members      the member's registry (Membership)                      *)
(*    assignments  a function from the shards placed to their assignments  *)
(*    plan         the scale plan                                          *)
(***************************************************************************)
EXTENDS Membership, Sequences, Functions

\* Command::AssignShard, ::SetScalePlan, ::ForgetNode.
AssignShard(shard, assignment) == [type |-> "AssignShard", shard |-> shard, assignment |-> assignment]
SetScalePlan(plan) == [type |-> "SetScalePlan", plan |-> plan]
ForgetNode(n) == [type |-> "ForgetNode", node |-> n]

\* Placement::assign.
assign(assignments, shard, assignment) ==
    [s \in DOMAIN assignments \cup {shard} |-> IF s = shard THEN assignment ELSE assignments[s]]

assigned(assignments) == UNION {Range(assignments[s].replicas) : s \in DOMAIN assignments}

\* Mutant: the apply boundary trusts whoever proposed the removal.
still_assigned_never(sm, n) == FALSE

\* A node may report itself evacuated before the assignment that removes it commits.
still_assigned(sm, n) == n \in assigned(sm.assignments)

apply_command(sm, command) ==
    CASE command.type = "AssignShard" ->
           [sm EXCEPT !.assignments = assign(@, command.shard, command.assignment)]
      [] command.type = "SetScalePlan" -> [sm EXCEPT !.plan = command.plan]
      [] command.type = "ForgetNode" ->
           IF still_assigned(sm, command.node) THEN sm
           ELSE [sm EXCEPT !.members = forget(@, command.node)]
=============================================================================
