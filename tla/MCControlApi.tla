---------------------------- MODULE MCControlApi ----------------------------
(* Model-checking instance of ControlApi.                                  *)
EXTENDS ControlApi

CONSTANTS r1, r2

Both(a, b) == [r \in Req |-> IF r = r1 THEN a ELSE b]

\* Heartbeats meet heartbeats and drains; the other kinds share only the log.
MCWorkloads ==
    {Both("heartbeat", "heartbeat"), Both("heartbeat", "remove_node")}
      \cup {Both(kind, None) : kind \in {"set_scale", "set_policy", "placement", "read"}}

=============================================================================
