---------------------------- MODULE MCScheduler -----------------------------
(* Model-checking instances of Scheduler.                                  *)
EXTENDS Scheduler

\* Nodes 1 and 2 share a failure domain.
MCDomain == [n \in Node |-> IF n = 2 THEN 1 ELSE n]

MCLocation == [n \in Node |-> [region |-> IF n = 1 THEN "r1" ELSE "r2", cloud_provider |-> "c1"]]

\* Nothing hosted, and every shard on more nodes than it needs.
MCHosts == {[n \in Node |-> IF n <= k THEN Shard ELSE {}] : k \in {0, ReplicationFactor + 1}}

MCPolicies == {[home_region |-> "r2", preferred_cloud_provider |-> None]}
=============================================================================
