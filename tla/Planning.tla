------------------------------ MODULE Planning ------------------------------
(***************************************************************************)
(* The pure decisions of the scheduler: which replicas and which leader a  *)
(* shard should have (plan.rs, leadership.rs) and which nodes take part    *)
(* (active_nodes_for_target).  Node ids are numbers, ordered as the code   *)
(* orders its strings.  A slot list is a set of nodes with two functions,  *)
(* since every choice the code makes is settled by a final comparison of   *)
(* ids: the order in which it looks at the candidates does not matter.     *)
(***************************************************************************)
EXTENDS Integers, Sequences, FiniteSets, Functions

CONSTANT None      \* Rust's Option::None

\* The order min_by gives a chain of .cmp().then() comparisons.
Before(k, l) == \E i \in DOMAIN k : k[i] < l[i] /\ \A j \in 1 .. i - 1 : k[j] = l[j]

\* The element of S whose key comes first; keys end in an id, so it is unique.
MinBy(S, key) == CHOOSE x \in S : \A y \in S \ {x} : Before(key[x], key[y])

\* How many elements of S come before x.
rank(S, key, x) == Cardinality({y \in S : Before(key[y], key[x])})

\* The elements of S in the order of their keys.
Sorted(S, key) == [k \in 1 .. Cardinality(S) |-> CHOOSE x \in S : rank(S, key, x) = k - 1]

Flag(b) == IF b THEN 1 ELSE 0

----------------------------------------------------------------------------
(* plan_replicas.                                                          *)

\* The healthy ones of a list of ids, in its order.
retain(ids, healthy) ==
    LET places == {i \in DOMAIN ids : ids[i] \in healthy}
        order == Sorted(places, [i \in places |-> <<i>>])
    IN  [k \in DOMAIN order |-> ids[order[k]]]

domain_count(ids, domain) == Cardinality({domain[n] : n \in Range(ids)})

\* One more replica, while there are less than rf and candidates for it: in a fresh
\* failure domain first, then the least loaded, then the lowest id.
add_replica(chosen, healthy, domain, load, rf) ==
    LET remaining == healthy \ Range(chosen)
        used == {domain[n] : n \in Range(chosen)}
    IN  IF Len(chosen) >= rf \/ remaining = {} THEN chosen
        ELSE Append(chosen, MinBy(remaining, [n \in remaining |-> <<Flag(domain[n] \in used), load[n], n>>]))

\* Fill up to rf.
fill(kept, healthy, domain, load, rf) ==
    LET filled[k \in 0 .. rf] ==
          IF k = 0 THEN kept ELSE add_replica(filled[k - 1], healthy, domain, load, rf)
    IN  filled[rf]

\* Mutant: a shard found on more than rf nodes keeps them all.
truncate_none(chosen, load, rf) == chosen

\* Too many replicas were found: keep the rf least loaded, in a stable order.
truncate(chosen, load, rf) ==
    IF Len(chosen) <= rf THEN chosen
    ELSE LET order == Sorted(DOMAIN chosen, [i \in DOMAIN chosen |-> <<load[chosen[i]], i>>])
         IN  [k \in 1 .. rf |-> chosen[order[k]]]

\* The swaps the rebalancing step considers: <<candidate, position of its victim>>,
\* those that gain a failure domain, or lose none and go to a less loaded node.
swaps(chosen, remaining, domain, load) ==
    {m \in remaining \X DOMAIN chosen :
        LET gain == domain_count([chosen EXCEPT ![m[2]] = m[1]], domain) - domain_count(chosen, domain)
        IN  gain > 0 \/ (gain = 0 /\ load[chosen[m[2]]] > load[m[1]])}

\* At most one replica moves per call, the one with the greatest benefit.
rebalance(chosen, remaining, domain, load, rf) ==
    LET moves == swaps(chosen, remaining, domain, load)
        best == MinBy(moves, [m \in moves |->
            <<0 - domain_count([chosen EXCEPT ![m[2]] = m[1]], domain), load[m[1]] - load[chosen[m[2]]],
              0 - load[chosen[m[2]]], load[m[1]], m[1], chosen[m[2]]>>])
    IN  IF Len(chosen) = rf /\ moves # {} THEN [chosen EXCEPT ![best[2]] = best[1]] ELSE chosen

plan_replicas(current, healthy, domain, load, rf) ==
    LET kept == retain(current, healthy)
        full == fill(kept, healthy, domain, load, rf)
        remaining == healthy \ Range(full)   \* not what truncate drops
    IN  rebalance(truncate(full, load, rf), remaining, domain, load, rf)

----------------------------------------------------------------------------
(* Leader affinity.                                                        *)

\* A policy asks for a region and a provider; None asks for nothing.
wants(asked, has) == asked # None /\ asked = has

preferred_leader_for_policy(policy, replicas, healthy, location, leader_load, current) ==
    LET slots == Range(replicas) \cap healthy
        key == [n \in slots |->
                 <<Flag(~wants(policy.home_region, location[n].region)),
                   Flag(~wants(policy.preferred_cloud_provider, location[n].cloud_provider)),
                   leader_load[n], Flag(n # current), n>>]
    IN  IF slots = {} THEN None ELSE MinBy(slots, key)

\* Affinity, else stickiness, else the first healthy replica.
desired_leader(preferred, replicas, healthy, current) ==
    LET ok == Range(replicas) \cap healthy IN
    CASE preferred \in ok -> preferred
      [] preferred \notin ok /\ current \in ok -> current
      [] {preferred, current} \cap ok = {} /\ ok # {} ->
            Head(retain(replicas, healthy))
      [] ok = {} -> None

----------------------------------------------------------------------------
\* With more healthy nodes than the plan wants, the most loaded stay active.
active_nodes_for_target(healthy, load, target) ==
    IF Cardinality(healthy) <= target THEN healthy
    ELSE {n \in healthy : rank(healthy, [m \in healthy |-> <<0 - load[m], m>>], n) < target}
=============================================================================
