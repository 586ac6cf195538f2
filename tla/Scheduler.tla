----------------------------- MODULE Scheduler ------------------------------
(***************************************************************************)
(* The reconciliation loop of one brain member (scheduler.rs) over its     *)
(* registry (Membership), the replicated placement (ControlState) and the  *)
(* pure planner (Planning), while nodes heartbeat, move data, go silent    *)
(* and die, operators drain nodes and change the plan, and the member      *)
(* loses and regains leadership or restarts.                               *)
(*                                                                         *)
(* A tick is many steps: the view it took at its start grows old while it  *)
(* proposes shard by shard and waits for each commit.  `log` holds what    *)
(* was proposed and is not yet committed; a wait may time out, and the     *)
(* entry may commit later all the same.                                    *)
(***************************************************************************)
EXTENDS Planning, ControlState

CONSTANTS
    Node,           \* data-plane nodes, numbered in the order of their ids
    ShardCount,
    ReplicationFactor,
    Domain,         \* [Node -> the failure domain it reports]
    Location,       \* [Node -> the [region, cloud_provider] it reports]
    InitialTarget,  \* the target_nodes a fresh cluster is configured with
    Targets,        \* target_nodes an operator may ask for
    Policies,       \* placement policies an operator may set
    InitialHosts,   \* the layouts the data plane may have when the brain first starts
    MaxLog,         \* bound: proposals not yet committed
    MaxEvents       \* bound: operator requests, deaths of nodes, time-outs, wrong
                    \* verdicts and changes of leadership, over all of them

ASSUME NodeAssumption == Node \subseteq Nat /\ None \notin Node /\ IsFiniteSet(Node)
ASSUME ShardAssumption == ShardCount \in Nat \ {0} /\ ReplicationFactor \in Nat \ {0}
ASSUME BoundAssumption == MaxLog \in Nat /\ MaxEvents \in Nat
ASSUME HostsAssumption == InitialHosts \subseteq [Node -> SUBSET (0 .. ShardCount - 1)]
ASSUME LocationAssumption == DOMAIN Domain = Node /\ DOMAIN Location = Node

Shard == 0 .. ShardCount - 1

\* No reconciliation is in progress, and none waits for a commit.
Idle == [awaits |-> 0]

NoPolicy == [home_region |-> None, preferred_cloud_provider |-> None]

VARIABLES
    sm,          \* the state machine: members, assignments, plan (target_nodes)
    policies,    \* [Shard -> policy], this member's own
    leading,     \* cp.is_leader()
    log,         \* proposed, not yet committed commands, oldest first
    tick,        \* the reconciliation in progress, or Idle
    hosts,       \* data plane: [Node -> the shards it really holds]
    alive,       \* data plane: the nodes that run
    events,      \* operator requests and faults so far
    stray        \* history: a proposal has outlived the wait for it, or its leader

vars == <<sm, policies, leading, log, tick, hosts, alive, events, stray>>

\* Something the loop does not control happens.
Event == events < MaxEvents /\ events' = events + 1

----------------------------------------------------------------------------
(* What one tick sees: a view taken once, at its start.                    *)

\* Mutant: a draining node still counts.
Healthy_or_draining(members) == {n \in DOMAIN members : members[n].health \in {"Healthy", "Draining"}}

Healthy(members) == {n \in DOMAIN members : members[n].health = "Healthy"}

replica_load(assignments, n) ==
    Cardinality({s \in DOMAIN assignments : n \in Range(assignments[s].replicas)})

leader_count(assignments, n) ==
    Cardinality({s \in DOMAIN assignments : assignments[s].preferred_leader = n})

\* The nodes, in id order, that report hosting shard s.
observed_replicas(members, s) ==
    LET hosting == {n \in Healthy(members) : s \in members[n].hosted_shards}
    IN  Sorted(hosting, [n \in hosting |-> <<n>>])

\* The last one, in id order, that reports leading it.
observed_leader(members, s) ==
    LET claims == {n \in Healthy(members) : s \in members[n].leading_shards}
    IN  IF claims = {} THEN None ELSE CHOOSE n \in claims : \A m \in claims : m <= n

\* A plan never wants fewer nodes than a shard has replicas.
at_least_rf(target) == IF target > ReplicationFactor THEN target ELSE ReplicationFactor

view(members, assignments, target) ==
    LET healthy == Healthy(members)
        load == [n \in healthy |-> replica_load(assignments, n)]
        active == active_nodes_for_target(healthy, load, at_least_rf(target))
    IN  [shard |-> 0, awaits |-> 0, known |-> DOMAIN members, active |-> active,
         located |-> {n \in active : members[n].located},
         load |-> [n \in active |-> load[n]],
         leader_load |-> [n \in active |-> leader_count(assignments, n)],
         replicas |-> [s \in Shard \ DOMAIN assignments |-> observed_replicas(members, s)],
         leader |-> [s \in Shard |-> observed_leader(members, s)],
         evacuated |-> {n \in DOMAIN members :
                          members[n].health = "Draining" /\ members[n].hosted_shards = {}}]

----------------------------------------------------------------------------
(* The loop.                                                               *)

\* A node that runs is heard from in time, a dead one grows more silent from tick
\* to tick; Kubernetes may know of a dead node's pod, or not.
by_timeout(n) ==
    CASE n \in alive -> "Healthy"
      [] n \notin alive /\ sm.members[n].health \in {"Suspect", "Dead"} -> "Dead"
      [] OTHER -> "Suspect"

Begin(members) ==
    /\ leading /\ tick = Idle
    /\ sm' = [sm EXCEPT !.members = members]
    /\ tick' = view(members, sm.assignments, sm.plan)
    /\ UNCHANGED <<policies, leading, log, hosts, alive, stray>>

\* What Kubernetes may have listed of the nodes, when it answers in time at all: those
\* that run, and a dead one's pod as failed, as still running, or not any more.
Up == Pod(FALSE, "Running", FALSE)
Listed(dead) == [fresh |-> TRUE, pods |-> [n \in Node |-> IF n \in alive THEN Up ELSE dead]]
Expired == [fresh |-> FALSE, pods |-> [n \in Node |-> Up]]
Caches == {Listed(Pod(FALSE, "Failed", FALSE)), Listed(Up), Expired}

\* One round of run(): sweep, then the view reconcile() works from.
BeginTick(cache) ==
    /\ Begin(sweep(sm.members, [n \in DOMAIN sm.members |-> by_timeout(n)], cache))
    /\ UNCHANGED events

\* A delay, a partition or a jump of the wall clock: the nodes of S look silent,
\* or the cache has not noticed that their pods came back.
BeginMisjudged(S, silence, pod) ==
    /\ Event
    /\ Begin(sweep(sm.members, [n \in DOMAIN sm.members |-> IF n \in S THEN silence ELSE by_timeout(n)],
                   [fresh |-> TRUE, pods |-> [n \in S |-> pod]]))

\* propose(): refused at once by a member that does not lead, else appended and
\* waited for; the loop ignores the answer.
proposed(command, t) ==
    IF leading THEN /\ Len(log) < MaxLog
                    /\ log' = Append(log, command)
                    /\ tick' = [t EXCEPT !.awaits = Len(log) + 1]
    ELSE UNCHANGED log /\ tick' = t

current(s) == IF s \in DOMAIN sm.assignments THEN sm.assignments[s].replicas ELSE tick.replicas[s]

\* Mutant: act on a shard whose replicas this member has not all heard of.
unheard_never(s) == FALSE

\* Mutant: hold a shard for every replica that is not a candidate.
unheard_or_unhealthy(s) == ~(Range(current(s)) \subseteq tick.active)

\* A replica unknown to this registry may be alive: hold the shard.
unheard(s) == ~(Range(current(s)) \subseteq tick.known)

\* Mutant: no floor.
shrinks_never(s, desired) == FALSE

\* Too few candidates: do not give up replicas for it.
shrinks(s, desired) ==
    /\ Cardinality(tick.active) < ReplicationFactor
    /\ Len(desired) < ReplicationFactor /\ Len(desired) < Len(current(s))

\* A node that has not said where it is counts as a failure domain of its own, in no
\* region and with no provider.
domain_of == [n \in tick.active |-> IF n \in tick.located THEN <<Domain[n]>> ELSE <<"node", n>>]
location_of ==
    [n \in tick.active |-> IF n \in tick.located THEN Location[n] ELSE [region |-> "", cloud_provider |-> ""]]

plan(s) == plan_replicas(current(s), tick.active, domain_of, tick.load, ReplicationFactor)

minus(x, y) == IF x > y THEN x - y ELSE 0

\* The leader loads without the shard's own previous leader.
without_own(s) ==
    [n \in tick.active |->
        minus(tick.leader_load[n],
              Flag(s \in DOMAIN sm.assignments /\ sm.assignments[s].preferred_leader = n))]

\* The assignment for shard s, once its replicas are chosen.
assignment_for(s, desired) ==
    LET leader_load == without_own(s)
        target == preferred_leader_for_policy(policies[s], desired, tick.active, location_of,
                                              leader_load, tick.leader[s])
    IN  [replicas |-> desired,
         preferred_leader |-> desired_leader(target, desired, tick.active, tick.leader[s]),
         policy |-> policies[s]]

\* What is still needed of the view once shard s is done.
next_shard(s) ==
    IF s + 1 \in Shard THEN [tick EXCEPT !.shard = s + 1]
    ELSE [tick EXCEPT !.shard = s + 1, !.known = {}, !.active = {}, !.located = {}, !.load = <<>>, !.leader_load = <<>>,
                      !.replicas = <<>>, !.leader = <<>>]

\* The rest of the tick sees the loads as if the plan for s were in effect.
advanced(s, a) ==
    [next_shard(s) EXCEPT
        !.load = [n \in DOMAIN @ |->
            minus(@[n], Flag(n \in Range(current(s)))) + Flag(n \in Range(a.replicas))],
        !.leader_load = [n \in DOMAIN @ |-> without_own(s)[n] + Flag(n = a.preferred_leader)]]

changed(s, a) ==
    IF s \in DOMAIN sm.assignments THEN sm.assignments[s] # a ELSE a.replicas # <<>>

ReconcileShard ==
    /\ tick # Idle /\ tick.awaits = 0 /\ tick.shard \in Shard
    /\ LET s == tick.shard
           desired == plan(s)
           a == assignment_for(s, desired)
       IN  IF unheard(s) \/ shrinks(s, desired)
             THEN tick' = next_shard(s) /\ UNCHANGED log
             ELSE IF changed(s, a) THEN proposed(AssignShard(s, a), advanced(s, a))
                  ELSE tick' = advanced(s, a) /\ UNCHANGED log
    /\ UNCHANGED <<sm, policies, leading, hosts, alive, events, stray>>

\* Scale-down: the nodes drained and empty in the view, unless placed on once the
\* shards are done; they are proposed one after the other.
Finalize ==
    /\ tick # Idle /\ tick.awaits = 0 /\ tick.shard \notin Shard
    /\ LET gone == IF tick.shard = ShardCount THEN tick.evacuated \ assigned(sm.assignments)
                   ELSE tick.evacuated
       IN  IF gone = {} THEN tick' = Idle /\ UNCHANGED log
           ELSE \E n \in gone :
                   /\ \A m \in gone : n <= m
                   /\ proposed(ForgetNode(n), [tick EXCEPT !.shard = ShardCount + 1,
                                                           !.evacuated = {m \in gone : m # n}])
    /\ UNCHANGED <<sm, policies, leading, hosts, alive, events, stray>>

\* await_commit gives up; the entry stays in the log.
TimeOut ==
    /\ tick.awaits # 0
    /\ Event
    /\ tick' = [tick EXCEPT !.awaits = 0]
    /\ stray' = TRUE
    /\ UNCHANGED <<sm, policies, leading, log, hosts, alive>>

\* The oldest proposal commits and is applied; whoever waits for it goes on.
Apply ==
    /\ log # <<>>
    /\ sm' = apply_command(sm, Head(log))
    /\ log' = Tail(log)
    /\ tick' = [tick EXCEPT !.awaits = minus(@, 1)]
    /\ UNCHANGED <<policies, leading, hosts, alive, events, stray>>

----------------------------------------------------------------------------
(* The requests of operators, through the API of the leader.               *)

Operator ==
    /\ leading /\ Event
    /\ UNCHANGED <<leading, tick, hosts, alive, stray>>

Drain(n) ==
    /\ Operator
    /\ n \in DOMAIN sm.members
    /\ sm' = [sm EXCEPT !.members = drain(@, n)]
    /\ UNCHANGED <<policies, log>>

SetPolicy(s, policy) ==
    /\ Operator
    /\ policies' = [policies EXCEPT ![s] = policy]
    /\ UNCHANGED <<sm, log>>

SetScale(target) ==
    /\ Operator
    /\ Len(log) < MaxLog
    /\ log' = Append(log, SetScalePlan(at_least_rf(target)))
    /\ UNCHANGED <<sm, policies>>

----------------------------------------------------------------------------
(* The member's own leadership, by Raft.                                   *)

\* Another member leads: of what this one proposed, a prefix survives.
LoseLeadership(kept) ==
    /\ leading /\ Event
    /\ leading' = FALSE
    /\ log' = SubSeq(log, 1, kept)
    /\ stray' = (stray \/ kept > 0)
    /\ tick' = [tick EXCEPT !.awaits = 0]
    /\ UNCHANGED <<sm, policies, hosts, alive>>

\* Its placement, made from a registry of its own.
Follow(s, replicas) ==
    /\ ~leading /\ log = <<>> /\ Event
    /\ sm' = apply_command(sm, AssignShard(s,
                [replicas |-> replicas, preferred_leader |-> Head(replicas), policy |-> NoPolicy]))
    /\ UNCHANGED <<policies, leading, log, tick, hosts, alive, stray>>

GainLeadership ==
    /\ ~leading
    /\ leading' = TRUE
    /\ UNCHANGED <<sm, policies, log, tick, hosts, alive, events, stray>>

\* The leader fails and a member that starts anew takes over: the placement is
\* replayed, the registry and the policies are not.
Failover(kept) ==
    /\ leading /\ Event
    /\ sm' = [sm EXCEPT !.members = <<>>]
    /\ policies' = [s \in Shard |-> NoPolicy]
    /\ log' = SubSeq(log, 1, kept)
    /\ stray' = (stray \/ kept > 0)
    /\ tick' = Idle
    /\ UNCHANGED <<leading, hosts, alive>>

----------------------------------------------------------------------------
(* The data plane.                                                         *)

\* What n hosts once it has followed the placement map; unplaced shards stay.
converged(n) ==
    {s \in DOMAIN sm.assignments : n \in Range(sm.assignments[s].replicas)}
      \cup (hosts[n] \ DOMAIN sm.assignments)

\* n has followed the map or not yet; it claims to lead what it is preferred for.
Heartbeat(n, hosted) ==
    /\ n \in alive
    /\ hosts' = [hosts EXCEPT ![n] = hosted]
    /\ LET claims == {s \in DOMAIN sm.assignments : sm.assignments[s].preferred_leader = n}
           report == sanitize_report(Report(0, hosted, claims, TRUE), Shard)
       IN  sm' = [sm EXCEPT !.members = heartbeat(@, n, report)]
    /\ UNCHANGED <<policies, leading, log, tick, alive, events, stray>>

\* A heartbeat without a body: n is alive and, for all the brain is told, empty.
BareHeartbeat(n) ==
    /\ n \in alive /\ Event
    /\ sm' = [sm EXCEPT !.members = heartbeat(@, n, EmptyReport)]
    /\ UNCHANGED <<policies, leading, log, tick, hosts, alive, stray>>

Die(n) ==
    /\ n \in alive /\ Event
    /\ alive' = alive \ {n}
    /\ UNCHANGED <<sm, policies, leading, log, tick, hosts, stray>>

----------------------------------------------------------------------------
\* A brain without a placement over nodes that may hold data already.
Init ==
    /\ sm = [members |-> <<>>, assignments |-> <<>>, plan |-> at_least_rf(InitialTarget)]
    /\ policies = [s \in Shard |-> NoPolicy]
    /\ leading = TRUE /\ log = <<>> /\ tick = Idle
    /\ hosts \in InitialHosts /\ alive = Node
    /\ events = 0 /\ stray = FALSE

Layouts == {r \in [1 .. ReplicationFactor -> Node] : IsInjective(r)}

Tick == (\E cache \in Caches : BeginTick(cache)) \/ ReconcileShard \/ Finalize

Next ==
    \/ Tick
    \/ \E S \in (SUBSET alive) \ {{}} :
          \/ \E silence \in {"Suspect", "Dead"} : BeginMisjudged(S, silence, Pod(FALSE, "Pending", FALSE))
          \/ BeginMisjudged(S, "Healthy", Pod(FALSE, "Running", TRUE))
    \/ TimeOut
    \/ Apply
    \/ \E n \in Node : Drain(n)
    \/ \E s \in Shard, p \in Policies : SetPolicy(s, p)
    \/ \E t \in Targets : SetScale(t)
    \/ \E kept \in 0 .. Len(log) : LoseLeadership(kept) \/ Failover(kept)
    \/ \E s \in Shard, r \in Layouts : Follow(s, r)
    \/ GainLeadership
    \/ \E n \in Node :
          \/ \E hosted \in {hosts[n], converged(n)} : Heartbeat(n, hosted)
          \/ BareHeartbeat(n) \/ Die(n)

Spec == Init /\ [][Next]_vars

\* The loop has a step to take: one that always changes `tick`.
Runnable == IF tick = Idle THEN leading ELSE tick.awaits = 0 /\ Len(log) < MaxLog

\* The loop runs every second (weak fairness of Tick, its enabledness written out),
\* Raft commits what its leader proposes, some member leads, and every node that runs
\* keeps following the map and reporting.
Fairness ==
    /\ []<>~Runnable \/ []<><<TRUE>>_tick
    /\ WF_vars(Apply)
    /\ WF_vars(GainLeadership)
    /\ \A n \in Node : WF_vars(Heartbeat(n, converged(n)))

FairSpec == Spec /\ Fairness
----------------------------------------------------------------------------
(* Properties.                                                             *)

Assignments == [replicas : Seq(Node), preferred_leader : Node \cup {None}, policy : Policies \cup {NoPolicy}]

\* Type invariant.
TypeOK ==
    /\ DOMAIN sm.members \subseteq Node
    /\ \A n \in DOMAIN sm.members : sm.members[n].health \in Health
                                 /\ sm.members[n].leading_shards \subseteq sm.members[n].hosted_shards
                                 /\ sm.members[n].hosted_shards \subseteq Shard
    /\ DOMAIN sm.assignments \subseteq Shard
    /\ \A s \in DOMAIN sm.assignments : sm.assignments[s] \in Assignments
    /\ hosts \in [Node -> SUBSET Shard] /\ alive \subseteq Node /\ stray \in BOOLEAN
    /\ Len(log) <= MaxLog /\ events \in 0 .. MaxEvents

\* What is placed is usable: replicas are different nodes, as many as there should be
\* at most, and the preferred leader is one of them, whatever the nodes claimed to
\* host when the placement was first made (plan.rs:37, leadership.rs:85).
WellPlaced ==
    \A s \in DOMAIN sm.assignments :
        LET a == sm.assignments[s] IN
        /\ IsInjective(a.replicas)
        /\ Len(a.replicas) \in 1 .. ReplicationFactor
        /\ a.preferred_leader \in Range(a.replicas)

\* While no proposal outlives its time-out or its leader, no commit takes replicas
\* away without putting as many in their place: not after a fail-over that emptied the
\* registry, not when every node looks dead at once, not while a drain proceeds
\* (the floor of scheduler.rs:214 and the hold of scheduler.rs:189).
NeverShrinks ==
    [][~stray' => \A s \in DOMAIN sm.assignments :
          Len(sm'.assignments[s].replicas) >= Len(sm.assignments[s].replicas)]_vars

\* While none is stray, no commit takes a shard off a node this leader has not heard
\* of: after a fail-over the replicas stay where they are until their nodes have
\* reported (scheduler.rs:189).  A member that follows applies what the registry of
\* another one has decided.
OnlyKnownReplicasMove ==
    [][leading /\ ~stray' => \A s \in DOMAIN sm.assignments :
          Range(sm.assignments[s].replicas) \ Range(sm'.assignments[s].replicas) \subseteq DOMAIN sm.members]_vars

\* No node, the last one included, leaves the registry while a shard is placed on it,
\* however old the proposal to forget it is (apply_command, cluster.rs:123): only a
\* fail-over, which starts from a registry without nodes, loses it.
NoAssignedNodeForgotten ==
    [][\A n \in DOMAIN sm.members \ DOMAIN sm'.members :
          (\E kept \in 0 .. Len(log) : Failover(kept)) \/ n \notin assigned(sm'.assignments)]_vars

\* status(): no shard is unplaced, under-replicated, without a leader or on a node
\* that is not healthy.
placement_ready ==
    /\ DOMAIN sm.assignments = Shard
    /\ \A s \in Shard : /\ Len(sm.assignments[s].replicas) >= ReplicationFactor
                        /\ sm.assignments[s].preferred_leader # None
                        /\ Range(sm.assignments[s].replicas) \subseteq Healthy(sm.members)

Enough == Cardinality(Healthy(sm.members)) >= ReplicationFactor

\* With enough healthy nodes, and once every replica's node has been heard of, every
\* shard ends up fully replicated on healthy nodes: no death, drain, time-out, wrong
\* verdict or change of leadership leaves one stuck (scheduler.rs:16-25).
Heals == <>[](Enough /\ assigned(sm.assignments) \subseteq DOMAIN sm.members) => <>[]placement_ready

\* With enough healthy nodes every drain ends: the node is evacuated and forgotten,
\* unless it died (scheduler.rs:323, the scale-down finalize).
DrainsEnd ==
    \A n \in Node :
        <>[](Enough /\ n \in alive) =>
            [](n \in DOMAIN sm.members /\ sm.members[n].health = "Draining"
                 => <>(n \notin DOMAIN sm.members))

\* "a genuinely failed node stays KNOWN as Dead, so real failures still reconcile"
\* (scheduler.rs:187): enough healthy nodes are all it takes to heal.
FailuresReconcile == <>[]Enough => <>[]placement_ready
=============================================================================
