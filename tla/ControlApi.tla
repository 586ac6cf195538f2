----------------------------- MODULE ControlApi -----------------------------
(***************************************************************************)
(* The HTTP API of the brain (api.rs) on several members at once: requests *)
(* reach any member, are handled there or forwarded, once, to the member   *)
(* it takes for the leader, while leaders change, waits for commits and    *)
(* forwards time out, members fail closed, crash and restart, and          *)
(* committed entries reach the members' placement maps.                    *)
(*                                                                         *)
(* The members' Raft (BrainRaft, RaftDriver) is reduced to its promise: one *)
(* log whose committed prefix is for ever, appended to by the leader of the *)
(* latest term; a member elected earlier may still believe that it leads.  *)
(* A placement map is the log index of the last assignment in it (0: the   *)
(* empty map).                                                             *)
(***************************************************************************)
EXTENDS Membership, FiniteSets, Sequences

CONSTANTS
    Brain,         \* the members
    Req,           \* HTTP requests
    Workloads,     \* the kinds of request that are made together, [Req -> Kinds \cup {None}]
    None,          \* no leader, no answer, no request
    MaxElections,  \* bound on elections after the first
    MaxFaults,     \* bound on time-outs, lost quorums, failures of durability and crashes, together
    MaxAssignments \* bound on what the scheduler appends

ASSUME BrainAssumption == IsFiniteSet(Brain) /\ Brain # {} /\ None \notin Brain /\ None \notin Req
ASSUME AnswerAssumption == None \notin {"ok", "error"}
ASSUME BoundAssumption == {MaxElections, MaxFaults, MaxAssignments} \subseteq Nat

VARIABLES
    brain,     \* [Brain -> one member's process]
    log,       \* [term, req] entries; req = None for an assignment by the scheduler
    committed, \* its committed prefix
    req,       \* [Req -> where the request is and what it carries]
    answer,    \* [Req -> what its client was told]: "ok" or an error status
    reports,   \* heartbeats the one data-plane node has numbered
    seen,      \* [Brain -> what a poller of that member, as it now runs, keeps]
    faults

vars == <<brain, log, committed, req, answer, reports, seen, faults>>

Fault == faults < MaxFaults /\ faults' = faults + 1

----------------------------------------------------------------------------
(* A member: its view of the leadership, and the state behind its API.     *)

\* A process that starts: the registry and the policies are empty, the snapshot in
\* its store, if there is one, is restored into the map.
NewBrain(term, base, map) ==
    [up |-> TRUE, available |-> TRUE, term |-> term, leads |-> FALSE, leader |-> None,
     commit |-> base, applied |-> base, map |-> map, generation |-> IF base = 0 THEN 0 ELSE 1, bumps |-> FALSE,
     members |-> <<>>]

is_available(b) == brain[b].available

is_leader(b) == is_available(b) /\ brain[b].leads

leader_addr(b) == IF is_available(b) THEN brain[b].leader ELSE None

Running(b) == brain[b].up /\ is_available(b)

LastTerm == CHOOSE t \in {brain[b].term : b \in Brain} : \A b \in Brain : brain[b].term <= t

\* Only the leader of the latest term gets anything committed.
Rules(b) == Running(b) /\ brain[b].leads /\ brain[b].term = LastTerm

Elect(b, kept) ==
    /\ Running(b) /\ ~brain[b].leads /\ LastTerm < MaxElections + 1
    /\ brain' = [brain EXCEPT ![b].term = LastTerm + 1, ![b].leads = TRUE, ![b].leader = b]
    /\ log' = SubSeq(log, 1, kept)
    /\ UNCHANGED <<committed, req, answer, reports, seen, faults>>

\* A leader's append reaches a member of its term or an older one.
Learn(b, l) ==
    /\ Running(b) /\ b # l /\ brain[l].leads /\ brain[l].term >= brain[b].term
    /\ brain' = [brain EXCEPT ![b].term = brain[l].term, ![b].leads = FALSE, ![b].leader = l]
    /\ UNCHANGED <<log, committed, req, answer, reports, seen, faults>>

\* An election timer fires and the election is not won; the term it was tried in, which
\* no leader had, is not counted.
LoseSight(b) ==
    /\ Running(b) /\ ~brain[b].leads /\ brain[b].leader # None
    /\ brain' = [brain EXCEPT ![b].leader = None]
    /\ UNCHANGED <<log, committed, req, answer, reports, seen, faults>>

\* The leader learns first that a quorum holds the next entry.
Commit(b) ==
    /\ Rules(b) /\ committed < Len(log)
    /\ committed' = committed + 1
    /\ brain' = [brain EXCEPT ![b].commit = committed + 1]
    /\ UNCHANGED <<log, req, answer, reports, seen, faults>>

\* The scheduler of the leader assigns a shard (bound: in workloads with a request
\* whose answer depends on the log).
Reconcile(b) ==
    /\ Rules(b) /\ Cardinality({i \in 1 .. Len(log) : log[i].req = None}) < MaxAssignments
    /\ \E r \in Req : req[r].kind \in {"placement", "set_scale"}
    /\ log' = Append(log, [term |-> brain[b].term, req |-> None])
    /\ UNCHANGED <<brain, committed, req, answer, reports, seen, faults>>

\* Placement::assign: the map, under its lock, then the generation.
assign(m, index) ==
    IF m.bumps THEN [m EXCEPT !.generation = @ + 1, !.bumps = FALSE, !.applied = index]
    ELSE [m EXCEPT !.map = index, !.bumps = TRUE]

\* One step of applying the next committed entry: a scale plan is not in the map.
Apply(b) ==
    /\ brain[b].up /\ (is_available(b) \/ brain[b].bumps) /\ brain[b].applied < committed
    /\ LET index == brain[b].applied + 1 IN
       brain' = [brain EXCEPT ![b] = IF log[index].req = None THEN assign(@, index)
                                     ELSE [@ EXCEPT !.applied = index]]
    /\ UNCHANGED <<log, committed, req, answer, reports, seen, faults>>

\* The last assignment among the first n entries.
MapAt(n) ==
    LET assignments == {i \in 1 .. n : log[i].req = None}
    IN  IF assignments = {} THEN 0 ELSE CHOOSE i \in assignments : \A j \in assignments : j <= i

\* Placement::restore_from: both under the lock of the map.
restore_from(m, base) == [m EXCEPT !.map = MapAt(base), !.applied = base, !.generation = @ + 1]

\* A leader's snapshot is installed.
Restore(b, base) ==
    /\ Running(b) /\ ~brain[b].leads /\ ~brain[b].bumps /\ brain[b].applied < base
    /\ brain' = [brain EXCEPT ![b] = restore_from(@, base)]
    /\ UNCHANGED <<log, committed, req, answer, reports, seen, faults>>

----------------------------------------------------------------------------
(* A request: sent to a member, checked, handled or forwarded.             *)

\* "read" is list_nodes or route_key: one answer each from this member's state.
Reads == {"read", "placement"}
Kinds == Reads \cup {"heartbeat", "remove_node", "set_policy", "set_scale"}

ASSUME WorkloadsAssumption == Workloads \subseteq [Req -> Kinds \cup {None}]

Node == 1   \* the one data-plane node that reports

Shards == 1 .. Cardinality(Req)

\* The report numbered seq: distinct reports differ in what the node hosts, and all
\* claim a shard that does not exist.
ReportOf(seq) == Report(seq, {0, seq}, {0, seq}, TRUE)

Unsent(kind) ==
    [pc |-> "unsent", kind |-> kind, at |-> None, origin |-> None, forwarded |-> FALSE,
     report |-> EmptyReport, waits |-> 0, term |-> 0, generation |-> 0]

Goto(r, pc) == req' = [req EXCEPT ![r].pc = pc]

\* The first answer is the one the client sees.
Tell(r, what) == answer' = [answer EXCEPT ![r] = IF @ = None THEN what ELSE @]

Finish(r, what) == req' = [req EXCEPT ![r] = [Unsent(req[r].kind) EXCEPT !.pc = "done"]] /\ Tell(r, what)

\* A client, a sidecar or a load balancer calls member b.  A sidecar numbers its
\* reports (numbered) or posts none.
Send(r, b, numbered) ==
    /\ req[r].pc = "unsent" /\ req[r].kind # None
    /\ reports' = IF req[r].kind = "heartbeat" /\ numbered THEN reports + 1 ELSE reports
    /\ req' = [req EXCEPT ![r] = [@ EXCEPT !.pc = "arrived", !.at = b, !.origin = b,
                 !.report = IF reports' = reports THEN req[r].report ELSE ReportOf(reports')]]
    /\ UNCHANGED <<brain, log, committed, answer, seen, faults>>

\* Mutant: the marker of an earlier hop is not looked at.
may_forward_always(r) == TRUE

may_forward(r) == ~req[r].forwarded

\* Nobody listens at the address: the caller's error, or the forwarder's 502.
Unreachable(r) ==
    /\ req[r].pc = "arrived" /\ ~brain[req[r].at].up
    /\ Finish(r, "error")
    /\ UNCHANGED <<brain, log, committed, reports, seen, faults>>

\* The head of every handler but set_scale: the fail-closed check of the writes
\* (503 unavailable), sanitize_report, and who should answer.
Handle(r) ==
    LET q == req[r] IN
    /\ q.pc = "arrived" /\ brain[q.at].up /\ q.kind # "set_scale"
    /\ IF q.kind \notin Reads /\ ~is_available(q.at) THEN Finish(r, "error")
       ELSE /\ req' = [req EXCEPT ![r].pc = IF ~is_leader(q.at) /\ may_forward(r) THEN "route" ELSE "local",
                                  ![r].report = sanitize_report(@, Shards)]
            /\ UNCHANGED answer
    /\ UNCHANGED <<brain, log, committed, reports, seen, faults>>

Forward(r, l) ==
    /\ req' = [req EXCEPT ![r].pc = "arrived", ![r].at = l, ![r].forwarded = TRUE,
                           ![r].waits = 0, ![r].term = 0]
    /\ UNCHANGED answer

\* leader_addr(), read after is_leader(): to the leader, or here if none is known; a
\* policy is refused then (503 not_leader).
Route(r) ==
    LET q == req[r]
        leader == leader_addr(q.at)
    IN  /\ q.pc = "route"
        /\ IF leader # None THEN Forward(r, leader)
           ELSE IF q.kind = "set_policy" THEN Finish(r, "error")
           ELSE Goto(r, "local") /\ UNCHANGED answer
        /\ UNCHANGED <<brain, log, committed, reports, seen, faults>>

\* The handlers' effect on the member's registry; policies, which nothing else here
\* looks at, are left out.
effect(m, q) ==
    CASE q.kind = "heartbeat" -> [m EXCEPT !.members = heartbeat(@, Node, q.report)]
      [] q.kind = "remove_node" -> [m EXCEPT !.members = drain(@, Node)]
      [] OTHER -> m

Local(r) ==
    LET q == req[r] IN
    /\ q.pc = "local" /\ q.kind # "placement"
    /\ brain' = [brain EXCEPT ![q.at] = effect(@, q)]
    /\ Finish(r, "ok")
    /\ UNCHANGED <<log, committed, reports, seen, faults>>

\* A poller that has this generation of the member's map keeps the map it has.
polled(old, generation, map) ==
    IF old # None /\ old.generation = generation THEN old ELSE [generation |-> generation, map |-> map]

\* Mutant: the map is read before its generation.
Placement_map_first(r) ==
    LET q == req[r] IN
    \/ /\ q.pc = "local" /\ q.kind = "placement"
       /\ req' = [req EXCEPT ![r].pc = "reading", ![r].generation = brain[q.at].map]
       /\ UNCHANGED <<answer, seen>>
    \/ /\ q.pc = "reading"
       /\ seen' = [seen EXCEPT ![q.at] = polled(@, brain[q.at].generation, q.generation)]
       /\ Finish(r, "ok")

\* The answer of placement(): the generation, then the map.
Placement(r) ==
    LET q == req[r] IN
    \/ /\ q.pc = "local" /\ q.kind = "placement"
       /\ req' = [req EXCEPT ![r].pc = "reading", ![r].generation = brain[q.at].generation]
       /\ UNCHANGED <<answer, seen>>
    \/ /\ q.pc = "reading"
       /\ seen' = [seen EXCEPT ![q.at] = polled(@, q.generation, brain[q.at].map)]
       /\ Finish(r, "ok")

ServePlacement(r) == Placement(r) /\ UNCHANGED <<brain, log, committed, reports, faults>>

\* set_scale: propose first, whatever this member believes; an entry of a member that
\* no longer rules reaches nobody.
Propose(r) ==
    LET q == req[r]
        b == q.at
    IN  /\ q.pc = "arrived" /\ brain[b].up /\ q.kind = "set_scale"
        /\ IF ~is_available(b) THEN Finish(r, "error") /\ UNCHANGED log
           ELSE /\ UNCHANGED answer
                /\ IF ~is_leader(b) THEN Goto(r, "refused") /\ UNCHANGED log
                   ELSE IF ~Rules(b) THEN Goto(r, "await") /\ UNCHANGED log
                   ELSE /\ log' = Append(log, [term |-> brain[b].term, req |-> r])
                        /\ req' = [req EXCEPT ![r].pc = "await", ![r].waits = Len(log) + 1,
                                              ![r].term = brain[b].term]
        /\ UNCHANGED <<brain, committed, reports, seen, faults>>

\* Mutant: the leader's own append is enough.
durable_locally(r) == req[r].waits # 0 /\ brain[req[r].at].leads

\* await_commit(): committed, and still in the term it was proposed in.
durable(r) ==
    LET q == req[r] IN
    q.waits # 0 /\ q.waits <= brain[q.at].commit /\ brain[q.at].term = q.term

AwaitTrue(r) ==
    /\ req[r].pc = "await" /\ durable(r)
    /\ Finish(r, "ok")
    /\ UNCHANGED <<brain, log, committed, reports, seen, faults>>

\* Deposed, led again in a later term, or failed closed.
AwaitDeposed(r) ==
    /\ req[r].pc = "await" /\ ~durable(r)
    /\ ~is_leader(req[r].at) \/ (req[r].waits # 0 /\ brain[req[r].at].term # req[r].term)
    /\ Goto(r, "refused")
    /\ UNCHANGED <<brain, log, committed, answer, reports, seen, faults>>

\* COMMIT_TIMEOUT passes first; the entry stays where it is.
AwaitTimesOut(r) ==
    /\ req[r].pc = "await" /\ ~durable(r)
    /\ Goto(r, "refused")
    /\ UNCHANGED <<brain, log, committed, answer, reports, seen, faults>>

\* propose() was false: to the leader this member knows, which may be itself, or
\* 503 not_leader.
Refused(r) ==
    LET leader == leader_addr(req[r].at) IN
    /\ req[r].pc = "refused"
    /\ IF leader # None /\ may_forward(r) THEN Forward(r, leader) ELSE Finish(r, "error")
    /\ UNCHANGED <<brain, log, committed, reports, seen, faults>>

----------------------------------------------------------------------------
(* Faults.                                                                 *)

\* The forwarder's client gives up after three seconds; the leader works on.
ForwardTimesOut(r) ==
    /\ req[r].forwarded /\ answer[r] = None /\ Fault
    /\ Tell(r, "error")
    /\ UNCHANGED <<brain, log, committed, req, reports, seen>>

\* A leader that has not heard from its quorum steps down, in its term.
CheckQuorum(b) ==
    /\ Running(b) /\ brain[b].leads /\ Fault
    /\ brain' = [brain EXCEPT ![b].leads = FALSE, ![b].leader = None]
    /\ UNCHANGED <<log, committed, req, answer, reports, seen>>

\* fail_closed(): sticky until the process restarts.
FailClosed(b) ==
    /\ Running(b) /\ Fault
    /\ brain' = [brain EXCEPT ![b].available = FALSE]
    /\ UNCHANGED <<log, committed, req, answer, reports, seen>>

\* The requests it was handling are lost with it, and so are the answers that it
\* would have relayed.
Crash(b) ==
    /\ brain[b].up /\ Fault
    /\ brain' = [brain EXCEPT ![b].up = FALSE, ![b].available = FALSE, ![b].leads = FALSE]
    /\ LET dies == {r \in Req : req[r].at = b /\ req[r].pc # "arrived"} IN
       /\ req' = [r \in Req |-> IF r \in dies THEN [Unsent(req[r].kind) EXCEPT !.pc = "done"] ELSE req[r]]
       /\ answer' = [r \in Req |-> IF answer[r] = None /\ (r \in dies \/ (req[r].origin = b /\ req[r].forwarded))
                                   THEN "error" ELSE answer[r]]
    /\ UNCHANGED <<log, committed, reports, seen>>

Restart(b, base) ==
    /\ ~brain[b].up
    /\ brain' = [brain EXCEPT ![b] = NewBrain(@.term, base, MapAt(base))]
    /\ seen' = [seen EXCEPT ![b] = None]
    /\ UNCHANGED <<log, committed, req, answer, reports, faults>>

----------------------------------------------------------------------------
\* A running cluster with a leader that the others know.
Init ==
    LET first == CHOOSE b \in Brain : TRUE IN
    /\ brain = [b \in Brain |-> [NewBrain(1, 0, 0) EXCEPT !.leads = (b = first), !.leader = first]]
    /\ log = <<>> /\ committed = 0
    /\ \E w \in Workloads : req = [r \in Req |-> Unsent(w[r])]
    /\ answer = [r \in Req |-> None]
    /\ reports = 0 /\ seen = [b \in Brain |-> None] /\ faults = 0

Serve(r) ==
    \/ Unreachable(r) \/ Handle(r) \/ Route(r) \/ Local(r) \/ ServePlacement(r)
    \/ Propose(r) \/ AwaitTrue(r) \/ AwaitDeposed(r) \/ AwaitTimesOut(r) \/ Refused(r)

Next ==
    \/ \E r \in Req :
          \/ \E b \in Brain, numbered \in BOOLEAN : Send(r, b, numbered)
          \/ Serve(r)
          \/ ForwardTimesOut(r)
    \/ \E b \in Brain :
          \/ \E kept \in committed .. Len(log) : Elect(b, kept)
          \/ \E l \in Brain : Learn(b, l)
          \/ LoseSight(b) \/ Commit(b) \/ Reconcile(b) \/ Apply(b)
          \/ \E base \in 1 .. committed : Restore(b, base)
          \/ CheckQuorum(b) \/ FailClosed(b) \/ Crash(b)
          \/ \E base \in 0 .. brain[b].applied : Restart(b, base)

Spec == Init /\ [][Next]_vars

\* A handler that has begun runs on: it waits only for a commit, for five seconds, and
\* for a forward, which its target answers or its connection refuses.
Fairness == \A r \in Req : WF_vars(Serve(r))

FairSpec == Spec /\ Fairness
----------------------------------------------------------------------------
(* Properties.                                                             *)

\* Type invariant.
TypeOK ==
    /\ \A b \in Brain : /\ brain[b].applied <= committed /\ brain[b].map <= committed
                        /\ brain[b].leader \in Brain \cup {None}
                        /\ DOMAIN brain[b].members \subseteq {Node}
                        /\ \A n \in DOMAIN brain[b].members : brain[b].members[n].hosted_shards \subseteq Shards
    /\ committed <= Len(log)
    /\ answer \in [Req -> {"ok", "error", None}]
    /\ \A r \in Req : req[r].kind \in Kinds \cup {None} /\ req[r].at \in Brain \cup {None}

\* Every request gets an answer: one hop at most, even from a leader that fails to
\* commit to itself, so that no two members send one back and forth (api.rs:52).
EventuallyAnswered == \A r \in Req : (req[r].pc # "unsent") ~> (answer[r] # None)

\* A scale plan whose client was told ok is in the committed log, whoever answered and
\* whatever became of the leaders since (set_scale, api.rs:516).
AckedPlanCommitted ==
    \A r \in Req : req[r].kind = "set_scale" /\ answer[r] = "ok"
                     => \E i \in 1 .. committed : log[i].req = r

\* A scale plan is proposed twice at most, where it arrived and where it was forwarded
\* to, however often waits time out and leaders change (api.rs:516-525).
ProposedTwiceAtMost == \A r \in Req : Cardinality({i \in 1 .. Len(log) : log[i].req = r}) <= 2

\* A poller that skips the map while the generation stays the same is never left with
\* an old map: once it has the member's current generation it has its current map,
\* however its reads fell between the writes (placement.rs:24, api.rs:417).
CurrentGenerationCurrentMap ==
    \A b \in Brain : seen[b] # None /\ brain[b].up /\ ~brain[b].bumps
                        /\ seen[b].generation = brain[b].generation
                      => seen[b].map = brain[b].map

\* What a member keeps of the node's shards is its newest report among those that
\* reached it, or none (a post without a body): heartbeats that overtake each other
\* on different paths do not bring an old one back (membership.rs:77).
NewestReportKept ==
    \A b \in Brain : Node \in DOMAIN brain[b].members =>
        LET info == brain[b].members[Node] IN
        info.hosted_shards \in {{}, ReportOf(info.last_seq).hosted_shards \cap Shards}
=============================================================================
