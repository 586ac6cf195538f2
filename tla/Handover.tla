------------------------------ MODULE Handover ------------------------------
(***************************************************************************)
(* From a published placement to an accepted write: the composition model  *)
(* of tools/scheduler-data-plane-composition.  Brain publishers number the *)
(* placements they publish and fence the committed one; node replicas      *)
(* stage, copy, activate and admit writes, over leader changes, restarts   *)
(* and messages that are delayed, repeated and overtaken.                  *)
(*                                                                         *)
(* Raft is external, as it is to the crate: `elected` and `chosen` say     *)
(* which term was won last and which placement each generation became.     *)
(* A call the code answers with an error leaves its caller unchanged, so   *)
(* it is no step here, except that a rejected stage() has observed a term. *)
(***************************************************************************)
EXTENDS Naturals, Sequences, FiniteSets, Functions

CONSTANTS
    Brain, Shard,
    Node,              \* the nodes whose steps are followed; they meet only through the brains
    Elsewhere,         \* other nodes a placement may name
    Layout,            \* the placements offered to publish_next, [shards -> Seq(nodes)]
    None,
    MaxFaults,         \* bound: leader changes and node restarts together
    MaxGeneration      \* bound: generations

ASSUME LayoutAssumption ==
    \A l \in Layout : DOMAIN l \subseteq Shard /\ \A s \in DOMAIN l : l[s] \in Seq(Node \cup Elsewhere)
ASSUME NoneAssumption ==
    /\ None \notin [term : Nat, generation : Nat]
    /\ None \notin [generation : Nat, assigned_shards : SUBSET Shard]
ASSUME BoundAssumption == MaxFaults \in Nat /\ MaxGeneration \in Nat

VARIABLES
    publisher,   \* [Brain -> BrainPublisher]
    replica,     \* [Node -> NodeReplica]
    sent,        \* placements handed to the nodes so far, deliverable at any time, again and again
    fences,      \* write fences handed to the nodes so far, likewise
    elected,     \* Raft: the last term a brain was elected in
    chosen,      \* Raft: chosen[g] is the placement committed as generation g
    early,       \* history: nodes that staged a placement before Raft had committed it
    copied,      \* history: <<placement, shard>> each node acknowledged since it last restarted
    restarts     \* restarts so far

vars == <<publisher, replica, sent, fences, elected, chosen, early, copied, restarts>>

----------------------------------------------------------------------------
(* PlacementSnapshot and WriteFence.                                       *)

\* Mutant: any placement with a shard is accepted.
well_formed_any(layout) == DOMAIN layout # {}

\* PlacementSnapshot::new accepts a placement with a shard, no empty and no
\* repeating replica list; term and generation are non-zero wherever it is called.
well_formed(layout) ==
    /\ DOMAIN layout # {}
    /\ \A s \in DOMAIN layout : layout[s] # <<>> /\ IsInjective(layout[s])

snapshot(term, generation, layout) ==
    [term |-> term, generation |-> generation,
     assignments |-> [s \in DOMAIN layout |-> Range(layout[s])]]

shards_for(snap, n) == {s \in DOMAIN snap.assignments : n \in snap.assignments[s]}

Fence(term, generation) == [term |-> term, generation |-> generation]

----------------------------------------------------------------------------
(* BrainPublisher.                                                         *)

NewPublisher(role, term, committed) ==
    [role |-> role, term |-> term, last_published_generation |-> committed,
     committed_generation |-> committed, published |-> {}]

\* Both changes of role forget what was published and not committed.
become_leader(p, term) ==
    [p EXCEPT !.term = term, !.role = "Leader", !.published = {},
              !.last_published_generation = p.committed_generation]

step_down(p, term) ==
    [p EXCEPT !.term = term, !.role = "Follower", !.published = {},
              !.last_published_generation = p.committed_generation]

\* Raft elects b in the next term: a publisher that starts from what Raft has
\* committed, then takes the term.
BecomeLeader(b) ==
    /\ elected - 1 + restarts < MaxFaults
    /\ elected' = elected + 1
    /\ publisher' = [publisher EXCEPT ![b] =
          become_leader(NewPublisher("Follower", @.term, Len(chosen)), elected + 1)]
    /\ UNCHANGED <<replica, sent, fences, chosen, early, copied, restarts>>

\* b hears of a term no older than its own, perhaps long after it was deposed.
StepDown(b, term) ==
    /\ term >= publisher[b].term /\ term > 0
    /\ publisher' = [publisher EXCEPT ![b] = step_down(@, term)]
    /\ UNCHANGED <<replica, sent, fences, elected, chosen, early, copied, restarts>>

\* publish_next(): the next generation, in the publisher's own term.
Publish(b, layout) ==
    LET p == publisher[b]
        snap == snapshot(p.term, p.last_published_generation + 1, layout)
    IN  /\ p.role = "Leader"
        /\ p.last_published_generation < MaxGeneration
        /\ well_formed(layout)
        /\ publisher' = [publisher EXCEPT ![b].last_published_generation = snap.generation,
                                          ![b].published = @ \cup {snap}]
        /\ sent' = sent \cup {snap}
        /\ UNCHANGED <<replica, fences, elected, chosen, early, copied, restarts>>

\* Raft commits the next generation, which only the last elected leader can do.
RaftCommits(b, snap) ==
    /\ publisher[b].role = "Leader" /\ publisher[b].term = elected
    /\ snap.generation = Len(chosen) + 1
    /\ chosen' = Append(chosen, snap)
    /\ UNCHANGED <<publisher, replica, sent, fences, elected, early, copied, restarts>>

\* commit(): the publisher learns it, if it still leads the term it published in.
commits(p, snap) == snap.generation = p.committed_generation + 1

Commit(b, snap) ==
    LET p == publisher[b] IN
    /\ p.role = "Leader"
    /\ snap.term = p.term
    /\ commits(p, snap)
    /\ snap \in p.published
    /\ publisher' = [publisher EXCEPT ![b].committed_generation = snap.generation]
    /\ UNCHANGED <<replica, sent, fences, elected, chosen, early, copied, restarts>>

\* Mutant: a fence for whatever was published last.
write_fence_published(p) == Fence(p.term, p.last_published_generation)

\* write_fence(): authority for the committed generation only.
write_fence(p) == Fence(p.term, p.committed_generation)

IssueFence(b) ==
    LET p == publisher[b] IN
    /\ p.role = "Leader"
    /\ p.committed_generation # 0
    /\ fences' = fences \cup {write_fence(p)}
    /\ UNCHANGED <<publisher, replica, sent, elected, chosen, early, copied, restarts>>

\* A leader sends the committed generation again, in its own term.
Republish(b) ==
    LET p == publisher[b] IN
    /\ p.role = "Leader"
    /\ p.committed_generation # 0
    /\ sent' = sent \cup {[chosen[p.committed_generation] EXCEPT !.term = p.term]}
    /\ UNCHANGED <<publisher, replica, fences, elected, chosen, early, copied, restarts>>
----------------------------------------------------------------------------
(* NodeReplica.  staged holds the snapshot and the shards copied so far.   *)

NewReplica == [observed_term |-> 0, active |-> None, staged |-> None, write_fence |-> None]

active_generation(r) == IF r.active = None THEN 0 ELSE r.active.generation

\* Mutant: a new term leaves the old fence in place.
observe_term_keeps_fence(r, term) ==
    IF term > r.observed_term THEN [r EXCEPT !.observed_term = term] ELSE r

\* Mutant: what an older leader had staged stays.
observe_term_keeps_staged(r, term) ==
    IF term > r.observed_term THEN [r EXCEPT !.observed_term = term, !.write_fence = None] ELSE r

\* A higher term revokes write authority and drops what an older leader had staged.
observe_term(r, term) ==
    IF term > r.observed_term
      THEN [r EXCEPT !.observed_term = term, !.write_fence = None,
                     !.staged = IF @ # None /\ @.snapshot.term < term THEN None ELSE @]
      ELSE r

ObserveTerm(n, term) ==
    /\ term >= replica[n].observed_term
    /\ replica' = [replica EXCEPT ![n] = observe_term(@, term)]
    /\ UNCHANGED <<publisher, sent, fences, elected, chosen, early, copied, restarts>>

\* Only a generation past the active and the staged one is staged: anything else
\* is a duplicate or an error.
stages(r, snap) ==
    /\ r.active # None => snap.generation > r.active.generation
    /\ r.staged # None => snap.generation > r.staged.snapshot.generation

\* Raft has committed these contents under this generation.
IsChosen(snap) ==
    snap.generation \in DOMAIN chosen /\ chosen[snap.generation].assignments = snap.assignments

\* stage(): observe the term, then stage or refuse.
Stage(n, snap) ==
    LET r == observe_term(replica[n], snap.term) IN
    /\ snap.term >= replica[n].observed_term
    /\ replica' = [replica EXCEPT ![n] =
          IF stages(r, snap)
            THEN [r EXCEPT !.write_fence = None,
                           !.staged = [snapshot |-> snap, acknowledged_shards |-> {}]]
            ELSE r]
    /\ early' = IF stages(r, snap) /\ ~IsChosen(snap) THEN early \cup {n} ELSE early
    /\ UNCHANGED <<publisher, sent, fences, elected, chosen, copied, restarts>>

\* acknowledge_shard(); copied keeps the copies made for the placement copied last.
AcknowledgeShard(n, shard) ==
    LET r == replica[n]
        snap == r.staged.snapshot IN
    /\ r.staged # None
    /\ shard \in shards_for(snap, n)
    /\ replica' = [replica EXCEPT ![n].staged.acknowledged_shards = @ \cup {shard}]
    /\ copied' = [copied EXCEPT ![n] = {c \in @ : c[1] = snap} \cup {<<snap, shard>>}]
    /\ UNCHANGED <<publisher, sent, fences, elected, chosen, early, restarts>>

ready(r, n) == shards_for(r.staged.snapshot, n) \subseteq r.staged.acknowledged_shards

\* activate(): the whole staged generation at once, without authority to write.
Activate(n) ==
    LET r == replica[n] IN
    /\ r.staged # None
    /\ r.staged.snapshot.term = r.observed_term
    /\ ready(r, n)
    /\ replica' = [replica EXCEPT ![n] =
          [r EXCEPT !.active = [generation |-> r.staged.snapshot.generation,
                                assigned_shards |-> shards_for(r.staged.snapshot, n)],
                    !.staged = None, !.write_fence = None]]
    /\ UNCHANGED <<publisher, sent, fences, elected, chosen, early, copied, restarts>>

\* Mutant: any fence of the active generation is installed.
installs_any_term(r, fence) == r.active # None /\ r.active.generation = fence.generation

installs(r, fence) ==
    /\ fence.term = r.observed_term
    /\ r.active # None /\ r.active.generation = fence.generation

InstallWriteFence(n, fence) ==
    /\ installs(replica[n], fence)
    /\ replica' = [replica EXCEPT ![n].write_fence = fence]
    /\ UNCHANGED <<publisher, sent, fences, elected, chosen, early, copied, restarts>>

\* Mutant: copies in progress survive.
Restart_keeps_copies(n) ==
    /\ elected - 1 + restarts < MaxFaults
    /\ restarts' = restarts + 1
    /\ replica' = [replica EXCEPT ![n].write_fence = None]
    /\ copied' = [copied EXCEPT ![n] = {}]
    /\ UNCHANGED <<publisher, sent, fences, elected, chosen, early>>

\* restart(): generations are durable, copies in progress and authority are not.
Restart(n) ==
    /\ elected - 1 + restarts < MaxFaults
    /\ restarts' = restarts + 1
    /\ replica' = [replica EXCEPT ![n].write_fence = None,
                                  ![n].staged = IF @ = None THEN None
                                                ELSE [@ EXCEPT !.acknowledged_shards = {}]]
    /\ copied' = [copied EXCEPT ![n] = {}]
    /\ UNCHANGED <<publisher, sent, fences, elected, chosen, early>>

accepts_write(r, fence, shard) ==
    /\ r.write_fence = fence
    /\ r.active # None
    /\ r.active.generation = fence.generation
    /\ shard \in r.active.assigned_shards
----------------------------------------------------------------------------
Init ==
    /\ publisher = [b \in Brain |-> 
          NewPublisher(IF b = CHOOSE l \in Brain : TRUE THEN "Leader" ELSE "Follower", 1, 0)]
    /\ replica = [n \in Node |-> NewReplica]
    /\ sent = {} /\ fences = {}
    /\ elected = 1 /\ chosen = <<>>
    /\ early = {} /\ copied = [n \in Node |-> {}] /\ restarts = 0

Next ==
    \/ \E b \in Brain :
          \/ BecomeLeader(b)
          \/ \E t \in 1 .. elected : StepDown(b, t)
          \/ \E l \in Layout : Publish(b, l)
          \/ \E snap \in publisher[b].published : RaftCommits(b, snap)
          \/ \E g \in DOMAIN chosen : Commit(b, chosen[g])
          \/ IssueFence(b)
          \/ Republish(b)
    \/ \E n \in Node :
          \/ \E t \in 1 .. elected : ObserveTerm(n, t)
          \/ \E snap \in sent : Stage(n, snap)
          \/ \E s \in Shard : AcknowledgeShard(n, s)
          \/ Activate(n)
          \/ \E f \in fences : InstallWriteFence(n, f)
          \/ Restart(n)

Spec == Init /\ [][Next]_vars

\* What keeps running on its own (the liveness assumptions of
\* docs/scheduler-data-plane-composition.md): a leader learns of commits and keeps
\* serving the committed generation, its messages keep being delivered, copies
\* finish.  Nothing forces an election, a publication, a commit or a restart.
Serving ==
    \E b \in Brain : (\E g \in DOMAIN chosen : Commit(b, chosen[g])) \/ IssueFence(b) \/ Republish(b)

Delivery ==
    \E n \in Node :
        \/ \E snap \in sent : Stage(n, snap)
        \/ \E s \in Shard : AcknowledgeShard(n, s)
        \/ Activate(n)
        \/ \E f \in fences : InstallWriteFence(n, f)

Fairness == WF_vars(Serving) /\ WF_vars(Delivery)

FairSpec == Spec /\ Fairness
----------------------------------------------------------------------------
(* Properties.                                                             *)

Snapshots == [term : Nat \ {0}, generation : Nat \ {0},
              assignments : UNION {[S -> (SUBSET (Node \cup Elsewhere)) \ {{}}] : S \in (SUBSET Shard) \ {{}}}]

Fences == [term : Nat \ {0}, generation : Nat \ {0}]

Publishers == [role : {"Leader", "Follower"}, term : Nat \ {0}, last_published_generation : Nat,
               committed_generation : Nat, published : SUBSET Snapshots]

Replicas == [observed_term : Nat,
             active : [generation : Nat \ {0}, assigned_shards : SUBSET Shard] \cup {None},
             staged : [snapshot : Snapshots, acknowledged_shards : SUBSET Shard] \cup {None},
             write_fence : Fences \cup {None}]

\* Type invariant.
TypeOK ==
    /\ publisher \in [Brain -> Publishers]
    /\ replica \in [Node -> Replicas]
    /\ sent \subseteq Snapshots /\ fences \subseteq Fences
    /\ elected \in Nat \ {0} /\ chosen \in Seq(Snapshots)
    /\ early \subseteq Node /\ copied \in [Node -> SUBSET (sent \X Shard)] /\ restarts \in Nat

\* A write is accepted only under a fence a leader issued for a committed
\* generation in the node's current term, and, on a node that stages committed
\* placements only, only for shards that generation gives it: no order of delayed
\* placements, fences, leader changes and restarts opens a write to anything else
\* (NodeReplica::accepts_write, lib.rs:463).
WritesFollowPlacement ==
    \A n \in Node, f \in fences, s \in Shard :
        accepts_write(replica[n], f, s) =>
            /\ f.term = replica[n].observed_term
            /\ f.generation \in DOMAIN chosen
            /\ n \notin early => s \in shards_for(chosen[f.generation], n)

\* Every fence ever issued names a committed generation, and a publisher knows only
\* commits that happened, a deposed leader that learns of its own late included
\* (BrainPublisher::commit, lib.rs:173; write_fence, lib.rs:209).
FencesAreCommitted ==
    /\ \A f \in fences : f.generation \in DOMAIN chosen
    /\ \A b \in Brain : publisher[b].committed_generation <= Len(chosen)

\* What a node makes active is the whole of one placement that was published, every
\* shard of it copied for that very placement since the node last restarted: neither
\* a copy a restart interrupted, nor one made for a placement staged earlier, stands
\* in for it (NodeReplica::activate, lib.rs:417; stage, lib.rs:384; restart, lib.rs:474).
NoPartialActivation ==
    [][\A n \in Node :
          replica'[n].active # replica[n].active =>
              \E snap \in sent :
                  /\ replica'[n].active = [generation |-> snap.generation,
                                            assigned_shards |-> shards_for(snap, n)]
                  /\ \A s \in shards_for(snap, n) : <<snap, s>> \in copied[n]]_vars

Authority == INSTANCE WriteAuthority WITH
    term <- [n \in Node |-> replica[n].observed_term],
    generation <- [n \in Node |-> active_generation(replica[n])],
    authority <- [n \in Node |-> replica[n].write_fence],
    committed <- Len(chosen)

\* The handover implements WriteAuthority: terms and generations never go back and
\* authority never outlives the term or generation it was granted for.
ImplementsAuthority == Authority!Spec

Leads(b) == publisher[b].role = "Leader" /\ publisher[b].term = elected

Serves(n, s) == \E f \in fences : accepts_write(replica[n], f, s)

\* Once leadership settles, every node that stages committed placements only ends up
\* accepting writes for each shard the last committed generation gives it: no fence,
\* stale term or half-copied generation blocks it for good.
EventuallyServes ==
    (<>[] \E b \in Brain : Leads(b)) =>
        <>[] \A n \in Node \ early :
                chosen # <<>> => \A s \in shards_for(chosen[Len(chosen)], n) : Serves(n, s)
=============================================================================
