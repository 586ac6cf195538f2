--------------------------- MODULE HandoverProofs ---------------------------
(***************************************************************************)
(* Handover keeps its types, fences only committed generations, activates  *)
(* only what it has copied, and implements WriteAuthority, for every set   *)
(* of brains, nodes, shards and placements and every bound.                *)
(***************************************************************************)
EXTENDS Handover, TLAPS

\* Raft numbers what it commits.
ChosenNumbered == \A g \in DOMAIN chosen : chosen[g].generation = g

\* A node stages only what comes after its active generation.
Ahead(r) == r.staged # None => r.staged.snapshot.generation > active_generation(r)

\* A node's authority is of its current term.
Current(r) == r.write_fence # None => r.write_fence.term = r.observed_term

\* What node n has staged and made active is what Raft committed.
Committed(n, r) ==
    /\ r.staged # None => IsChosen(r.staged.snapshot)
    /\ r.active # None => /\ r.active.generation \in DOMAIN chosen
                          /\ r.active.assigned_shards = shards_for(chosen[r.active.generation], n)

\* What replica r counts as copied are the copies c made for what it has staged,
\* which was published.
CopiesMade(r, c) ==
    r.staged # None => /\ r.staged.snapshot \in sent
                       /\ \A s \in r.staged.acknowledged_shards : <<r.staged.snapshot, s>> \in c

ReplicaInv ==
    \A n \in Node : /\ Ahead(replica[n]) /\ Current(replica[n]) /\ CopiesMade(replica[n], copied[n])
                    /\ n \notin early => Committed(n, replica[n])

HandoverInv == TypeOK /\ FencesAreCommitted /\ ChosenNumbered /\ ReplicaInv

----------------------------------------------------------------------------
(* Types of the operators.                                                 *)

\* PlacementSnapshot::new: what it accepts is a snapshot.
LEMMA SnapshotType ==
    ASSUME NEW layout \in Layout, well_formed(layout), NEW t \in Nat \ {0}, NEW g \in Nat \ {0}
    PROVE  snapshot(t, g, layout) \in Snapshots
<1>1. DOMAIN layout \subseteq Shard /\ DOMAIN layout # {}
  BY LayoutAssumption DEF well_formed
<1>2. ASSUME NEW s \in DOMAIN layout PROVE Range(layout[s]) \in (SUBSET (Node \cup Elsewhere)) \ {{}}
  <2>1. layout[s] \in Seq(Node \cup Elsewhere) /\ layout[s] # <<>>
    BY LayoutAssumption DEF well_formed
  <2>2. Len(layout[s]) \in Nat \ {0} /\ DOMAIN layout[s] = 1 .. Len(layout[s])
    BY <2>1
  <2>3. 1 \in DOMAIN layout[s] /\ \A i \in DOMAIN layout[s] : layout[s][i] \in Node \cup Elsewhere
    BY <2>1, <2>2
  <2> QED BY <2>3 DEF Range
<1>3. [s \in DOMAIN layout |-> Range(layout[s])] \in [DOMAIN layout -> (SUBSET (Node \cup Elsewhere)) \ {{}}]
  BY <1>2
<1> QED BY <1>1, <1>3 DEF snapshot, Snapshots

\* observe_term: a replica of the later of the two terms.
LEMMA ObserveTerm_Type ==
    ASSUME NEW r \in Replicas, NEW t \in Nat
    PROVE  /\ observe_term(r, t) \in Replicas
           /\ observe_term(r, t).observed_term >= r.observed_term
           /\ observe_term(r, t).active = r.active
           /\ observe_term(r, t).staged \in {None, r.staged}
           /\ observe_term(r, t) = r \/ observe_term(r, t).write_fence = None
<1> DEFINE r1 == [r EXCEPT !.observed_term = t]
           r2 == [r1 EXCEPT !.write_fence = None]
           keeps == IF r.staged # None /\ r.staged.snapshot.term < t THEN None ELSE r.staged
           r3 == [r2 EXCEPT !.staged = keeps]
<1>1. r1 \in Replicas /\ r1.observed_term = t /\ r1.active = r.active /\ r1.staged = r.staged
  BY DEF Replicas
<1>2. keeps \in {None, r.staged}
  OBVIOUS
<1> HIDE DEF r1, keeps
<1>3. r2 \in Replicas /\ r2.observed_term = t /\ r2.active = r.active /\ r2.staged = r.staged
        /\ r2.write_fence = None
  BY <1>1 DEF Replicas
<1> HIDE DEF r2
<1>4. r3 \in Replicas /\ r3.observed_term = t /\ r3.active = r.active /\ r3.staged = keeps
        /\ r3.write_fence = None
  BY <1>2, <1>3 DEF Replicas
<1>5. observe_term(r, t) = IF t > r.observed_term THEN r3 ELSE r
  BY DEF observe_term, r3, r2, r1, keeps
<1>6. r.observed_term \in Nat
  BY DEF Replicas
<1> HIDE DEF r3
<1> QED BY <1>2, <1>4, <1>5, <1>6

\* Both changes of role of a publisher.
LEMMA RoleChangeType ==
    ASSUME NEW p \in Publishers, NEW t \in Nat \ {0}
    PROVE  become_leader(p, t) \in Publishers /\ step_down(p, t) \in Publishers
<1> DEFINE p1 == [p EXCEPT !.term = t]
           p2 == [p1 EXCEPT !.role = "Leader"]
           q2 == [p1 EXCEPT !.role = "Follower"]
           p3 == [p2 EXCEPT !.published = {}]
           q3 == [q2 EXCEPT !.published = {}]
           p4 == [p3 EXCEPT !.last_published_generation = p.committed_generation]
           q4 == [q3 EXCEPT !.last_published_generation = p.committed_generation]
<1>0. p.committed_generation \in Nat
  BY DEF Publishers
<1>1. p1 \in Publishers
  BY DEF Publishers
<1> HIDE DEF p1
<1>2. p2 \in Publishers /\ q2 \in Publishers
  BY <1>1 DEF Publishers
<1> HIDE DEF p2, q2
<1>3. p3 \in Publishers /\ q3 \in Publishers
  BY <1>2 DEF Publishers
<1> HIDE DEF p3, q3
<1>4. p4 \in Publishers /\ q4 \in Publishers
  BY <1>0, <1>3 DEF Publishers
<1> QED BY <1>4 DEF become_leader, step_down, p4, q4, p3, q3, p2, q2, p1

\* A node is given shards that exist.
LEMMA ShardsForType ==
    ASSUME NEW snap \in Snapshots, NEW n
    PROVE  shards_for(snap, n) \in SUBSET Shard
  BY DEF shards_for, Snapshots

----------------------------------------------------------------------------
(* Types.                                                                  *)

\* Every step of a publisher keeps the types.
LEMMA PublisherStepType ==
    ASSUME TypeOK, FencesAreCommitted, NEW b \in Brain,
           \/ BecomeLeader(b)
           \/ \E t \in 1 .. elected : StepDown(b, t)
           \/ \E l \in Layout : Publish(b, l)
           \/ \E snap \in publisher[b].published : RaftCommits(b, snap)
           \/ \E g \in DOMAIN chosen : Commit(b, chosen[g])
           \/ IssueFence(b)
           \/ Republish(b)
    PROVE  TypeOK'
<1> USE DEF TypeOK
<1>0. publisher[b] \in Publishers /\ Len(chosen) \in Nat
  OBVIOUS
<1>a. ASSUME sent \subseteq sent' PROVE copied \in [Node -> SUBSET (sent' \X Shard)]
  BY <1>a
<1>1. CASE BecomeLeader(b)
  <2>0. NewPublisher("Follower", publisher[b].term, Len(chosen)) \in Publishers
    BY <1>0 DEF NewPublisher, Publishers
  <2>1. become_leader(NewPublisher("Follower", publisher[b].term, Len(chosen)), elected + 1) \in Publishers
    BY <2>0, RoleChangeType
  <2> QED BY <1>1, <2>1 DEF BecomeLeader
<1>2. CASE \E t \in 1 .. elected : StepDown(b, t)
  <2>1. PICK t \in 1 .. elected : StepDown(b, t) BY <1>2
  <2>2. step_down(publisher[b], t) \in Publishers
    BY <1>0, RoleChangeType
  <2> QED BY <2>1, <2>2 DEF StepDown
<1>3. CASE \E l \in Layout : Publish(b, l)
  <2>1. PICK l \in Layout : Publish(b, l) BY <1>3
  <2> DEFINE snap == snapshot(publisher[b].term, publisher[b].last_published_generation + 1, l)
  <2>2. publisher[b].term \in Nat \ {0} /\ publisher[b].last_published_generation + 1 \in Nat \ {0}
    BY <1>0 DEF Publishers
  <2>3. snap \in Snapshots
    BY <2>1, <2>2, SnapshotType DEF Publish
  <2>4. snap.generation \in Nat
    BY <2>3 DEF Snapshots
  <2> HIDE DEF snap
  <2>5. [publisher[b] EXCEPT !.last_published_generation = snap.generation,
                             !.published = @ \cup {snap}] \in Publishers
    BY <1>0, <2>3, <2>4 DEF Publishers
  <2>6. /\ publisher' = [publisher EXCEPT ![b] = [publisher[b] EXCEPT !.last_published_generation = snap.generation,
                             !.published = @ \cup {snap}]]
        /\ sent' = sent \cup {snap}
        /\ UNCHANGED <<replica, fences, elected, chosen, early, copied, restarts>>
    BY <2>1 DEF Publish, snap
  <2> QED BY <1>a, <2>3, <2>5, <2>6
<1>4. CASE \E snap \in publisher[b].published : RaftCommits(b, snap)
  <2>1. PICK snap \in publisher[b].published : RaftCommits(b, snap) BY <1>4
  <2>2. snap \in Snapshots BY <1>0, <2>1 DEF Publishers
  <2> QED BY <2>1, <2>2 DEF RaftCommits
<1>5. CASE \E g \in DOMAIN chosen : Commit(b, chosen[g])
  <2>1. PICK g \in DOMAIN chosen : Commit(b, chosen[g]) BY <1>5
  <2>2. chosen[g] \in Snapshots OBVIOUS
  <2>3. chosen[g].generation \in Nat BY <2>2 DEF Snapshots
  <2>4. [publisher[b] EXCEPT !.committed_generation = chosen[g].generation] \in Publishers
    BY <1>0, <2>3 DEF Publishers
  <2> QED BY <2>1, <2>4 DEF Commit
<1>6. CASE IssueFence(b)
  <2>1. write_fence(publisher[b]) \in Fences
    BY <1>0, <1>6 DEF IssueFence, write_fence, Fence, Fences, Publishers
  <2> QED BY <1>6, <2>1 DEF IssueFence
<1>7. CASE Republish(b)
  <2> DEFINE g == publisher[b].committed_generation
  <2>1. g \in DOMAIN chosen /\ publisher[b].term \in Nat \ {0}
    BY <1>0, <1>7 DEF Republish, FencesAreCommitted, Publishers
  <2>2. chosen[g] \in Snapshots
    BY <2>1
  <2>3. [chosen[g] EXCEPT !.term = publisher[b].term] \in Snapshots
    BY <2>1, <2>2 DEF Snapshots
  <2> QED BY <1>7, <1>a, <2>3 DEF Republish
<1> QED BY <1>1, <1>2, <1>3, <1>4, <1>5, <1>6, <1>7

----------------------------------------------------------------------------
(* One step of a node.                                                     *)

\* The active generation of x is a whole published placement that node n has copied.
MakesActive(n, x) ==
    \E snap \in sent :
        /\ x.active = [generation |-> snap.generation, assigned_shards |-> shards_for(snap, n)]
        /\ \A s \in shards_for(snap, n) : <<snap, s>> \in copied[n]

\* What every step does to node n's replica, which becomes x, and to its copies, which
\* become c.
NodeStep(n, x, c) ==
    LET r == replica[n] IN
    /\ x \in Replicas /\ Ahead(x) /\ Current(x)
    /\ c \in SUBSET (sent \X Shard) /\ CopiesMade(x, c)
    /\ n \notin early' => Committed(n, x)
    /\ \/ /\ x.observed_term = r.observed_term /\ x.active = r.active
          /\ x.write_fence = r.write_fence
       \/ /\ x.observed_term >= r.observed_term
          /\ active_generation(x) >= active_generation(r)
          /\ x.write_fence = None
       \/ /\ x.observed_term = r.observed_term /\ x.active = r.active
          /\ x.active # None
          /\ x.write_fence = Fence(x.observed_term, active_generation(x))
          /\ active_generation(x) \in DOMAIN chosen
    /\ x.active # r.active => MakesActive(n, x)

\* Such a step of node n.
MoveTo(n, x, c) ==
    replica' = [replica EXCEPT ![n] = x] /\ copied' = [copied EXCEPT ![n] = c] /\ NodeStep(n, x, c)

\* The copies of a node, and what they are when a step leaves them alone.
LEMMA CopiesStay ==
    ASSUME HandoverInv, NEW n \in Node
    PROVE  /\ copied[n] \in SUBSET (sent \X Shard) /\ CopiesMade(replica[n], copied[n])
           /\ copied = [copied EXCEPT ![n] = copied[n]]
  BY DEF HandoverInv, TypeOK, ReplicaInv

\* observe_term() as a step of the node.
LEMMA ObserveTermStep ==
    ASSUME HandoverInv, NEW n \in Node, NEW t \in 1 .. elected, ObserveTerm(n, t)
    PROVE  \E x, c : MoveTo(n, x, c)
<1> DEFINE r == replica[n]
           x == observe_term(r, t)
<1>1. r \in Replicas /\ t \in Nat /\ r.observed_term \in Nat /\ active_generation(r) \in Nat
  BY DEF HandoverInv, TypeOK, Replicas, active_generation
<1>2. /\ x \in Replicas /\ x.observed_term >= r.observed_term /\ x.active = r.active
      /\ x.staged \in {None, r.staged}
      /\ x = r \/ x.write_fence = None
  BY <1>1, ObserveTerm_Type
<1>3. /\ Ahead(r) /\ Current(r) /\ early' = early
      /\ n \notin early => Committed(n, r)
      /\ replica' = [replica EXCEPT ![n] = x] /\ copied' = copied
  BY DEF HandoverInv, ReplicaInv, ObserveTerm
<1> HIDE DEF x
<1>4. CopiesMade(x, copied[n])
  BY <1>2, CopiesStay DEF CopiesMade
<1>5. NodeStep(n, x, copied[n])
  BY <1>1, <1>2, <1>3, <1>4, CopiesStay DEF NodeStep, Ahead, Current, Committed, active_generation
<1> QED BY <1>3, <1>5, CopiesStay DEF MoveTo

\* stage(), accepted or refused.
LEMMA StageStep ==
    ASSUME HandoverInv, NEW n \in Node, NEW snap \in sent, Stage(n, snap)
    PROVE  \E x, c : MoveTo(n, x, c)
<1> DEFINE r == replica[n]
           o == observe_term(r, snap.term)
           new == [snapshot |-> snap, acknowledged_shards |-> {}]
           x1 == [o EXCEPT !.write_fence = None]
           x2 == [x1 EXCEPT !.staged = new]
<1>1. /\ r \in Replicas /\ r.observed_term \in Nat /\ active_generation(r) \in Nat
      /\ snap \in Snapshots /\ snap.term \in Nat /\ snap.generation \in Nat \ {0}
  BY DEF HandoverInv, TypeOK, Replicas, Snapshots, active_generation
<1>2. /\ o \in Replicas /\ o.observed_term >= r.observed_term /\ o.active = r.active
      /\ o.staged \in {None, r.staged}
      /\ o = r \/ o.write_fence = None
  BY <1>1, ObserveTerm_Type
<1>3. /\ Ahead(r) /\ Current(r)
      /\ n \notin early => Committed(n, r)
  BY DEF HandoverInv, ReplicaInv
<1>4. /\ replica' = [replica EXCEPT ![n] = IF stages(o, snap) THEN x2 ELSE o]
      /\ early' = IF stages(o, snap) /\ ~IsChosen(snap) THEN early \cup {n} ELSE early
      /\ copied' = copied
  BY DEF Stage
<1>5. CASE ~stages(o, snap)
  <2> HIDE DEF o
  <2>1. CopiesMade(o, copied[n])
    BY <1>2, CopiesStay DEF CopiesMade
  <2>2. NodeStep(n, o, copied[n])
    BY <1>1, <1>2, <1>3, <1>4, <1>5, <2>1, CopiesStay DEF NodeStep, Ahead, Current, Committed, active_generation
  <2> QED BY <1>4, <1>5, <2>2, CopiesStay DEF MoveTo
<1>6. CASE stages(o, snap)
  <2>1. snap.generation > active_generation(o)
    BY <1>1, <1>2, <1>6 DEF stages, active_generation
  <2> HIDE DEF o
  <2>2. /\ x1 \in Replicas /\ x1.observed_term = o.observed_term /\ x1.active = o.active
        /\ x1.write_fence = None
    BY <1>2 DEF Replicas
  <2> HIDE DEF x1
  <2>3. /\ x2 \in Replicas /\ x2.observed_term = o.observed_term /\ x2.active = o.active
        /\ x2.write_fence = None /\ x2.staged = new /\ x2.staged.snapshot = snap
        /\ x2.staged.acknowledged_shards = {}
    BY <1>1, <2>2 DEF Replicas
  <2> HIDE DEF x2
  <2>4. active_generation(x2) = active_generation(o) /\ active_generation(o) = active_generation(r)
    BY <1>2, <2>3 DEF active_generation
  <2>5. Ahead(x2) /\ Current(x2)
    BY <2>1, <2>3, <2>4 DEF Ahead, Current
  <2>6. n \notin early' => Committed(n, x2)
    BY <1>2, <1>3, <1>4, <1>6, <2>3 DEF Committed
  <2>7. CopiesMade(x2, copied[n])
    BY <2>3 DEF CopiesMade
  <2>8. NodeStep(n, x2, copied[n])
    BY <1>1, <1>2, <2>3, <2>4, <2>5, <2>6, <2>7, CopiesStay DEF NodeStep
  <2> QED BY <1>4, <1>6, <2>8, CopiesStay DEF MoveTo
<1> QED BY <1>5, <1>6

\* acknowledge_shard(): only the copies in progress change.
LEMMA AcknowledgeShardStep ==
    ASSUME HandoverInv, NEW n \in Node, NEW s \in Shard, AcknowledgeShard(n, s)
    PROVE  \E x, c : MoveTo(n, x, c)
<1> DEFINE r == replica[n]
           new == [r.staged EXCEPT !.acknowledged_shards = @ \cup {s}]
           x == [r EXCEPT !.staged = new]
           snap == r.staged.snapshot
           c == {k \in copied[n] : k[1] = snap} \cup {<<snap, s>>}
<1>1. /\ r \in Replicas /\ r.staged # None
      /\ r.staged \in [snapshot : Snapshots, acknowledged_shards : SUBSET Shard]
      /\ r.observed_term \in Nat /\ active_generation(r) \in Nat
  BY DEF HandoverInv, TypeOK, Replicas, AcknowledgeShard, active_generation
<1>2. /\ new \in [snapshot : Snapshots, acknowledged_shards : SUBSET Shard]
      /\ new.snapshot = snap /\ new.acknowledged_shards = r.staged.acknowledged_shards \cup {s}
  BY <1>1
<1>3. /\ replica' = [replica EXCEPT ![n] = x] /\ early' = early
      /\ copied' = [copied EXCEPT ![n] = c]
      /\ Ahead(r) /\ Current(r) /\ (n \notin early => Committed(n, r))
  BY DEF AcknowledgeShard, HandoverInv, ReplicaInv, TypeOK
<1> HIDE DEF new
<1>4. /\ x \in Replicas /\ x.observed_term = r.observed_term /\ x.active = r.active
      /\ x.write_fence = r.write_fence /\ x.staged = new
  BY <1>1, <1>2 DEF Replicas
<1> HIDE DEF x
<1>5. /\ snap \in sent /\ c \in SUBSET (sent \X Shard)
      /\ \A k \in r.staged.acknowledged_shards \cup {s} : <<snap, k>> \in c
  BY <1>1, CopiesStay DEF CopiesMade
<1> HIDE DEF c
<1>6. CopiesMade(x, c)
  BY <1>2, <1>4, <1>5 DEF CopiesMade
<1>7. NodeStep(n, x, c)
  BY <1>1, <1>2, <1>3, <1>4, <1>5, <1>6 DEF NodeStep, Ahead, Current, Committed, active_generation
<1> QED BY <1>3, <1>7 DEF MoveTo

\* activate(): the generation moves forward, authority goes.
LEMMA ActivateStep ==
    ASSUME HandoverInv, NEW n \in Node, Activate(n)
    PROVE  \E x, c : MoveTo(n, x, c)
<1> DEFINE r == replica[n]
           snap == r.staged.snapshot
           new == [generation |-> snap.generation, assigned_shards |-> shards_for(snap, n)]
           x1 == [r EXCEPT !.active = new]
           x2 == [x1 EXCEPT !.staged = None]
           x == [x2 EXCEPT !.write_fence = None]
<1>1. /\ r \in Replicas /\ r.staged # None
      /\ r.observed_term \in Nat /\ active_generation(r) \in Nat
      /\ snap \in Snapshots /\ snap.generation \in Nat \ {0}
      /\ snap.generation > active_generation(r)
  BY DEF HandoverInv, ReplicaInv, Ahead, TypeOK, Replicas, Snapshots, Activate, active_generation
<1>2. new \in [generation : Nat \ {0}, assigned_shards : SUBSET Shard] /\ new # None
  BY <1>1, ShardsForType, NoneAssumption
<1>3. /\ replica' = [replica EXCEPT ![n] = x] /\ early' = early /\ copied' = copied
      /\ ready(r, n) /\ (n \notin early => Committed(n, r))
  BY DEF Activate, HandoverInv, ReplicaInv
<1>4. new.generation = snap.generation /\ new.assigned_shards = shards_for(snap, n)
  OBVIOUS
<1>a. new = [generation |-> snap.generation, assigned_shards |-> shards_for(snap, n)]
  OBVIOUS
<1> HIDE DEF new
<1>5. x1 \in Replicas /\ x1.observed_term = r.observed_term /\ x1.active = new
  BY <1>1, <1>2 DEF Replicas
<1> HIDE DEF x1
<1>6. x2 \in Replicas /\ x2.observed_term = r.observed_term /\ x2.active = new /\ x2.staged = None
  BY <1>5 DEF Replicas
<1> HIDE DEF x2
<1>7. /\ x \in Replicas /\ x.observed_term = r.observed_term /\ x.active = new /\ x.staged = None
      /\ x.write_fence = None
  BY <1>6 DEF Replicas
<1> HIDE DEF x
<1>8. active_generation(x) = snap.generation
  BY <1>2, <1>4, <1>7 DEF active_generation
<1>9. n \notin early' => Committed(n, x)
  <2>1. CASE n \notin early
    <3>1. snap.generation \in DOMAIN chosen /\ chosen[snap.generation].assignments = snap.assignments
      BY <1>1, <1>3, <2>1 DEF Committed, IsChosen
    <3>2. shards_for(chosen[snap.generation], n) = shards_for(snap, n)
      BY <3>1 DEF shards_for
    <3> QED BY <1>4, <1>7, <3>1, <3>2 DEF Committed
  <2> QED BY <1>3, <2>1
<1>10. MakesActive(n, x)
  <2>1. shards_for(snap, n) \subseteq r.staged.acknowledged_shards
    BY <1>3 DEF ready
  <2>2. snap \in sent /\ \A s \in shards_for(snap, n) : <<snap, s>> \in copied[n]
    BY <1>1, <2>1, CopiesStay DEF CopiesMade
  <2> QED BY <1>7, <1>a, <2>2 DEF MakesActive
<1>11. CopiesMade(x, copied[n])
  BY <1>7 DEF CopiesMade
<1>12. NodeStep(n, x, copied[n])
  BY <1>1, <1>4, <1>7, <1>8, <1>9, <1>10, <1>11, CopiesStay DEF NodeStep, Ahead, Current
<1> QED BY <1>3, <1>12, CopiesStay DEF MoveTo

\* install_write_fence(): authority for the current term and generation.
LEMMA InstallWriteFenceStep ==
    ASSUME HandoverInv, NEW n \in Node, NEW f \in fences, InstallWriteFence(n, f)
    PROVE  \E x, c : MoveTo(n, x, c)
<1> DEFINE r == replica[n]
           x == [r EXCEPT !.write_fence = f]
<1>1. /\ r \in Replicas /\ r.observed_term \in Nat /\ r.active # None
      /\ active_generation(r) \in Nat
      /\ f \in Fences /\ f.term = r.observed_term /\ f.generation = active_generation(r)
      /\ f.generation \in DOMAIN chosen
  BY DEF HandoverInv, TypeOK, FencesAreCommitted, Replicas, InstallWriteFence, installs, active_generation
<1>2. f = Fence(f.term, f.generation)
  BY <1>1 DEF Fence, Fences
<1>3. /\ replica' = [replica EXCEPT ![n] = x] /\ early' = early /\ copied' = copied
      /\ Ahead(r) /\ (n \notin early => Committed(n, r))
  BY DEF InstallWriteFence, HandoverInv, ReplicaInv
<1>4. /\ x \in Replicas /\ x.observed_term = r.observed_term /\ x.active = r.active
      /\ x.write_fence = f /\ x.staged = r.staged
  BY <1>1 DEF Replicas
<1> HIDE DEF x
<1>5. active_generation(x) = active_generation(r)
  BY <1>4 DEF active_generation
<1>6. CopiesMade(x, copied[n])
  BY <1>4, CopiesStay DEF CopiesMade
<1>7. NodeStep(n, x, copied[n])
  BY <1>1, <1>2, <1>3, <1>4, <1>5, <1>6, CopiesStay DEF NodeStep, Ahead, Current, Committed
<1> QED BY <1>3, <1>7, CopiesStay DEF MoveTo

\* restart(): authority goes, generations stay.
LEMMA RestartStep ==
    ASSUME HandoverInv, NEW n \in Node, Restart(n)
    PROVE  \E x, c : MoveTo(n, x, c)
<1> DEFINE r == replica[n]
           new == IF r.staged = None THEN None ELSE [r.staged EXCEPT !.acknowledged_shards = {}]
           x1 == [r EXCEPT !.write_fence = None]
           x == [x1 EXCEPT !.staged = new]
<1>1. /\ r \in Replicas /\ r.observed_term \in Nat /\ active_generation(r) \in Nat
  BY DEF HandoverInv, TypeOK, Replicas, active_generation
<1>2. /\ new \in [snapshot : Snapshots, acknowledged_shards : SUBSET Shard] \cup {None}
      /\ new # None => /\ r.staged # None /\ new.snapshot = r.staged.snapshot
                       /\ new.acknowledged_shards = {}
  BY <1>1 DEF Replicas
<1>3. /\ replica' = [replica EXCEPT ![n] = x] /\ early' = early
      /\ copied' = [copied EXCEPT ![n] = {}]
      /\ Ahead(r) /\ (n \notin early => Committed(n, r))
  BY DEF Restart, HandoverInv, ReplicaInv
<1> HIDE DEF new
<1>4. /\ x1 \in Replicas /\ x1.observed_term = r.observed_term /\ x1.active = r.active
      /\ x1.write_fence = None
  BY <1>1 DEF Replicas
<1> HIDE DEF x1
<1>5. /\ x \in Replicas /\ x.observed_term = r.observed_term /\ x.active = r.active
      /\ x.write_fence = None /\ x.staged = new
  BY <1>2, <1>4 DEF Replicas
<1> HIDE DEF x
<1>6. active_generation(x) = active_generation(r)
  BY <1>5 DEF active_generation
<1>7. CopiesMade(x, {})
  BY <1>2, <1>5, CopiesStay DEF CopiesMade
<1>8. NodeStep(n, x, {})
  BY <1>1, <1>2, <1>3, <1>5, <1>6, <1>7 DEF NodeStep, Ahead, Current, Committed
<1> QED BY <1>3, <1>8 DEF MoveTo

----------------------------------------------------------------------------
(* The steps of Next, by who takes them.                                   *)

BrainNext(b) ==
    \/ BecomeLeader(b)
    \/ \E t \in 1 .. elected : StepDown(b, t)
    \/ \E l \in Layout : Publish(b, l)
    \/ \E snap \in publisher[b].published : RaftCommits(b, snap)
    \/ \E g \in DOMAIN chosen : Commit(b, chosen[g])
    \/ IssueFence(b)
    \/ Republish(b)

NodeNext(n) ==
    \/ \E t \in 1 .. elected : ObserveTerm(n, t)
    \/ \E snap \in sent : Stage(n, snap)
    \/ \E s \in Shard : AcknowledgeShard(n, s)
    \/ Activate(n)
    \/ \E f \in fences : InstallWriteFence(n, f)
    \/ Restart(n)

\* A step is a step of one brain or of one node.
LEMMA NextCases == Next <=> (\E b \in Brain : BrainNext(b)) \/ (\E n \in Node : NodeNext(n))
  BY DEF Next, BrainNext, NodeNext

\* What a step of node n does to its replica, and what it leaves alone.
LEMMA NodeNextStep ==
    ASSUME HandoverInv, NEW n \in Node, NodeNext(n)
    PROVE  /\ \E x, c : MoveTo(n, x, c)
           /\ UNCHANGED <<publisher, sent, fences, elected, chosen>>
           /\ early \subseteq early' /\ early' \subseteq early \cup {n}
           /\ restarts' \in Nat
<1>0. restarts \in Nat
  BY DEF HandoverInv, TypeOK
<1>1. ASSUME NEW t \in 1 .. elected, ObserveTerm(n, t)
      PROVE  UNCHANGED <<publisher, sent, fences, elected, chosen, early, restarts>>
  BY <1>1 DEF ObserveTerm
<1>2. ASSUME NEW snap \in sent, Stage(n, snap)
      PROVE  /\ UNCHANGED <<publisher, sent, fences, elected, chosen, restarts>>
             /\ early' \in {early, early \cup {n}}
  BY <1>2 DEF Stage
<1>3. ASSUME NEW s \in Shard, AcknowledgeShard(n, s)
      PROVE  UNCHANGED <<publisher, sent, fences, elected, chosen, early, restarts>>
  BY <1>3 DEF AcknowledgeShard
<1>4. ASSUME Activate(n)
      PROVE  UNCHANGED <<publisher, sent, fences, elected, chosen, early, restarts>>
  BY <1>4 DEF Activate
<1>5. ASSUME NEW f \in fences, InstallWriteFence(n, f)
      PROVE  UNCHANGED <<publisher, sent, fences, elected, chosen, early, restarts>>
  BY <1>5 DEF InstallWriteFence
<1>6. ASSUME Restart(n)
      PROVE  UNCHANGED <<publisher, sent, fences, elected, chosen, early>> /\ restarts' = restarts + 1
  BY <1>6 DEF Restart
<1>7. \E x, c : MoveTo(n, x, c)
  BY ObserveTermStep, StageStep, AcknowledgeShardStep, ActivateStep, InstallWriteFenceStep, RestartStep
     DEF NodeNext
<1>8. /\ UNCHANGED <<publisher, sent, fences, elected, chosen>>
      /\ early' \in {early, early \cup {n}}
      /\ restarts' \in {restarts, restarts + 1}
  BY <1>1, <1>2, <1>3, <1>4, <1>5, <1>6 DEF NodeNext
<1>9. /\ early \subseteq early' /\ early' \subseteq early \cup {n}
      /\ restarts' \in Nat
  BY <1>0, <1>8
<1> QED BY <1>7, <1>8, <1>9

\* What a step of a brain leaves alone, and what it does to the committed log.
LEMMA BrainNextStep ==
    ASSUME HandoverInv, NEW b \in Brain, BrainNext(b)
    PROVE  /\ UNCHANGED <<replica, early, copied, restarts>> /\ sent \subseteq sent'
           /\ \/ chosen' = chosen
              \/ \E snap \in Snapshots : snap.generation = Len(chosen) + 1 /\ chosen' = Append(chosen, snap)
           /\ \/ fences' = fences
              \/ publisher[b].committed_generation # 0 /\ fences' = fences \cup {write_fence(publisher[b])}
           /\ \E p : /\ publisher' = [publisher EXCEPT ![b] = p]
                     /\ p.committed_generation \in {publisher[b].committed_generation, Len(chosen)}
                           \cup {g \in DOMAIN chosen : TRUE}
<1>0. publisher[b] \in Publishers /\ publisher = [publisher EXCEPT ![b] = publisher[b]]
  BY DEF HandoverInv, TypeOK
<1>1. CASE BecomeLeader(b)
  <2>1. become_leader(NewPublisher("Follower", publisher[b].term, Len(chosen)), elected + 1).committed_generation
          = Len(chosen)
    BY DEF become_leader, NewPublisher
  <2> QED BY <1>1, <2>1 DEF BecomeLeader
<1>2. CASE \E t \in 1 .. elected : StepDown(b, t)
  <2>1. PICK t \in 1 .. elected : StepDown(b, t) BY <1>2
  <2>2. step_down(publisher[b], t).committed_generation = publisher[b].committed_generation
    BY <1>0 DEF step_down, Publishers
  <2> QED BY <2>1, <2>2 DEF StepDown
<1>3. CASE \E l \in Layout : Publish(b, l)
  <2>1. PICK l \in Layout : Publish(b, l) BY <1>3
  <2> DEFINE snap == snapshot(publisher[b].term, publisher[b].last_published_generation + 1, l)
             p == [publisher[b] EXCEPT !.last_published_generation = snap.generation,
                                       !.published = @ \cup {snap}]
  <2>2. /\ publisher' = [publisher EXCEPT ![b] = p]
        /\ sent \subseteq sent'
        /\ UNCHANGED <<replica, fences, elected, chosen, early, copied, restarts>>
    BY <2>1 DEF Publish
  <2> HIDE DEF snap
  <2>3. p.committed_generation = publisher[b].committed_generation
    BY <1>0 DEF Publishers
  <2> QED BY <2>2, <2>3
<1>4. CASE \E snap \in publisher[b].published : RaftCommits(b, snap)
  <2>1. PICK snap \in publisher[b].published : RaftCommits(b, snap) BY <1>4
  <2>2. snap \in Snapshots BY <1>0, <2>1 DEF Publishers
  <2> QED BY <1>0, <2>1, <2>2 DEF RaftCommits
<1>5. CASE \E g \in DOMAIN chosen : Commit(b, chosen[g])
  <2>1. PICK g \in DOMAIN chosen : Commit(b, chosen[g]) BY <1>5
  <2>2. chosen[g].generation = g BY DEF HandoverInv, ChosenNumbered
  <2>3. [publisher[b] EXCEPT !.committed_generation = g].committed_generation = g
    BY <1>0 DEF Publishers
  <2> QED BY <2>1, <2>2, <2>3 DEF Commit
<1>6. CASE IssueFence(b)
  BY <1>0, <1>6 DEF IssueFence
<1>7. CASE Republish(b)
  BY <1>0, <1>7 DEF Republish
<1> QED BY <1>1, <1>2, <1>3, <1>4, <1>5, <1>6, <1>7 DEF BrainNext

----------------------------------------------------------------------------
(* The inductive invariant.                                                *)

\* The invariant holds at first.
LEMMA InvInit == Init => HandoverInv
<1> SUFFICES ASSUME Init PROVE HandoverInv
  OBVIOUS
<1>1. \A b \in Brain : publisher[b] \in Publishers /\ publisher[b].committed_generation = 0
  BY DEF Init, NewPublisher, Publishers
<1>2. NewReplica \in Replicas
  BY DEF NewReplica, Replicas
<1>3. chosen = <<>> /\ Len(chosen) = 0 /\ DOMAIN chosen = {}
  BY DEF Init
<1>4. TypeOK
  BY <1>1, <1>2 DEF Init, TypeOK
<1>5. ReplicaInv
  BY <1>2 DEF Init, ReplicaInv, NewReplica, Ahead, Current, Committed, CopiesMade
<1> QED BY <1>1, <1>3, <1>4, <1>5 DEF Init, HandoverInv, FencesAreCommitted, ChosenNumbered

\* A step of a brain keeps it: what is committed stays committed.
LEMMA BrainKeepsInv ==
    ASSUME HandoverInv, NEW b \in Brain, BrainNext(b)
    PROVE  HandoverInv'
<1>0. TypeOK /\ FencesAreCommitted /\ ChosenNumbered /\ ReplicaInv
  BY DEF HandoverInv
<1>1. TypeOK'
  BY <1>0, PublisherStepType DEF BrainNext
<1>2. /\ UNCHANGED <<replica, early, copied, restarts>> /\ sent \subseteq sent'
      /\ \/ chosen' = chosen
         \/ \E snap \in Snapshots : snap.generation = Len(chosen) + 1 /\ chosen' = Append(chosen, snap)
      /\ \/ fences' = fences
         \/ publisher[b].committed_generation # 0 /\ fences' = fences \cup {write_fence(publisher[b])}
      /\ \E p : /\ publisher' = [publisher EXCEPT ![b] = p]
                /\ p.committed_generation \in {publisher[b].committed_generation, Len(chosen)}
                      \cup {g \in DOMAIN chosen : TRUE}
  BY BrainNextStep
<1>3. chosen \in Seq(Snapshots) /\ chosen' \in Seq(Snapshots)
  BY <1>0, <1>1 DEF TypeOK
<1>4. /\ Len(chosen) <= Len(chosen') /\ DOMAIN chosen \subseteq DOMAIN chosen'
      /\ \A g \in DOMAIN chosen : chosen'[g] = chosen[g]
  BY <1>2, <1>3
<1>5. ChosenNumbered'
  <2>1. CASE chosen' = chosen
    BY <1>0, <2>1 DEF ChosenNumbered
  <2>2. CASE \E snap \in Snapshots : snap.generation = Len(chosen) + 1 /\ chosen' = Append(chosen, snap)
    BY <1>0, <1>3, <2>2 DEF ChosenNumbered
  <2> QED BY <1>2, <2>1, <2>2
<1>6. FencesAreCommitted'
  <2>1. \A c \in Brain : publisher[c] \in Publishers /\ publisher[c].committed_generation \in Nat
    BY <1>0 DEF TypeOK, Publishers
  <2>2. \A f \in fences' : f.generation \in DOMAIN chosen'
    BY <1>0, <1>2, <1>3, <1>4, <2>1 DEF FencesAreCommitted, write_fence, Fence
  <2>3. \A c \in Brain : publisher'[c].committed_generation <= Len(chosen')
    <3>1. PICK p : /\ publisher' = [publisher EXCEPT ![b] = p]
                   /\ p.committed_generation \in {publisher[b].committed_generation, Len(chosen)}
                         \cup {g \in DOMAIN chosen : TRUE}
      BY <1>2
    <3>2. p.committed_generation <= Len(chosen)
      BY <1>0, <1>3, <3>1 DEF FencesAreCommitted
    <3>3. p.committed_generation \in Nat
      BY <1>3, <2>1, <3>1
    <3>4. \A c \in Brain : publisher'[c] = IF c = b THEN p ELSE publisher[c]
      BY <1>0, <3>1 DEF TypeOK
    <3> QED BY <1>0, <1>3, <1>4, <2>1, <3>2, <3>3, <3>4 DEF FencesAreCommitted
  <2> QED BY <2>2, <2>3 DEF FencesAreCommitted
<1>7. ReplicaInv'
  <2> SUFFICES ASSUME NEW n \in Node
               PROVE  /\ Ahead(replica[n])' /\ Current(replica[n])' /\ CopiesMade(replica[n], copied[n])'
                      /\ n \notin early' => Committed(n, replica[n])'
    BY DEF ReplicaInv
  <2>1. Ahead(replica[n])' /\ Current(replica[n])'
    BY <1>0, <1>2 DEF ReplicaInv, Ahead, Current, active_generation
  <2>2. n \notin early => Committed(n, replica[n])
    BY <1>0 DEF ReplicaInv
  <2>3. CopiesMade(replica[n], copied[n])'
    BY <1>0, <1>2 DEF ReplicaInv, CopiesMade
  <2> QED BY <1>2, <1>4, <2>1, <2>2, <2>3 DEF Committed, IsChosen, shards_for
<1> QED BY <1>1, <1>5, <1>6, <1>7 DEF HandoverInv

\* A step of a node keeps it: only its own replica moves.
LEMMA NodeKeepsInv ==
    ASSUME HandoverInv, NEW n \in Node, NodeNext(n)
    PROVE  HandoverInv'
<1>0. TypeOK /\ FencesAreCommitted /\ ChosenNumbered /\ ReplicaInv
  BY DEF HandoverInv
<1>1. PICK x, c : /\ replica' = [replica EXCEPT ![n] = x] /\ copied' = [copied EXCEPT ![n] = c]
                  /\ NodeStep(n, x, c)
  BY NodeNextStep DEF MoveTo
<1>2. /\ UNCHANGED <<publisher, sent, fences, elected, chosen>>
      /\ early \subseteq early' /\ early' \subseteq early \cup {n}
      /\ restarts' \in Nat
  BY NodeNextStep
<1>3. TypeOK'
  BY <1>0, <1>1, <1>2 DEF TypeOK, NodeStep
<1>4. FencesAreCommitted' /\ ChosenNumbered'
  BY <1>0, <1>2 DEF FencesAreCommitted, ChosenNumbered
<1>5. ReplicaInv'
  <2> SUFFICES ASSUME NEW m \in Node
               PROVE  /\ Ahead(replica[m])' /\ Current(replica[m])' /\ CopiesMade(replica[m], copied[m])'
                      /\ m \notin early' => Committed(m, replica[m])'
    BY DEF ReplicaInv
  <2>1. CASE m = n
    <3>1. replica'[m] = x /\ copied'[m] = c
      BY <1>0, <1>1, <2>1 DEF TypeOK
    <3>2. CopiesMade(replica[m], copied[m])'
      BY <1>1, <1>2, <3>1 DEF NodeStep, CopiesMade
    <3> QED BY <1>1, <1>2, <2>1, <3>1, <3>2 DEF NodeStep, Ahead, Current, Committed, IsChosen, active_generation, shards_for
  <2>2. CASE m # n
    <3>1. replica'[m] = replica[m] /\ copied'[m] = copied[m] /\ (m \notin early' => m \notin early)
      BY <1>0, <1>1, <1>2, <2>2 DEF TypeOK
    <3>2. CopiesMade(replica[m], copied[m])'
      BY <1>0, <1>2, <3>1 DEF ReplicaInv, CopiesMade
    <3> QED BY <1>0, <1>2, <3>1, <3>2 DEF ReplicaInv, Ahead, Current, Committed, IsChosen, active_generation, shards_for
  <2> QED BY <2>1, <2>2
<1> QED BY <1>3, <1>4, <1>5 DEF HandoverInv

\* Every step keeps it.
LEMMA InvNext == HandoverInv /\ [Next]_vars => HandoverInv'
<1> SUFFICES ASSUME HandoverInv, [Next]_vars PROVE HandoverInv'
  OBVIOUS
<1>1. CASE Next
  BY <1>1, NextCases, BrainKeepsInv, NodeKeepsInv
<1>2. CASE UNCHANGED vars
  BY <1>2 DEF vars, HandoverInv, TypeOK, FencesAreCommitted, ChosenNumbered, ReplicaInv, Ahead, Current,
              CopiesMade, Committed, IsChosen, active_generation, shards_for
<1> QED BY <1>1, <1>2

\* The invariant holds in every reachable state.
THEOREM Invariance == Spec => []HandoverInv
  BY InvInit, InvNext, PTL DEF Spec

----------------------------------------------------------------------------
(* The theorems.                                                           *)

\* Type correctness of the publishers, the replicas and the messages between them.
THEOREM TypeCorrect == Spec => []TypeOK
<1>1. HandoverInv => TypeOK
  BY DEF HandoverInv
<1> QED BY <1>1, Invariance, PTL

\* write_fence() never fences a generation that Raft has not committed, whichever
\* publishers were elected, deposed and told late.
THEOREM FencesCommitted == Spec => []FencesAreCommitted
<1>1. HandoverInv => FencesAreCommitted
  BY DEF HandoverInv
<1> QED BY <1>1, Invariance, PTL

\* accepts_write() admits a write only under a fence of the node's term for a
\* committed generation, and only for what that generation gives the node.
THEOREM WritesFollow == Spec => []WritesFollowPlacement
<1>1. HandoverInv => WritesFollowPlacement
  <2> SUFFICES ASSUME HandoverInv, NEW n \in Node, NEW f \in fences, NEW s \in Shard,
                      accepts_write(replica[n], f, s)
               PROVE  /\ f.term = replica[n].observed_term
                      /\ f.generation \in DOMAIN chosen
                      /\ n \notin early => s \in shards_for(chosen[f.generation], n)
    BY DEF WritesFollowPlacement
  <2>1. f \in Fences /\ f.generation \in DOMAIN chosen
    BY DEF HandoverInv, TypeOK, FencesAreCommitted
  <2>2. f # None
    BY <2>1, NoneAssumption DEF Fences
  <2>3. Current(replica[n]) /\ (n \notin early => Committed(n, replica[n]))
    BY DEF HandoverInv, ReplicaInv
  <2> QED BY <2>1, <2>2, <2>3 DEF accepts_write, Current, Committed
<1> QED BY <1>1, Invariance, PTL

\* activate() makes active the whole of one published placement, from copies made for
\* that placement since the node last restarted: what restart() and stage() forget is
\* enough that nothing activate() counts was copied before.
THEOREM ActivatesWhole == Spec => NoPartialActivation
<1> DEFINE whole == \A n \in Node :
          replica'[n].active # replica[n].active =>
              \E snap \in sent :
                  /\ replica'[n].active = [generation |-> snap.generation,
                                            assigned_shards |-> shards_for(snap, n)]
                  /\ \A s \in shards_for(snap, n) : <<snap, s>> \in copied[n]
<1>1. HandoverInv /\ [Next]_vars => [whole]_vars
  <2> SUFFICES ASSUME HandoverInv, Next PROVE whole
    OBVIOUS
  <2> SUFFICES ASSUME NEW n \in Node, replica'[n].active # replica[n].active
               PROVE  MakesActive(n, replica'[n])
    BY DEF MakesActive
  <2>0. n \in DOMAIN replica
    BY DEF HandoverInv, TypeOK
  <2>1. CASE \E b \in Brain : BrainNext(b)
    BY <2>1, BrainNextStep
  <2>2. CASE \E m \in Node : NodeNext(m)
    <3>1. PICK m \in Node : NodeNext(m)
      BY <2>2
    <3>2. PICK x, c : replica' = [replica EXCEPT ![m] = x] /\ NodeStep(m, x, c)
      BY <3>1, NodeNextStep DEF MoveTo
    <3>3. m = n /\ replica'[n] = x
      BY <2>0, <3>2
    <3> QED BY <3>2, <3>3 DEF NodeStep
  <2> QED BY <2>1, <2>2, NextCases
<1>2. Spec => [][whole]_vars
  BY <1>1, Invariance, PTL DEF Spec
<1> QED BY <1>2 DEF NoPartialActivation

\* The handover implements WriteAuthority: under the mapping of Handover!Authority the
\* initial states are its initial states and every step is a step of it or a stutter.
THEOREM Refinement == Spec => ImplementsAuthority
<1>1. Init => Authority!Init
  BY DEF Init, Authority!Init, NewReplica, active_generation
<1>2. HandoverInv /\ [Next]_vars => [Authority!Next]_(Authority!vars)
  <2> SUFFICES ASSUME HandoverInv, [Next]_vars
               PROVE  Authority!Next \/ UNCHANGED Authority!vars
    OBVIOUS
  <2>1. CASE \E b \in Brain : BrainNext(b)
    <3>1. /\ replica' = replica
          /\ \/ chosen' = chosen
             \/ \E snap \in Snapshots : chosen' = Append(chosen, snap)
      BY <2>1, BrainNextStep
    <3>2. chosen \in Seq(Snapshots)
      BY DEF HandoverInv, TypeOK
    <3>3. Len(chosen') = Len(chosen) \/ Len(chosen') = Len(chosen) + 1
      BY <3>1, <3>2
    <3> QED BY <3>1, <3>3 DEF Authority!Next, Authority!Commit, Authority!vars, active_generation
  <2>2. CASE \E n \in Node : NodeNext(n)
    <3>1. PICK n \in Node : NodeNext(n)
      BY <2>2
    <3>2. PICK x, c : replica' = [replica EXCEPT ![n] = x] /\ NodeStep(n, x, c)
      BY <3>1, NodeNextStep DEF MoveTo
    <3>3. chosen' = chosen /\ chosen \in Seq(Snapshots) /\ replica \in [Node -> Replicas]
      BY <3>1, NodeNextStep DEF HandoverInv, TypeOK
    <3> DEFINE r == replica[n]
    <3>4. \A m \in Node : replica'[m] = IF m = n THEN x ELSE replica[m]
      BY <3>2, <3>3
    <3>5. CASE x.observed_term = r.observed_term /\ x.active = r.active /\ x.write_fence = r.write_fence
      <4>1. \A m \in Node : /\ replica'[m].observed_term = replica[m].observed_term
                            /\ replica'[m].active = replica[m].active
                            /\ replica'[m].write_fence = replica[m].write_fence
        BY <3>4, <3>5
      <4> QED BY <3>3, <4>1 DEF Authority!vars, active_generation
    <3>6. CASE /\ x.observed_term >= r.observed_term
               /\ active_generation(x) >= active_generation(r)
               /\ x.write_fence = None
      <4>1. Authority!Revoke(n)
        BY <3>3, <3>4, <3>6 DEF Authority!Revoke
      <4> QED BY <4>1 DEF Authority!Next
    <3>7. CASE /\ x.observed_term = r.observed_term /\ x.active = r.active
               /\ x.active # None
               /\ x.write_fence = Fence(x.observed_term, active_generation(x))
               /\ active_generation(x) \in DOMAIN chosen
      <4>1. /\ active_generation(x) = active_generation(r)
            /\ active_generation(r) \in 1 .. Len(chosen)
        BY <3>3, <3>7 DEF active_generation
      <4>2. \A m \in Node : /\ replica'[m].observed_term = replica[m].observed_term
                            /\ active_generation(replica'[m]) = active_generation(replica[m])
                            /\ m # n => replica'[m].write_fence = replica[m].write_fence
        BY <3>4, <3>7, <4>1
      <4>3. replica'[n].write_fence = [term |-> r.observed_term, generation |-> active_generation(r)]
        BY <3>4, <3>7, <4>1 DEF Fence
      <4>4. Authority!Grant(n)
        BY <3>3, <4>1, <4>2, <4>3 DEF Authority!Grant
      <4> QED BY <4>4 DEF Authority!Next
    <3> QED BY <3>2, <3>5, <3>6, <3>7 DEF NodeStep
  <2>3. CASE UNCHANGED vars
    BY <2>3 DEF vars, Authority!vars, active_generation
  <2> QED BY <2>1, <2>2, <2>3, NextCases
<1> QED BY <1>1, <1>2, Invariance, PTL DEF Spec, ImplementsAuthority, Authority!Spec
=============================================================================
