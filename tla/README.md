# Verification of the fiducia brain

The brain is the control plane of a fiducia cluster: a small replicated group
that watches data-plane nodes, decides which node hosts which shard, and serves
that map. This directory models it in TLA+, from the consensus core up to the
write a data-plane node admits, checks it with TLC and proves its safety with
TLAPS. Paths below are relative to the repository
root (`src/raft.rs` is the Rust file of that name).

## 1. The system

| part | state | operations | talks to |
|---|---|---|---|
| Raft engine, `src/raft.rs` | term, vote, log from `base_index`, snapshot, commit and apply points, role, votes, per-peer `next/match_index`, snapshot in flight | `tick`, `step` (six message kinds), `propose`, `compact`, `ready` | pure: the driver calls it under one mutex and drains `Ready` |
| Raft driver, `src/raft_driver.rs` | the engine mutex, `io_lock`, `apply_watermark`, sticky `available` flag, outbox | tick loop, `deliver`, `step_inbound`, `propose`/`await_commit`, `drain`, `maybe_compact` | store (save), state machine (apply, restore, snapshot), peers over HTTP |
| Raft store, `src/raft_store.rs` | files `snapshot`, `log`, `meta`, each replaced by an atomic rename | `open`, `save` | driver |
| Control-plane state machine, `src/cluster.rs`, `src/placement.rs` | shard assignments with a generation, policies, scale plan | `apply_command`, `assign`, `restore_from`, `set_policy` | driver applies to it; scheduler and API read it |
| Membership, `src/membership.rs` | per node: health, last seen, heartbeat sequence, reported shards | `heartbeat`, `sweep`, `drain`, `forget` | API writes it, scheduler reads it |
| Health oracle, `src/oracle.rs` | cached Kubernetes view with its age | refresh, verdict | scheduler |
| Planning, `src/plan.rs`, `src/leadership.rs` | none | `plan_replicas`, leader choice | scheduler |
| Scheduler, `src/scheduler.rs` | none beyond a tick | `reconcile`: sweep, re-place, re-lead, scale down, forget | membership, oracle, planning; proposes commands |
| API, `src/api.rs` | none | heartbeat, scale, drain, policy, status; forwards writes to the leader | everything above |
| Composition tool, `tools/scheduler-data-plane-composition` | publishers: term, published and committed generation; replicas: observed term, staged and active generation, write fence | `publish_next`, `commit`, `write_fence`; `stage`, `acknowledge_shard`, `activate`, `install_write_fence`, `restart` | the repository's executable model of the step after placement |
| Wiring, configuration, authentication, external locks, replay binary, Quint models | - | - | - |

What is hard in it:

* **Interleaving.** Every inbound RPC, every peer response, the tick loop and
  every proposal runs `drain` on a thread of its own. Only the engine call is
  under the engine mutex; saving, applying, compacting and sending race.
* **Crashes.** A save is three renames. A crash may fall between any two, and
  `open` must make sense of what is left.
* **Unreliable delivery.** One attempt per message, each in its own task: lost,
  late and overtaken requests and responses are all normal.
* **Snapshots.** The log's origin moves. Every index comparison of the engine
  is relative to it, and messages built before a compaction arrive after it.
* **Leader-local state.** Membership, drain intent and policies are not
  replicated, so a failover changes what the scheduler sees.

What makes each part correct: the engine elects at most one leader per term,
never loses or rewrites a committed entry, and sends only what its receivers
accept; the driver applies every entry once and in order, makes state durable
before it acts on it, acknowledges only what stays, and never hangs; the store
recovers the last completed save or a later one; planning never drops a live
replica set below what it could keep; the scheduler moves data only for nodes
that are really gone, and heals what it can; the API answers every request,
forwards it once at most and acknowledges only what was committed; a node admits
writes only under authority that is current and committed.

## 2. Modules

| module | models | lines it stands for |
|---|---|---|
| `BrainRaft` | the engine, three or more members and the network | `raft.rs` |
| `ReplicatedLog` | abstract: what the group promises | |
| `RaftStore` | one member's files under crashes | `raft_store.rs`, and what the engine may do to the saved fields |
| `RaftDriver` | one member's concurrent drains | `raft_driver.rs`, and what a drain can see of the engine |
| `Membership` | the registry, the failure detector and the oracle, as operators | `membership.rs`, `oracle.rs`, `sanitize_report` |
| `ControlState` | the replicated commands and their application | `cluster.rs`, `placement.rs` |
| `Planning` | replica and leader choice, as operators | `plan.rs`, `leadership.rs`, `active_nodes_for_target` |
| `Scheduler` | the reconcile loop over the three above, with nodes, operators and leadership around it | `scheduler.rs` |
| `ControlApi` | the HTTP handlers on several members, over `Membership` | `api.rs`, `propose`/`await_commit`, the generation of `placement.rs` |
| `Handover` | publishers and node replicas | `tools/scheduler-data-plane-composition/src/lib.rs` |
| `WriteAuthority` | abstract: what write admission promises | |
| `MCBrainRaft`, `MCRaftDriver`, `MCScheduler`, `MCControlApi`, `MCHandover` | instances for TLC: bounds, starting states, symmetry | |
| `BrainRaftProofs`, `BrainRaftLogProofs`, `BrainRaftSafetyProofs` | proofs about the engine: elections; the invariant of the logs, and that a drain keeps it; that every handler does, and the theorems | |
| `RaftStoreProofs`, `RaftDriverProofs`, `SchedulerProofs`, `ControlApiProofs`, `HandoverProofs` | theorems and proofs of the other components | |

The models meet at contracts. `BrainRaft` assumes that a step is durable before
its messages leave; `RaftDriver` asks whether the driver keeps that (it does for
a drain's own changes, not for another's: section 5). `RaftDriver` and
`BrainRaft` treat a save as one event; `RaftStore` asks what a crash inside it
leaves. `Scheduler` and `ControlApi` use of Raft what `ReplicatedLog` and
`AckedIsCommitted` state: one log whose committed prefix stays, and a proposal
that is acknowledged only when it is in it. `Handover` starts where they end, at
a committed placement.

### BrainRaft

`raft[i]` is the `Raft` struct of member `i`, field by field, except the tick
counters, the jitter generator, `last_applied` and `dirty`. Every function of
the impl is an operator of the same name that returns the struct it leaves and
the messages it sends, so the calls nest as in the code: a response that
completes a quorum commits, broadcasts and, at the end of the drain, compacts in
one step. `Perform` is that drain. The state machine is the sequence of applied
entries; a snapshot is such a sequence, so a wrong snapshot is visible.

Timers fire whenever their branch of `tick` is reachable (`ElectionTimeout`,
`Heartbeat`, `CheckQuorum`), which covers every assignment of randomized
timeouts. `quiet` stands for the test of `election_elapsed` in the pre-vote
branch. `Restart` keeps exactly `Persisted`. Four variables are history, read by
properties and proofs only: `elected` and `voted`, `ledger[t]`, all that the leader
of term t has held, and `acked`, every successful answer to an append or a snapshot.

`ImplementsLog` maps the longest log any member knows committed to
`ReplicatedLog`'s one log, and each member's state machine to a prefix of it: a
restart or an installed snapshot must map to a stutter or an advance.

Left out: the membership check of `step` (every modelled sender is a member and
names itself), and `saturating_add` at 2^64.

### RaftStore

`mem` is the engine's `Persisted`; `Engine` moves it in every way the engine's
handlers can. `Save` and `Fold` begin a save (a drain's and a compaction's),
validation first; `WriteSnapshot`, `WriteLog`, `WriteMeta` are its renames.
`Crash` may fall anywhere. `recovered` and `bootable` are what `open` would
return and whether it would. A drain's save does not hold the engine lock, so
`Engine` runs between its renames; a compaction's does.

Besides its appends, cuts, votes and snapshots a handler may change the term and
nothing else. An entry is its term. A snapshot is the index of the last entry folded into it,
which the real bytes do not carry and nothing can check on recovery. Headerless
(v0) logs, torn or corrupted bytes, and a rename that succeeded although the sync
of its directory failed are left out.

### RaftDriver

A thread's `pc` follows `drain` line by line: `drain` (entry check), `persist`
and `saving` (under `io_lock`), `apply`, `compact`, `capture`, `fold`,
`folding` (both locks), `send`, `await`. The engine is reduced to what a drain
can see: its log's terms, commit and base, and a `version` that counts changes
of durable fields. `disk` is the version of the last save and a message carries
the version it was built from, so "is on disk" is a comparison. `Moves` is what
one locked call may do to such an engine. A
snapshot that is installed keeps the log behind its index when the log agrees
there and drops it when it does not. `FailClosed` covers every error path
that sets `available` to false.

The state machine records every entry index put through it; a no-op leaves the
real one alone and is recorded all the same, so that order and completeness can
be stated without looking at commands.

Left out: the store-less configuration, the three fallback replies a handler
makes up when its drain failed, and the torn read between `placement` and
`plan` while a snapshot is taken (both are read in one step here).

### Membership, ControlState, Planning, Scheduler

`sm` is one member's state machine: `members` (the registry, `Membership`),
`assignments` and `plan` (`ControlState`). `tick` is a reconciliation in
progress: the view `reconcile` takes at its start (known and active nodes, loads,
who reports hosting what, who is evacuated) and the shard it has come to. Each
shard is a step (`ReconcileShard`), each proposal is waited for (`awaits`), and
everything else may happen in between, so that the view grows old as it does in
the code. `log` holds proposals that are not committed yet; a wait may time out
(`TimeOut`) and the entry commit later. Between ticks `tick` is `Idle`, which awaits
nothing. `stray` is history: some proposal has
outlived its wait or its leader.

A sweep takes what its clock says of every node (`by_timeout`) and the oracle's
cache: fresh, expired, or outdated. `BeginTick` gives it the truth about
silence, and any cache Kubernetes may have left; `BeginMisjudged` a delay, a
partition, a clock jump or a pod that came back. `Failover` is a member that
starts anew and leads: placement and plan are replayed, the registry and the
policies are empty. `LoseLeadership`, `Follow` and `GainLeadership` are a member
that is deposed, sees another leader's placement commit, and leads again with its
old registry. The data plane is `hosts` and `alive`; a node reports what it holds
or what it holds once it has followed the map, or posts no body at all.

`plan_replicas` is written with sets and sorted keys instead of the code's loops:
every choice it makes ends in a comparison of ids, so the order in which it looks
at candidates does not matter. `Sorted` and `retain` are defined by counting what
comes before an element, as are the candidates `active_nodes_for_target` keeps: the
library's sorting and filtering of sequences compute the same, but are recursive or
take an operator, and the prover knows nothing of them. Node ids are numbers in the
order of the strings.
Of where a node is, the model keeps whether it has ever said so: before that it
counts as a failure domain of its own, as in the code. A report that names a region
but no failure domain is left out. What a report hosts and leads is a set, the
outcome of the sanitizing that drops repeated shards. A tick that finishes takes
the assigned nodes once and then proposes one removal after another (`Finalize`).

### ControlApi

`brain[b]` is one member's process, as its API sees it: its view of leadership,
`available`, the commit index it knows, its registry, and its placement map with
the generation. A map is the log index of the last assignment in it. `req[r].pc`
follows a handler: `arrived`, `route` (between `is_leader()` and
`leader_addr()`), `local`, `reading` (between the generation and the map of
`placement`), `await` and `refused` (`set_scale`), `done`. `answer[r]` is what the
client was told, by whoever told it first. `Placement::assign` is two steps, the
map and then the generation. Raft is reduced to one log; a member elected earlier
may go on believing that it leads, and gets nothing committed.

Left out: the reads that need no leader (`status`, `placement_shard`,
`list_policies`), request validation, and the policies themselves, which no
property looks at.

### Handover

`publisher[b]` is a `BrainPublisher`, `replica[n]` a `NodeReplica`, every public
call an action. A call that answers with an error changes nothing and is no step,
except that a rejected `stage` has already observed the term. `sent` and `fences`
only grow and anything in them can be delivered at any time, so delays,
repetitions and overtaking need no further actions. Raft is `elected` and
`chosen`, as it is an input to the crate. `early` is history: nodes that staged a
placement before Raft had committed it, which the crate leaves to its caller to
avoid. `copied[n]` is history too: the copies that n has acknowledged since it last
restarted, each with the placement it was made for, as long as that is the last one
it copied anything for. An activation is judged by it, not by
`acknowledged_shards`, which the code has to clear in time. `ImplementsAuthority` maps a node's observed term, active generation and
fence to `WriteAuthority`.

## 3. Runs

| run | bounds | shows |
|---|---|---|
| `raft_terms` | 3 members after a first election, terms to 3, no-ops only, any 3 of 2 timeouts, 1 check-quorum and 1 restart, 2 messages in flight | `TypeOK`, `ElectionSafety`, `VoteIsFinal`, `MatchIndexTruthful`, `CommittedOnQuorum`, `LogMatching`, `LeaderCompleteness` |
| `raft_compaction` | after a first commit, 1 command, compaction at 2 live entries, any 2 of 1 timeout, 1 heartbeat and 1 restart | `StateMachineSafety`, `SentWellFormed`, `Recoverable`, `ImplementsLog` |
| `store_recovery` | 2 terms, 2 indices, every crash point | `DiskCommitCovered`, `SavedCommitSurvives`, `EngineStateIsValid`, `SavedVoteIsFinal`, `DiskOnlyAdvances` |
| `store_unbootable` | 2 terms, 2 indices | violates `BootableMidSave` |
| `driver_drains` | 2 threads, fair, recovered with a committed entry, 2 terms, 3 entries, 5 durable changes, compaction at 2 entries | `AppliedInOrder`, `OwnChangeDurable`, `AckedIsCommitted`, `DiskNeverRegresses`, `DrainTerminates` |
| `driver_sent`, `driver_snapshot` | 2 threads | violate `SentIsDurable`, `SnapshotHoldsBase` |
| `handover` | 2 publishers, 1 replica followed of 2, 2 shards, 4 layouts of which 2 malformed, 2 generations, 1 leader change or restart, fair | `TypeOK`, `WritesFollowPlacement`, `FencesAreCommitted`, `NoPartialActivation`, `ImplementsAuthority`, `EventuallyServes` |
| `scheduler` | 3 nodes in 2 failure domains, 1 shard of 2 replicas, 2 uncommitted proposals, a plan for 2 nodes that may become 3, any 2 events | `TypeOK`, `WellPlaced`, `NeverShrinks`, `OnlyKnownReplicasMove`, `NoAssignedNodeForgotten` |
| `scheduler_liveness` | the same, a plan for 3 nodes that may become 2, a placement policy, any 1 event, fair | `Heals`, `DrainsEnd` |
| `scheduler_failover` | as `scheduler_liveness`, any 2 events | violates `FailuresReconcile` |
| `control_api` | 2 members, 2 requests in 6 workloads, 1 election, 1 fault, 1 assignment, fair | `TypeOK`, `ProposedTwiceAtMost`, `AckedPlanCommitted`, `CurrentGenerationCurrentMap`, `NewestReportKept`, `EventuallyAnswered` |

Why the bounds are enough to be interesting. Three members is the deployed
size of a group, and the smallest with a proper majority. Two messages in flight
allow any two to be reordered; whatever does not fit is lost, so loss is
exercised at every step. Two terms give a contested and a repeated election; the
third term is what a deposed leader needs to come back and meet its own old
suffix. The Raft runs start in states built by applying the handlers themselves
to a fresh group (`ElectedSpec`, `CommittedSpec`), so that the budget of timeouts
is spent on what follows. Compaction at two entries makes every boundary case of
base, next and prev index occur. For the store, two indices and two terms give
every combination of log, base and term a save can straddle. For the driver, two
threads suffice for one drain to overtake another at any point, and five durable
changes are what a proposal, its loss to another leader's entry and that entry's
commit take; the proofs cover any number of both.

Three nodes and two replicas leave one spare, the least in which a replica can
move, and starting with more copies than replicas makes the truncation happen;
two events are a fault inside a tick and one more, such as a death and a
fail-over, or a time-out and another leader's placement. Growing from two nodes to
three makes a new node take replicas, shrinking from three to two makes one give
them up. `scheduler_liveness` has one event, so `Heals` is about the aftermath of one
death, drain, time-out, wrong verdict or change of leadership, and not of two that
compound each other. `DrainsEnd` takes a drain for ended when a fail-over has emptied
the registry, and does not notice a removed node that registers again with its next
report. With one shard per
cluster the loads of other shards do not differ; several shards multiply the
states of a tick without a new guard. In the API a request can hop once, so two
members meet every case of who takes whom for the leader; the requests that share
nothing but the log run one at a time. In the handover replicas meet only through
what the publishers send, so one is followed; two generations are one in force
and one being rolled out.

Every bound is a constant of a cfg, named in its module. Symmetry is used over
members, commands and threads, in runs without liveness only; no operator orders
or chooses among them.

Deadlock is checked for `handover` and the scheduler runs. It is not for the
others: a run of `BrainRaft` or `ControlApi` stops when its budget is spent, a
store whose `open` failed stops for good, and a driver that failed closed accepts
no more work.

**Fairness.**
* `driver_drains` assumes weak fairness of `Drain(t)`, the step a thread inside a
  drain can take. The code justifies it: a waiting thread holds no lock another
  needs (the condition variables release the mutex they wait on), both waits are
  timed and re-check their condition, and locks are held only for a bounded save
  or step. Starting new drains is not fair: it need never happen.
* `handover`: what `docs/scheduler-data-plane-composition.md` assumes for
  liveness. A leader that leads keeps serving the committed generation
  (`Serving`), deliveries keep being made and copies finish (`Delivery`). Nothing
  forces an election, a publication, a commit or a restart.
* the scheduler runs: the loop runs on (an interval timer, `run`), a leader's
  proposals commit, some member leads, and every node that runs keeps following
  the map and reporting, as its sidecar does every second. No event is fair.
* `control_api`: a handler that has begun runs on (`Serve(r)`). Its only waits are
  `await_commit`, which is timed, and a forward, which its target answers or its
  connection refuses. Elections, commits and restarts are not fair.

Each property of a passing run has a mutant: the operators marked `Mutant` are
plausible slips in the code next to which they stand, and each breaks the
property it is paired with in `PROJECT.json`.

## 4. Proofs

All theorems hold for every value of the constants that satisfies the named
assumptions, so for any number of threads, members, terms and entries.

**BrainRaftProofs**
* `OneLeaderPerTerm`, `VotesAreFinal`: what a handler owes the group is stated
  once, as `Good`: the term does not go back, the vote does not move within a
  term, a candidate or leader counts only votes in the history `voted`, a leader
  counts a quorum, and a vote granted is the vote recorded. Each handler and
  timer has a lemma that its result is `Good`; `PerformKeeps` shows that a drain
  of a `Good` result keeps `ElectionInv`. `ElectionSafety` alone says nothing of
  votes, so `ElectionInv` adds that a member votes once in a term (`VotesInv`),
  that votes in flight were cast (`BallotsInv`), that the votes a candidate or
  leader holds were cast for it in its term (`MemberInv`), and that behind
  everyone elected stands a quorum (`MajorityInv`); two quorums of a finite group
  meet. Assumes a finite group and that `None` is no member.

**BrainRaftLogProofs, BrainRaftSafetyProofs**
* `EngineTypes`, `LogsMatch`, `LeadersComplete`, `CommittedIsHeld`,
  `MatchIsTruthful`, `MachinesAgree`, `RequestsWellFormed`, `StateIsRecoverable`: each
  follows from `LogInv` (with `ElectionInv`), and none of them is inductive alone.
  - Histories are not compared with each other but with `ledger`. `LedgerInv`: every
    leader's ledger is sound, that is, every entry in it, with all before it, is as the
    ledger of the entry's term has it. `MemberLog`: so is every member's history
    (the snapshot followed by the log), its indices fit together, a leader's history
    is its ledger, and what it counts as acknowledged is in `acked`. Log matching is
    soundness applied twice.
  - `AckInv`: what a member acknowledged to the leader of term u it still holds, unless a
    leader after u, no later than its own term, has a ledger that differs.
    Terms never shrink, so an acknowledgement late or repeated says what it said.
  - `Chosen(u, n)`: a majority has held the ledger of u through n, an entry of the
    leader's own. `Blocked(u, n)`: a majority is past term u and has not. Both are
    stable, and two majorities meet, so they exclude each other. `SafeInv`: what an
    earlier leader appended, a later leader has, or it is `Blocked`.
    `BallotInv` carries it through an election: the test of `log_ok` makes the
    candidate hold what each of its voters held, or a leader in between overwrote it.
  - Every commit index is `Backed` by a `Chosen` entry at or above it. A follower
    takes its commit index from an append, so `MessageOK` says the same of the commit
    index in every append in flight, and of the index of every snapshot.
  - A handler's result is `LogGood` when the history it leaves is the old one,
    one more entry of a leader, or a prefix of the ledger of its term, and its
    commit index is backed or counted. `PerformKeepsLog` shows that the drain of
    any such result, compaction included, keeps `LogInv`; each handler, timer
    and the restart has a lemma that it is `LogGood`.
  - `LogInv` was model-checked on the instances of `raft_terms` and
    `raft_compaction` before it was proved.
* `ImplementsReplicatedLog`: the refinement mapping takes the longest history below
  a commit index, which exists because the group is finite (`CommittedIsHeld`'s
  members have a greatest commit index); two committed prefixes agree, so a step
  extends the mapped log or leaves it, and `applied` maps to a prefix of it. Every
  step is one of `ReplicatedLog` or a stutter.
* Assumes, besides the above, that `None` is no command and that the threshold of
  compaction is positive.

**HandoverProofs**
* `TypeCorrect`, `FencesCommitted`, `WritesFollow`, `ActivatesWhole`, `Refinement`:
  `HandoverInv` is the types, `FencesAreCommitted`, `ChosenNumbered` (the
  placement at place g of `chosen` is numbered g) and `ReplicaInv`: a node stages only
  what comes after its active generation (`Ahead`), its fence is of its observed
  term (`Current`), what it counts as acknowledged was copied for what it has staged,
  and that was published (`CopiesMade`), and on a node that stages committed placements only, what it
  staged and what it has active are what was chosen (`Committed`).
  `NoPartialActivation` reads the history of copies and the guard of an
  activation the acknowledgements, so it needs `CopiesMade`: a restart or a newly
  staged placement must forget them. `WritesFollowPlacement` says nothing of staged placements, so it needs
  `Committed`: an activation makes staged shards the ones writes are
  admitted for. Each action has a lemma that it keeps the invariant, and under the
  invariant maps to a step of `WriteAuthority` or a stutter. For any sets of brains,
  nodes, shards and layouts; `None` must be no fence and no active placement.

**RaftDriverProofs**
* `TypeCorrect`, `AppliesInOrder`: `ApplyInv` is the types, `RestoreInv` and
  `AppliedInOrder`. `AppliedInOrder` alone is not inductive: a restore installs
  the bytes a thread has carried since its step, so `RestoreInv` says that they
  hold exactly the entries below `applied_from`, that no batch runs backwards and
  that no restore stays pending between steps. `EntriesConcat` is the arithmetic:
  the entries through `a` followed by those from `a` to `b` are those through `b`.
* `OwnChangeIsDurable`, `DiskOnlyMovesForward`: `DurableInv` adds `LockInv`
  (the locks are held by exactly the threads that save) and `VersionInv` (the
  disk trails the engine, and the image of a save in progress lies between the
  disk and the engine and covers its thread's own change).
* `AckedStaysCommitted`: `CommitInv` adds what a thread waits for (`Awaited`): while
  the engine is in the term of the proposal, it leads and has the entry at its
  index. Each locked call `Keeps` the committed entries and, while the member leads
  in one term, all entries; a wait that sees its index committed in its term
  therefore sees its own entry, and a committed entry is never replaced.

**RaftStoreProofs**
* `CommitIsCovered`, `VoteIsDurable`, `DiskAdvances`: `StoreInv` says how far
  apart disk, image and engine may be. `MetaInv`: meta is the last completed
  save's. `UpInv`: a running engine is ahead of the disk. `SaveInv`: a save's image lies
  between the two and has already written what precedes its next write.
  `Forward` (term and commit do not go back, a vote does not move within a term)
  is reflexive and transitive, and every engine step and compaction is one.
* `AcceptsEngine`: `ValidInv` says that the running engine and the image of a save
  in progress pass `validate_persisted`. That is inductive for the handlers because
  a valid log's terms rise and stay below the current term, which an append, a
  cut and a compaction each preserve, and because what `open` folds or repairs it
  validates before the engine starts.
* `CommitSurvives`: `KeepInv` says that the log file, the engine and the image keep
  what the last completed save had committed (`Keeps`: the same term at the same
  index, or folded), and the engine what a drain's image has. `Keeps` is transitive
  where commit and base do not go back, which `StoreInv` provides.

**ControlApiProofs**
* `ApiTypes`, `AckedPlansLast`, `PlansProposedTwice`, `GenerationsAreTruthful`,
  `NewestReportsKept`: `ApiInv` is the types, what holds of each member (`MemberOK`,
  `SeenOK`) and of each request (`CallOK`), so an action answers only for what it moves.
  - `AwaitOK` is what makes acknowledgements true: while the proposer is in the term of
    its proposal, the entry it waits for is still its own, or a later leader
    exists and the proposer has not seen the index commit. A member of an older term
    commits nothing more, since only the leader of the latest term does, so the second
    case never ends in an `ok`. An election that cuts the entry off leads from the first
    case to the second.
  - `CountOK` bounds the log's entries of a request by how far it has come: one for
    the member it reached, one for the member it was forwarded to.
  - `SeenOK`: what a poller has is not ahead of the member's generation, and if it is
    the member's, and no assignment is half done, so is the map; `ReadOK` is the
    same of a handler between its two reads.
  - `MemberOK` says that a node's shards in the registry are those of the newest
    numbered report or none; `ReportOK` that a report carries the shards of its number.
* Assumes a finite, nonempty set of members, that `None` is none of the values it
  stands beside, and that workloads name kinds of request. Raft is what `ControlApi`
  makes of it (section 2), which the proofs of `BrainRaft` and `RaftDriver` justify.

**SchedulerProofs**
* The planner, for any candidates, loads and failure domains. A key is a list of
  numbers that tells candidates apart, so one of two comes before the other
  (`BeforeTotal`, `BeforeTransitive`), `MinBy` picks an element and
  `Sorted` lists each once. Hence `retain`, one step of `fill`, `truncate` and
  `rebalance` make lists of different candidates out of such lists, and `PlanLists`: a
  plan has ReplicationFactor different candidates, or all there are. That the function
  `fill` defines exists, and does what each step does, is shown by the least place at
  which it would not. `LeaderAmongReplicas` is the same for the choice of a leader.
* `SchedulerTypes`, `PlacementsAreWellFormed`, `ShardsNeverShrink`,
  `KnownReplicasMove`, `NoPlacedNodeForgotten`: `Inv` has the registry
  (`Registered`), the placement (`Mapped`), the tick (`Ticking`: its loads are those of
  its candidates, and it has observed every shard that is not placed), the log
  (`Commands`: each proposal carries a placement that may be held), and `Pending`. A
  placement commits some time after it was planned, so what is true of a plan has to
  be true of what waits in the log: while nothing is stray, the only proposal of the
  loop in the log is the one the tick awaits (`Pending`), what it takes away it
  replaces, and takes only off nodes the registry has (`Gentle`). That still holds
  when it commits, because meanwhile nothing else changes the placement, and only
  the fail-over, which makes what is in the log stray, takes nodes out of the registry.
  `NoAssignedNodeForgotten` rests on `apply_command` alone and so holds of stray
  proposals too. Each action has a lemma that it keeps `Inv`, which was model-checked on
  the instance of `scheduler` first.
* Assumes a finite set of nodes, numbered, of which `None` is none; at least one shard
  and one replica; and that the locations and the initial hosts are about those nodes
  and shards.

Only model-checked. The liveness properties (`DrainTerminates`, `EventuallyServes`,
`Heals`, `DrainsEnd`, `EventuallyAnswered`) need fairness, which the prover does
not handle. What the four runs of section 5 refute
is refuted on their instances. Every safety property that a passing run checks is also
a theorem. Induction is by least or greatest elements of sets of naturals
(the library's well-founded order on them); its schemata, which take an operator, are
out of reach of the installed provers.

## 5. Findings

Four runs expect a violation; each states what a comment of the code promises.

1. `store_unbootable`: a crash between the snapshot and log writes of a member's
   first compaction, or between the log and meta writes of a save that raised
   the term, leaves a member that cannot start.
2. `driver_sent`: a drain without a change of its own sends, from memory, what
   another drain has not saved yet.
3. `driver_snapshot`: a drain with nothing to apply compacts past entries that
   another drain holds unapplied; the snapshot and the log both lack them.
4. `scheduler_failover`: a node that dies for good around a fail-over is never
   known to the new leader, so the hold on shards with unreported replicas keeps
   its shards under-replicated for ever. `Heals` is the promise with that case
   taken out, and holds.

Met while modelling, without a run of their own:
* The placement need not settle. `plan_replicas` swaps a replica to any candidate
  with a smaller load, by one even, and loads count the shard itself: with three
  healthy nodes, of which 1 and 2 share a failure domain, one shard goes
  `<<1, 3>>`, `<<2, 3>>`, `<<1, 3>>` and so on, a move per tick, against "doesn't
  churn" (`src/plan.rs:18`). `Heals` and `DrainsEnd` hold in spite of it.
* An assignment that timed out may commit much later, over a larger replica set
  another leader committed since. `NeverShrinks` and `OnlyKnownReplicasMove` are
  about runs without such a stray proposal.
* The hold on unheard nodes is the leader's: a member that follows applies what
  another leader decided, whose registry may know nodes its own does not.
  `OnlyKnownReplicasMove` is therefore about a member that leads. Without `leading` TLC
  finds it true with the two events of the `scheduler` run, and the proof shows why
  three break it: a fail-over, a loss of leadership, and the other leader's placement.
* Replicas on a Suspect node are moved, although `src/membership.rs:8` says that
  data is not moved yet.
* A generation number means something to a poller of one running member only: it
  restarts from 0 with the process and is counted by each member for itself.
* `install_write_fence` does not look at what is staged, so a fence of the active
  generation re-opens writes during a rollout that revoked them (invariant 6 of
  `docs/scheduler-data-plane-composition.md`); the writes still follow a committed
  placement.
* A follower that has compacted refuses a leader's delayed append, because `term_at`
  answers 0 for compacted entries. The leader rewinds and sends again.

## 6. Not modelled

* Process wiring, configuration, authentication, external locks, the data model:
  no state of their own. The forwarding client's time-out is in `ControlApi`.
* `LocalControlPlane`: applies a command on the spot, so nothing interleaves.
* The Kubernetes client and the timing of its polls: only the cache it leaves
  matters to a sweep, and `Scheduler` lets it be any.
* The worker pool of the runtime, which blocking proposals could exhaust: it is the
  library's, and would need a model of Tokio.
* The replay binary and the Quint models: tests of the scheduler, not the system.
* Byte-level file formats, the headerless v0 log, HTTP framing.

## 7. Plan

Done: all of the components above, two abstract specifications with their
refinements, and the proofs of section 4, which state every safety property and both
refinements that a passing run checks. What is left is liveness, which stays with TLC, and
widening the models that leave operations out (section 6).
