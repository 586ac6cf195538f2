----------------------------- MODULE RaftDriver -----------------------------
(***************************************************************************)
(* The driver of one brain member (src/src/raft_driver.rs): the threads    *)
(* that step the engine and drain what it hands back.  Tick loop, inbound  *)
(* RPCs, response deliveries and proposals run concurrently; each takes    *)
(* the engine lock for one step and ready(), releases it, and then drains: *)
(* persist, apply, compact, send.                                          *)
(*                                                                         *)
(* The engine is abstracted to what a drain can see of it.  `log` keeps    *)
(* every entry's term, `base` how much of it is compacted.  `version`      *)
(* counts the changes to its durable fields; `disk` is the version of the  *)
(* last save, and a message describes the version it was built from.       *)
(*                                                                         *)
(* The state machine is the sequence of the entries (by index) put through *)
(* it; a snapshot is such a sequence.  A no-op leaves the real one alone,  *)
(* and is recorded here all the same.                                      *)
(***************************************************************************)
EXTENDS Naturals, Sequences, FiniteSets, SequencesExt

CONSTANTS
    Thread,        \* concurrent drains
    None,          \* no thread
    Recovered,     \* the Persisted the member starts from
    NoOps,         \* log indices whose entry carries no command (a leader's term marker)
    MaxIndex,      \* bound on the log
    MaxTerm,       \* bound on the term
    MaxVersion,    \* bound on durable changes
    CompactThreshold   \* COMPACT_LOG_THRESHOLD

ASSUME ThreadAssumption == None \notin Thread
ASSUME BoundAssumption == /\ {MaxIndex, MaxTerm, MaxVersion} \subseteq Nat
                          /\ CompactThreshold \in Nat \ {0}
                          /\ NoOps \subseteq Nat
ASSUME RecoveredAssumption ==
    /\ Recovered.log \in Seq(Nat) /\ {Recovered.term, Recovered.commit, Recovered.base} \subseteq Nat
    /\ Recovered.base <= Recovered.commit /\ Recovered.commit <= Len(Recovered.log)

VARIABLES
    engine,      \* the Raft struct behind its mutex
    engine_lock, \* the thread holding that mutex across a compaction's fsync
    io_lock,     \* the thread holding io_lock
    disk,        \* version of the last completed save
    available,   \* the fail-closed flag
    watermark,   \* apply_watermark
    sm,          \* the live state machine
    thread,      \* [Thread -> where it is and what it carries]
    acked        \* history: <<index, term>> of proposals answered true

vars == <<engine, engine_lock, io_lock, disk, available, watermark, sm, thread, acked>>

MaxOf(a, b) == IF a >= b THEN a ELSE b

\* The entries from + 1 .. upto, in log order.
Entries(from, upto) == [k \in 1 .. (MaxOf(from, upto) - from) |-> from + k]

----------------------------------------------------------------------------
(* What one locked engine call may do.                                     *)

Changed(e) == [e EXCEPT !.version = @ + 1, !.dirty = TRUE]

\* A step that changes nothing durable: heartbeat, repeated append, stale answer.
Unchanged(e) == e

\* A step that enters a new term (vote granted, higher term seen).
NewTerm(e) == Changed([e EXCEPT !.term = @ + 1, !.leader = FALSE])

\* become_leader or propose: the leader appends an entry of its term.
AppendOwn(e) == Changed([e EXCEPT !.leader = TRUE, !.log = Append(@, e.term)])

\* handle_append: the entries from index k on are replaced by one of this term.
Splice(e, k) == Changed([e EXCEPT !.leader = FALSE, !.log = Append(SubSeq(@, 1, k - 1), e.term)])

\* The commit point moves to n.
Advance(e, n) == Changed([e EXCEPT !.commit = n])

\* Whether e's log may have the leader's entry at n: it has if it is of e's term, which
\* is the leader's.
Agreements(e, n) == {b \in BOOLEAN : IF b THEN n <= Len(e.log) ELSE n > Len(e.log) \/ e.log[n] # e.term}

\* handle_install_snapshot with boundary n: the leader's snapshot holds exactly the
\* entries through n.  The log is kept if it agrees at n, else all of it is dropped:
\* what was not committed below n is then another's.
Install(e, n, agrees) ==
    Changed([e EXCEPT !.leader = FALSE,
                      !.log = IF agrees THEN @
                              ELSE [k \in 1 .. n |-> IF k <= e.commit /\ k \in DOMAIN @ THEN @[k] ELSE e.term],
                      !.commit = n, !.last_applied = n, !.base = n,
                      !.snapshot = Entries(0, n), !.pending_restore = TRUE])

\* compact(): a no-op unless it moves the base within what is committed.
compact(e, index, data) ==
    IF index <= e.base \/ index > e.commit THEN e
    ELSE Changed([e EXCEPT !.base = index, !.snapshot = data])

Moves(e) ==
    {Unchanged(e)}
      \cup (IF e.version < MaxVersion
            THEN (IF e.term < MaxTerm THEN {NewTerm(e)} ELSE {})
                 \cup (IF Len(e.log) < MaxIndex /\ e.term > 0 THEN {AppendOwn(e)} ELSE {})
                 \cup (IF e.leader \/ e.term = 0 THEN {}
                       ELSE {Splice(e, k) : k \in e.commit + 1 .. MaxIndex \cap (1 .. Len(e.log) + 1)}
                            \cup UNION {{Install(e, n, b) : b \in Agreements(e, n)} : n \in e.commit + 1 .. MaxIndex})
                 \cup {Advance(e, n) : n \in e.commit + 1 .. Len(e.log)}
            ELSE {})

\* ready(): what the caller of a step carries into its drain.  `messages` is the
\* version its messages describe.
ready(e) ==
    [persist |-> e.dirty, restore |-> e.pending_restore,
     data |-> IF e.pending_restore THEN e.snapshot ELSE <<>>,
     applied_from |-> e.last_applied, applied_upto |-> e.commit,
     messages |-> e.version]

\* ready() also marks all of it handed over.
handed_over(e) == [e EXCEPT !.dirty = FALSE, !.pending_restore = FALSE, !.last_applied = e.commit]

NoReady == [persist |-> FALSE, restore |-> FALSE, data |-> <<>>,
            applied_from |-> 0, applied_upto |-> 0, messages |-> 0]
NoWait == <<0, 0>>
Idle == [pc |-> "idle", ready |-> NoReady, image |-> 0, data |-> <<>>, wait |-> NoWait]

----------------------------------------------------------------------------
(* Entering a drain.                                                       *)

Goto(t, pc) == thread' = [thread EXCEPT ![t].pc = pc]
Leave(t) == thread' = [thread EXCEPT ![t] = Idle]

\* tick, deliver or step_inbound: one locked step and ready().
Step(t) ==
    /\ thread[t].pc = "idle" /\ available /\ engine_lock = None
    /\ \E e \in Moves(engine) :
          /\ engine' = handed_over(e)
          /\ thread' = [thread EXCEPT ![t] = [Idle EXCEPT !.pc = "drain", !.ready = ready(e),
                                                          !.wait = NoWait]]
    /\ UNCHANGED <<engine_lock, io_lock, disk, available, watermark, sm, acked>>

\* propose(): the leader's append, to be awaited after its drain.
Propose(t) ==
    /\ thread[t].pc = "idle" /\ available /\ engine_lock = None
    /\ engine.leader /\ Len(engine.log) < MaxIndex /\ engine.version < MaxVersion
    /\ LET e == AppendOwn(engine) IN
          /\ engine' = handed_over(e)
          /\ thread' = [thread EXCEPT ![t] = [Idle EXCEPT !.pc = "drain", !.ready = ready(e),
                                                          !.wait = <<Len(e.log), e.term>>]]
    /\ UNCHANGED <<engine_lock, io_lock, disk, available, watermark, sm, acked>>

\* Mutant: a drain with commands to apply does not persist first.
Enter_applies_first(t) ==
    LET r == thread[t].ready IN
    /\ thread[t].pc = "drain"
    /\ IF available
       THEN Goto(t, IF r.persist /\ r.applied_upto = r.applied_from THEN "persist" ELSE "apply")
       ELSE Leave(t)
    /\ UNCHANGED <<engine, engine_lock, io_lock, disk, available, watermark, sm, acked>>

\* The availability check drain() starts with.
Enter(t) ==
    /\ thread[t].pc = "drain"
    /\ IF available THEN Goto(t, IF thread[t].ready.persist THEN "persist" ELSE "apply") ELSE Leave(t)
    /\ UNCHANGED <<engine, engine_lock, io_lock, disk, available, watermark, sm, acked>>

----------------------------------------------------------------------------
(* Persist.                                                                *)

\* Mutant: saves the state its own step left instead of the engine's latest.
PersistBegin_own(t) ==
    /\ thread[t].pc = "persist" /\ io_lock = None
    /\ IF available
       THEN /\ engine_lock = None
            /\ io_lock' = t
            /\ thread' = [thread EXCEPT ![t].pc = "saving", ![t].image = thread[t].ready.messages]
       ELSE Leave(t) /\ UNCHANGED io_lock
    /\ UNCHANGED <<engine, engine_lock, disk, available, watermark, sm, acked>>

\* Under io_lock, read the engine's latest durable state.
PersistBegin(t) ==
    /\ thread[t].pc = "persist" /\ io_lock = None
    /\ IF available
       THEN /\ engine_lock = None
            /\ io_lock' = t
            /\ thread' = [thread EXCEPT ![t].pc = "saving", ![t].image = engine.version]
       ELSE Leave(t) /\ UNCHANGED io_lock
    /\ UNCHANGED <<engine, engine_lock, disk, available, watermark, sm, acked>>

PersistEnd(t) ==
    /\ thread[t].pc = "saving"
    /\ disk' = thread[t].image
    /\ io_lock' = None
    /\ Goto(t, "apply")
    /\ UNCHANGED <<engine, engine_lock, available, watermark, sm, acked>>

\* A save, the decoding of a restored snapshot, the encoding of a new one or the
\* handoff to the outbox fails: this member is unavailable until it restarts.
FailClosed(t) ==
    LET r == thread[t].ready IN
    /\ \/ thread[t].pc \in {"saving", "folding", "capture", "send"}
       \/ thread[t].pc = "apply" /\ r.restore /\ available /\ r.applied_upto >= watermark
    /\ available' = FALSE
    /\ io_lock' = IF io_lock = t THEN None ELSE io_lock
    /\ engine_lock' = IF engine_lock = t THEN None ELSE engine_lock
    /\ Leave(t)
    /\ UNCHANGED <<engine, disk, watermark, sm, acked>>

----------------------------------------------------------------------------
(* Apply.                                                                  *)

has_batch(r) == r.restore \/ r.applied_upto > r.applied_from

\* Nothing to apply: the watermark is not looked at.
ApplyNothing(t) ==
    /\ thread[t].pc = "apply" /\ ~has_batch(thread[t].ready)
    /\ Goto(t, "compact")
    /\ UNCHANGED <<engine, engine_lock, io_lock, disk, available, watermark, sm, acked>>

\* A restore never waits; one older than the state machine is ignored.
ApplyRestore(t) ==
    LET r == thread[t].ready IN
    /\ thread[t].pc = "apply" /\ r.restore /\ available
    /\ IF r.applied_upto >= watermark
       THEN /\ sm' = r.data \o Entries(r.applied_from, r.applied_upto)
            /\ watermark' = r.applied_upto
       ELSE UNCHANGED <<sm, watermark>>
    /\ Goto(t, "compact")
    /\ UNCHANGED <<engine, engine_lock, io_lock, disk, available, acked>>

\* Mutant: does not wait for earlier batches.
ApplyBatch_at_once(t) ==
    LET r == thread[t].ready IN
    /\ thread[t].pc = "apply" /\ ~r.restore /\ has_batch(r) /\ available
    /\ sm' = sm \o Entries(MaxOf(r.applied_from, watermark), r.applied_upto)
    /\ watermark' = MaxOf(watermark, r.applied_upto)
    /\ Goto(t, "compact")
    /\ UNCHANGED <<engine, engine_lock, io_lock, disk, available, acked>>

\* Mutant: a batch without commands (a leader's no-op) does not move the watermark.
ApplyBatch_commands_only(t) ==
    LET r == thread[t].ready
        commands == (r.applied_from + 1 .. r.applied_upto) \ NoOps
    IN  /\ thread[t].pc = "apply" /\ ~r.restore /\ has_batch(r) /\ available
        /\ watermark >= r.applied_from
        /\ sm' = sm \o Entries(MaxOf(r.applied_from, watermark), r.applied_upto)
        /\ watermark' = IF commands = {} THEN watermark ELSE MaxOf(watermark, r.applied_upto)
        /\ Goto(t, "compact")
        /\ UNCHANGED <<engine, engine_lock, io_lock, disk, available, acked>>

\* A plain batch waits until every earlier one has been applied, then applies what
\* the state machine has not seen.
ApplyBatch(t) ==
    LET r == thread[t].ready IN
    /\ thread[t].pc = "apply" /\ ~r.restore /\ has_batch(r) /\ available
    /\ watermark >= r.applied_from
    /\ sm' = sm \o Entries(MaxOf(r.applied_from, watermark), r.applied_upto)
    /\ watermark' = MaxOf(watermark, r.applied_upto)
    /\ Goto(t, "compact")
    /\ UNCHANGED <<engine, engine_lock, io_lock, disk, available, acked>>

\* Another drain failed closed.
ApplyGivesUp(t) ==
    /\ thread[t].pc = "apply" /\ has_batch(thread[t].ready) /\ ~available
    /\ Leave(t)
    /\ UNCHANGED <<engine, engine_lock, io_lock, disk, available, watermark, sm, acked>>

----------------------------------------------------------------------------
(* Compact.                                                                *)

should_compact(r) ==
    Len(engine.log) - engine.base >= CompactThreshold /\ r.applied_upto > engine.base

MaybeCompact(t) ==
    /\ thread[t].pc = "compact" /\ engine_lock = None
    /\ Goto(t, IF should_compact(thread[t].ready) THEN "capture" ELSE "send")
    /\ UNCHANGED <<engine, engine_lock, io_lock, disk, available, watermark, sm, acked>>

\* snapshot_state_machine()
Capture(t) ==
    /\ thread[t].pc = "capture"
    /\ thread' = [thread EXCEPT ![t].pc = "fold", ![t].data = sm]
    /\ UNCHANGED <<engine, engine_lock, io_lock, disk, available, watermark, sm, acked>>

\* Both locks are held while the compacted candidate is saved.
FoldBegin(t) ==
    /\ thread[t].pc = "fold" /\ io_lock = None
    /\ IF available
       THEN engine_lock = None /\ engine_lock' = t /\ io_lock' = t /\ Goto(t, "folding")
       ELSE Leave(t) /\ UNCHANGED <<engine_lock, io_lock>>
    /\ UNCHANGED <<engine, disk, available, watermark, sm, acked>>

FoldEnd(t) ==
    /\ thread[t].pc = "folding"
    /\ engine' = compact(engine, thread[t].ready.applied_upto, thread[t].data)
    /\ disk' = engine'.version
    /\ io_lock' = None /\ engine_lock' = None
    /\ Goto(t, "send")
    /\ UNCHANGED <<available, watermark, sm, acked>>

----------------------------------------------------------------------------
(* Send, and await_commit().                                               *)

Send(t) ==
    /\ thread[t].pc = "send"
    /\ IF thread[t].wait = NoWait THEN Leave(t) ELSE Goto(t, "await")
    /\ UNCHANGED <<engine, engine_lock, io_lock, disk, available, watermark, sm, acked>>

\* Mutant: off by one, the entry before ours is committed.
committed_in_term_early(w) == engine.commit + 1 >= w[1] /\ engine.term = w[2]

committed_in_term(w) == engine.commit >= w[1] /\ engine.term = w[2]

\* The entry is committed in the term it was proposed in: answer true.
AwaitTrue(t) ==
    /\ thread[t].pc = "await" /\ engine_lock = None
    /\ committed_in_term(thread[t].wait)
    /\ acked' = acked \cup {thread[t].wait}
    /\ Leave(t)
    /\ UNCHANGED <<engine, engine_lock, io_lock, disk, available, watermark, sm>>

\* Deposed, unavailable, or COMMIT_TIMEOUT passed: answer false.
AwaitFalse(t) ==
    /\ thread[t].pc = "await" /\ engine_lock = None
    /\ ~committed_in_term(thread[t].wait)
    /\ Leave(t)
    /\ UNCHANGED <<engine, engine_lock, io_lock, disk, available, watermark, sm, acked>>

----------------------------------------------------------------------------

\* new(): the WAL snapshot is folded into the state machine, and applying resumes
\* from its base.
Init ==
    /\ engine = [term |-> Recovered.term, leader |-> FALSE, log |-> Recovered.log,
                 commit |-> Recovered.commit, last_applied |-> Recovered.base,
                 base |-> Recovered.base, snapshot |-> Entries(0, Recovered.base),
                 pending_restore |-> FALSE, dirty |-> FALSE, version |-> 0]
    /\ engine_lock = None /\ io_lock = None
    /\ disk = 0 /\ available = TRUE
    /\ watermark = Recovered.base /\ sm = Entries(0, Recovered.base)
    /\ thread = [t \in Thread |-> Idle]
    /\ acked = {}

Drain(t) ==
    \/ Enter(t)
    \/ PersistBegin(t) \/ PersistEnd(t) \/ FailClosed(t)
    \/ ApplyNothing(t) \/ ApplyRestore(t) \/ ApplyBatch(t) \/ ApplyGivesUp(t)
    \/ MaybeCompact(t) \/ Capture(t) \/ FoldBegin(t) \/ FoldEnd(t)
    \/ Send(t) \/ AwaitTrue(t) \/ AwaitFalse(t)

Next == \E t \in Thread : Step(t) \/ Propose(t) \/ Drain(t)

\* A thread inside a drain keeps running: no lock is held while it waits, every
\* wait is a timed condvar wait, and a contended lock is eventually its own.
Fairness == \A t \in Thread : WF_vars(Drain(t))

Spec == Init /\ [][Next]_vars
FairSpec == Spec /\ Fairness

----------------------------------------------------------------------------
(* Properties.                                                             *)

PCs == {"idle", "drain", "persist", "saving", "apply", "compact", "capture", "fold", "folding", "send", "await"}

EngineType ==
    [term : Nat, leader : BOOLEAN, log : Seq(Nat), commit : Nat, last_applied : Nat, base : Nat,
     snapshot : Seq(Nat), pending_restore : BOOLEAN, dirty : BOOLEAN, version : Nat]
ReadyType ==
    [persist : BOOLEAN, restore : BOOLEAN, data : Seq(Nat), applied_from : Nat,
     applied_upto : Nat, messages : Nat]
ThreadType ==
    [pc : PCs, ready : ReadyType, image : Nat, data : Seq(Nat), wait : Nat \X Nat]

\* Types of the shared state and of what each thread carries.
TypeOK ==
    /\ engine \in EngineType
    /\ engine_lock \in Thread \cup {None} /\ io_lock \in Thread \cup {None}
    /\ disk \in Nat /\ watermark \in Nat /\ available \in BOOLEAN
    /\ sm \in Seq(Nat)
    /\ thread \in [Thread -> ThreadType]
    /\ acked \subseteq Nat \X Nat

\* The live state machine is exactly the entries through the watermark, each once
\* and in log order, however drains and restores race to the apply point.
AppliedInOrder == sm = Entries(0, watermark)

\* No save ever writes an older engine state over a newer one (the reason drain()
\* re-reads the engine under io_lock).
DiskNeverRegresses == [][disk' >= disk]_vars

\* A drain whose own step changed durable state applies and sends only after a save
\* that includes the change.
OwnChangeDurable ==
    \A t \in Thread :
        (thread[t].ready.persist /\ thread[t].pc \in {"apply", "compact", "capture", "fold", "folding", "send", "await"})
            => disk >= thread[t].ready.messages

\* propose() answered true only for an entry that is committed and stays: no later
\* leader's entry ever takes its index.
AckedIsCommitted ==
    \A w \in acked : w[1] <= engine.commit /\ engine.log[w[1]] = w[2]

\* Every drain ends: no batch waits for ever for a predecessor.
DrainTerminates == \A t \in Thread : (thread[t].pc # "idle") ~> (thread[t].pc = "idle")

\* "persist must reach disk before its messages are sent ... Every path here routes
\* through drain, which persists first" (raft_driver.rs:9): no drain
\* reaches its send with messages that describe a state newer than the disk.
SentIsDurable == \A t \in Thread : thread[t].pc = "send" => thread[t].ready.messages <= disk

\* maybe_compact snapshots "the state machine as of applied_upto" or slightly newer
\* (raft_driver.rs:578): every entry through the base is in the snapshot.
SnapshotHoldsBase == IsPrefix(Entries(0, engine.base), engine.snapshot)
=============================================================================
