----------------------------- MODULE RaftStore -----------------------------
(***************************************************************************)
(* The durable home of one brain member (src/src/raft_store.rs): the       *)
(* files `snapshot`, `log` and `meta`, each replaced by an atomic rename,  *)
(* written in that order by save() and read and validated by open().       *)
(*                                                                         *)
(* The member may crash between any two renames.  Between saves the engine *)
(* (src/src/raft.rs) moves `mem`, its Persisted fields, by the steps below;*)
(* it may keep moving while a save is being written, because the driver    *)
(* reads the engine under its lock and then writes without it.             *)
(*                                                                         *)
(* An entry is its term (its index is its position: two entries of one     *)
(* index and term are the same entry).  A snapshot is the index of the     *)
(* last entry folded into its bytes; the bytes carry no index of their     *)
(* own, so neither does anything open() checks.  0 is the absent snapshot. *)
(* A headerless (v0) log and corrupted bytes are not modelled.             *)
(***************************************************************************)
EXTENDS Naturals, Sequences, FiniteSets

CONSTANTS
    Member,      \* whom a vote can name
    None,        \* the absent vote
    MaxTerm,     \* bound on current_term
    MaxIndex     \* bound on the last log index

ASSUME NoneAssumption == None \notin Member
ASSUME BoundAssumption == MaxTerm \in Nat /\ MaxIndex \in Nat

VARIABLES
    mem,       \* the engine's Persisted
    disk,      \* the three files
    status,    \* "up", "closed" (failed closed), "down" (crashed), "refused" (open failed)
    pc,        \* the next write of the save in progress, or "idle"
    image,     \* the Persisted the save in progress writes
    folding,   \* the save in progress is a compaction (the engine lock is held)
    saved      \* history: the Persisted of the last completed save

vars == <<mem, disk, status, pc, image, folding, saved>>

----------------------------------------------------------------------------
(* Persisted.                                                              *)

Empty == [current_term |-> 0, voted_for |-> None, commit_index |-> 0,
          log |-> <<>>, base_index |-> 0, base_term |-> 0, snapshot |-> 0]

last_index(p) == p.base_index + Len(p.log)

term_at(p, index) ==
    IF index = p.base_index THEN p.base_term
    ELSE IF p.base_index < index /\ index <= last_index(p) THEN p.log[index - p.base_index]
    ELSE 0

\* What validate_persisted accepts; true means Ok.
validate_persisted(p) ==
    /\ p.current_term = 0 => p.voted_for = None
    /\ p.base_index = 0 <=> p.base_term = 0
    /\ p.base_index > 0 <=> p.snapshot # 0
    /\ p.base_term <= p.current_term
    /\ p.base_index <= p.commit_index
    /\ \A k \in DOMAIN p.log :
          /\ p.log[k] \in 1 .. p.current_term
          /\ p.log[k] >= (IF k = 1 THEN p.base_term ELSE p.log[k - 1])
    /\ p.commit_index <= last_index(p)

----------------------------------------------------------------------------
(* What the engine does to its Persisted between saves.                    *)

\* become_follower: entering term t (or staying in it) forgets the vote of an older term.
Enter(p, t) ==
    [p EXCEPT !.current_term = t, !.voted_for = IF t > p.current_term THEN None ELSE @]

\* start_election, or the granting branch of handle_request_vote.
Vote(t, v) ==
    LET p == Enter(mem, t) IN
    /\ p.voted_for \in {None, v}
    /\ mem' = [p EXCEPT !.voted_for = v]

\* handle_append at term t: replace everything after `keep` by one entry of term e.
Splice(t, keep, e) ==
    LET p == Enter(mem, t) IN
    /\ keep < MaxIndex
    /\ e >= term_at(mem, keep)
    /\ mem' = [p EXCEPT !.log = Append(SubSeq(@, 1, keep - p.base_index), e)]

\* maybe_advance_commit, or leader_commit in handle_append.
Advance(n) == mem' = [mem EXCEPT !.commit_index = n]

\* handle_install_snapshot at term t, with boundary n of term e.
Install(t, n, e) ==
    LET p == Enter(mem, t) IN
    mem' = [p EXCEPT !.log = IF n <= last_index(p) /\ term_at(p, n) = e
                             THEN SubSeq(@, n - p.base_index + 1, Len(@)) ELSE <<>>,
                     !.base_index = n, !.base_term = e, !.snapshot = n, !.commit_index = n]

Engine ==
    /\ status = "up" /\ ~folding
    /\ \E t \in mem.current_term .. MaxTerm :
          /\ t > 0
          /\ \/ t > mem.current_term /\ mem' = Enter(mem, t)
             \/ \E v \in Member : Vote(t, v)
             \/ \E keep \in mem.commit_index .. last_index(mem), e \in 1 .. t : Splice(t, keep, e)
             \/ \E n \in mem.commit_index + 1 .. last_index(mem) : Advance(n)
             \/ \E n \in mem.commit_index + 1 .. MaxIndex, e \in 1 .. t :
                   e >= term_at(mem, mem.commit_index) /\ Install(t, n, e)
    /\ UNCHANGED <<disk, status, pc, image, folding, saved>>

----------------------------------------------------------------------------
(* save().                                                                 *)

\* Mutant: the log is not rewritten when its length has not changed.
FirstWrite_skips_log(p) ==
    IF p.snapshot # 0 THEN "snapshot" ELSE IF Len(p.log) = Len(saved.log) THEN "meta" ELSE "log"

\* The snapshot file is written only if there is a snapshot.
FirstWrite(p) == IF p.snapshot # 0 THEN "snapshot" ELSE "log"

\* save(p) begins: it validates p, and the driver fails closed if that fails.
Begin(p, fold) ==
    /\ status = "up" /\ pc = "idle"
    /\ image' = p
    /\ IF validate_persisted(p)
       THEN pc' = FirstWrite(p) /\ folding' = fold /\ UNCHANGED status
       ELSE status' = "closed" /\ UNCHANGED <<pc, folding>>
    /\ UNCHANGED <<mem, disk, saved>>

\* drain(): the latest Persisted, read under the IO lock.
Save == mem # saved /\ Begin(mem, FALSE)

MaxOf(a, b) == IF a >= b THEN a ELSE b

\* Mutant: compaction takes its index for the commit index.
compact_lowers_commit(p, n) ==
    [p EXCEPT !.log = SubSeq(@, n - p.base_index + 1, Len(@)), !.commit_index = n,
              !.base_index = n, !.base_term = term_at(p, n), !.snapshot = MaxOf(@, n)]

\* Mutant: the term of the boundary entry is read after the base has moved.
compact_loses_term(p, n) ==
    [p EXCEPT !.log = SubSeq(@, n - p.base_index + 1, Len(@)),
              !.base_index = n, !.base_term = 0, !.snapshot = MaxOf(@, n)]

\* The bytes are the live state machine's, which may have been restored from bytes
\* newer than the base.
compact(p, n) ==
    [p EXCEPT !.log = SubSeq(@, n - p.base_index + 1, Len(@)),
              !.base_index = n, !.base_term = term_at(p, n), !.snapshot = MaxOf(@, n)]

\* maybe_compact(): a compacted clone is saved before the engine becomes it.
Fold(n) ==
    /\ mem.base_index < n /\ n <= mem.commit_index
    /\ Begin(compact(mem, n), TRUE)

WriteSnapshot ==
    /\ status = "up" /\ pc = "snapshot"
    /\ disk' = [disk EXCEPT !.snapshot = image.snapshot]
    /\ pc' = "log"
    /\ UNCHANGED <<mem, status, image, folding, saved>>

\* One rename carries the base and the entries that continue from it.
WriteLog ==
    /\ status = "up" /\ pc = "log"
    /\ disk' = [disk EXCEPT !.log = [base_index |-> image.base_index, base_term |-> image.base_term,
                                     entries |-> image.log]]
    /\ pc' = "meta"
    /\ UNCHANGED <<mem, status, image, folding, saved>>

\* Mutant: meta takes the engine's commit index of now, not the image's.
WriteMeta_rereads ==
    /\ status = "up" /\ pc = "meta"
    /\ disk' = [disk EXCEPT !.meta = [exists |-> TRUE, current_term |-> image.current_term,
                                      voted_for |-> image.voted_for, commit_index |-> mem.commit_index]]
    /\ pc' = "idle"
    /\ saved' = image
    /\ folding' = FALSE
    /\ mem' = IF folding THEN image ELSE mem
    /\ UNCHANGED <<status, image>>

WriteMeta ==
    /\ status = "up" /\ pc = "meta"
    /\ disk' = [disk EXCEPT !.meta = [exists |-> TRUE, current_term |-> image.current_term,
                                      voted_for |-> image.voted_for, commit_index |-> image.commit_index]]
    /\ pc' = "idle"
    /\ saved' = image
    /\ folding' = FALSE
    /\ mem' = IF folding THEN image ELSE mem
    /\ UNCHANGED <<status, image>>

\* A write fails: the save returns the error and the driver fails closed.
WriteFails ==
    /\ status = "up" /\ pc # "idle"
    /\ status' = "closed"
    /\ pc' = "idle"
    /\ folding' = FALSE
    /\ UNCHANGED <<mem, disk, image, saved>>

----------------------------------------------------------------------------
(* Crash and open().                                                       *)

Crash ==
    /\ status \in {"up", "closed"}
    /\ status' = "down"
    /\ mem' = Empty /\ image' = Empty
    /\ pc' = "idle" /\ folding' = FALSE
    /\ UNCHANGED <<disk, saved>>

\* What open() reads: the log header's base is authoritative.
recovered ==
    [current_term |-> disk.meta.current_term, voted_for |-> disk.meta.voted_for,
     commit_index |-> MaxOf(disk.meta.commit_index, disk.log.base_index),
     log |-> disk.log.entries, base_index |-> disk.log.base_index,
     base_term |-> disk.log.base_term, snapshot |-> disk.snapshot]

durable_state_without_meta ==
    ~disk.meta.exists /\ (disk.log.base_index > 0 \/ disk.log.entries # <<>> \/ disk.snapshot # 0)

bootable == ~durable_state_without_meta /\ validate_persisted(recovered)

\* Mutant: the recovered member starts with its vote free.
Open_without_vote ==
    /\ status = "down" /\ bootable
    /\ status' = "up"
    /\ mem' = [recovered EXCEPT !.voted_for = None]
    /\ UNCHANGED <<disk, pc, image, folding, saved>>

\* Ok: the engine and the driver resume from it.  Rewriting the log canonically
\* leaves the same log.
Open ==
    /\ status = "down" /\ bootable
    /\ status' = "up"
    /\ mem' = recovered
    /\ UNCHANGED <<disk, pc, image, folding, saved>>

OpenFails ==
    /\ status = "down" /\ ~bootable
    /\ status' = "refused"
    /\ UNCHANGED <<mem, disk, pc, image, folding, saved>>

Init ==
    /\ mem = Empty /\ image = Empty /\ saved = Empty
    /\ disk = [meta |-> [exists |-> FALSE, current_term |-> 0, voted_for |-> None, commit_index |-> 0],
               log |-> [base_index |-> 0, base_term |-> 0, entries |-> <<>>],
               snapshot |-> 0]
    /\ status = "up" /\ pc = "idle" /\ folding = FALSE

Next ==
    \/ Engine
    \/ Save
    \/ \E n \in 1 .. MaxIndex : Fold(n)
    \/ WriteSnapshot \/ WriteLog \/ WriteMeta \/ WriteFails
    \/ Crash \/ Open \/ OpenFails

Spec == Init /\ [][Next]_vars

----------------------------------------------------------------------------
(* Properties.                                                             *)

PersistedType ==
    [current_term : Nat, voted_for : Member \cup {None}, commit_index : Nat,
     log : Seq(Nat), base_index : Nat, base_term : Nat, snapshot : Nat]
DiskType ==
    [meta : [exists : BOOLEAN, current_term : Nat, voted_for : Member \cup {None}, commit_index : Nat],
     log : [base_index : Nat, base_term : Nat, entries : Seq(Nat)],
     snapshot : Nat]

\* Types of the Persisted, the files and the control state.
TypeOK ==
    /\ mem \in PersistedType /\ image \in PersistedType /\ saved \in PersistedType
    /\ disk \in DiskType
    /\ status \in {"up", "closed", "down", "refused"}
    /\ pc \in {"idle", "snapshot", "log", "meta"}
    /\ folding \in BOOLEAN

\* save() writes "so commit_index can never reference entries that aren't yet on
\* disk" (raft_store.rs:200), nor meta a snapshot that is not (raft_store.rs:217):
\* at every instant, whatever the engine does while a save is being written.
DiskCommitCovered ==
    /\ disk.meta.commit_index <= disk.log.base_index + Len(disk.log.entries)
    /\ disk.log.base_index <= disk.snapshot

\* The store accepts whatever the engine has reached and whatever a compaction would
\* make of it: save() never refuses a state, which would take the member out of
\* service for good (raft_store.rs:207, raft_driver.rs:398 and 606).
EngineStateIsValid ==
    status = "up" =>
        /\ validate_persisted(mem)
        /\ \A n \in mem.base_index + 1 .. mem.commit_index : validate_persisted(compact(mem, n))

\* A vote that a completed save made final is never moved within its term, over any
\* crash in a later save and any recovery: the member cannot vote twice.
SavedVoteIsFinal ==
    [][/\ saved'.current_term >= saved.current_term
       /\ (saved'.current_term = saved.current_term /\ saved.voted_for # None)
             => saved'.voted_for = saved.voted_for]_vars

\* Whatever open() recovers, it holds every entry a completed save recorded as
\* committed, with the same term, in its log or folded into its snapshot.
SavedCommitSurvives ==
    bootable => /\ recovered.commit_index >= saved.commit_index
                /\ \A k \in 1 .. saved.commit_index :
                      \/ k <= recovered.base_index
                      \/ k <= saved.base_index
                      \/ term_at(recovered, k) = term_at(saved, k)

\* Recovery only ever moves the disk forward: no save writes an older commit index,
\* term or base over a newer one.
DiskOnlyAdvances ==
    [][/\ disk'.meta.current_term >= disk.meta.current_term
       /\ disk'.meta.commit_index >= disk.meta.commit_index
       /\ disk'.log.base_index >= disk.log.base_index]_vars

\* "A crash between the log and meta writes can leave meta a step behind"
\* (raft_store.rs:161), which open() recovers from, and the log's header exists so
\* that a crash between two writes cannot leave "a mismatch validate_recovered
\* rejects, i.e. an unbootable member" (raft_store.rs:45): a crash in the middle of a
\* save over existing files leaves a member that starts.
BootableMidSave ==
    pc \in {"log", "meta"} /\ disk.meta.exists => bootable
============================================================================
