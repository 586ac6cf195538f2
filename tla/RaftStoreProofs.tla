-------------------------- MODULE RaftStoreProofs --------------------------
(***************************************************************************)
(* Proofs about RaftStore, for any members, terms and log lengths: what    *)
(* the three files of a save guarantee at every crash point.               *)
(***************************************************************************)
EXTENDS RaftStore, SequenceTheorems, TLAPS

\* The indices of a Persisted fit together.
Legit(p) ==
    /\ p.base_index <= p.commit_index /\ p.commit_index <= last_index(p)
    /\ p.base_index <= p.snapshot

\* q is p or a later state of the same member: its term and commit index have not
\* gone back and, within a term, a vote has not moved.
Forward(p, q) ==
    /\ p.current_term <= q.current_term
    /\ p.commit_index <= q.commit_index
    /\ p.current_term = q.current_term /\ p.voted_for # None => q.voted_for = p.voted_for

\* The meta file is that of the last completed save.
MetaInv ==
    /\ disk.meta.current_term = saved.current_term
    /\ disk.meta.voted_for = saved.voted_for
    /\ disk.meta.commit_index = saved.commit_index

\* A running engine is ahead of the disk (but for the base, while it is folding).
UpInv ==
    status = "up" => /\ Legit(mem) /\ Forward(saved, mem)
                     /\ ~folding => disk.log.base_index <= mem.base_index

\* A save in progress writes a state between the disk's and the engine's, and has
\* already written what comes before its next write.
SaveInv ==
    /\ pc = "idle" => ~folding
    /\ pc # "idle" =>
         /\ status = "up"
         /\ Legit(image) /\ Forward(saved, image) /\ disk.log.base_index <= image.base_index
         /\ ~folding => Forward(image, mem) /\ image.base_index <= mem.base_index
    /\ pc = "log" => image.base_index <= disk.snapshot
    /\ pc = "meta" => /\ disk.log.base_index = image.base_index
                      /\ disk.log.entries = image.log

StoreInv == TypeOK /\ DiskCommitCovered /\ MetaInv /\ UpInv /\ SaveInv

----------------------------------------------------------------------------
(* Persisted.                                                              *)

LEMMA SliceLemma ==
    ASSUME NEW s \in Seq(Nat), NEW m \in 1 .. Len(s) + 1, NEW n \in 0 .. Len(s)
    PROVE  /\ SubSeq(s, m, n) \in Seq(Nat)
           /\ Len(SubSeq(s, m, n)) = IF m <= n THEN n - m + 1 ELSE 0
<1>1. m \in Int /\ n \in Int
  OBVIOUS
<1>2. \A i \in m .. n : s[i] \in Nat
  <2> TAKE i \in m .. n
  <2>1. i \in 1 .. Len(s)
    OBVIOUS
  <2>. QED
    BY <2>1
<1>. QED
  BY <1>1, <1>2, SubSeqProperties

LEMMA PersistedFields ==
    ASSUME NEW p \in PersistedType
    PROVE  /\ p.current_term \in Nat /\ p.commit_index \in Nat /\ p.base_index \in Nat
           /\ p.base_term \in Nat /\ p.snapshot \in Nat
           /\ p.voted_for \in Member \cup {None} /\ p.log \in Seq(Nat)
           /\ Len(p.log) \in Nat /\ last_index(p) \in Nat
BY DEF PersistedType, last_index

LEMMA ForwardReflexive ==
    ASSUME NEW p \in PersistedType PROVE Forward(p, p)
BY PersistedFields DEF Forward

LEMMA ForwardTransitive ==
    ASSUME NEW p \in PersistedType, NEW q \in PersistedType, NEW r \in PersistedType,
           Forward(p, q), Forward(q, r)
    PROVE  Forward(p, r)
BY PersistedFields DEF Forward

LEMMA TermAtType ==
    ASSUME NEW p \in PersistedType, NEW n \in Nat
    PROVE  term_at(p, n) \in Nat
<1>1. CASE n = p.base_index
  BY <1>1, PersistedFields DEF term_at
<1>2. CASE n # p.base_index /\ p.base_index < n /\ n <= last_index(p)
  <2>1. n - p.base_index \in 1 .. Len(p.log)
    BY <1>2, PersistedFields DEF last_index
  <2>2. p.log[n - p.base_index] \in Nat
    BY <2>1, PersistedFields
  <2>. QED
    BY <1>2, <2>2 DEF term_at
<1>3. CASE n # p.base_index /\ ~(p.base_index < n /\ n <= last_index(p))
  BY <1>3 DEF term_at
<1>. QED
  BY <1>1, <1>2, <1>3

\* Entering a term keeps everything but the vote of an older one.
LEMMA EnterLemma ==
    ASSUME NEW p \in PersistedType, NEW t \in Nat, t >= p.current_term
    PROVE  /\ Enter(p, t) \in PersistedType /\ Forward(p, Enter(p, t))
           /\ Enter(p, t).log = p.log /\ Enter(p, t).base_index = p.base_index
           /\ Enter(p, t).commit_index = p.commit_index /\ Enter(p, t).snapshot = p.snapshot
           /\ Enter(p, t).current_term = t
           /\ last_index(Enter(p, t)) = last_index(p)
<1> DEFINE v == IF t > p.current_term THEN None ELSE p.voted_for
           q == [p EXCEPT !.current_term = t, !.voted_for = v]
<1>1. v \in Member \cup {None}
  BY PersistedFields
<1>2. Enter(p, t) = q
  BY DEF Enter
<1>3. t > p.current_term \/ v = p.voted_for
  OBVIOUS
<1> HIDE DEF v
<1>4. q \in PersistedType
  BY <1>1 DEF PersistedType
<1>5. /\ q.log = p.log /\ q.base_index = p.base_index /\ q.commit_index = p.commit_index
      /\ q.snapshot = p.snapshot /\ q.current_term = t /\ q.voted_for = v
  BY DEF PersistedType
<1>6. Forward(p, q)
  BY <1>3, <1>5, PersistedFields DEF Forward
<1>. QED
  BY <1>2, <1>4, <1>5, <1>6 DEF last_index

\* Everything the engine does moves its Persisted forward and keeps it legitimate.
LEMMA EngineForward ==
    ASSUME TypeOK, Legit(mem), Engine
    PROVE  /\ mem' \in PersistedType /\ Legit(mem') /\ Forward(mem, mem')
           /\ mem.base_index <= mem'.base_index
<1> DEFINE Goal == /\ mem' \in PersistedType /\ Legit(mem') /\ Forward(mem, mem')
                   /\ mem.base_index <= mem'.base_index
<1>1. /\ mem \in PersistedType /\ mem.current_term \in Nat /\ mem.commit_index \in Nat
      /\ mem.base_index \in Nat /\ mem.snapshot \in Nat /\ mem.log \in Seq(Nat)
      /\ Len(mem.log) \in Nat /\ last_index(mem) = mem.base_index + Len(mem.log)
      /\ mem.base_index <= mem.commit_index /\ mem.commit_index <= last_index(mem)
      /\ mem.base_index <= mem.snapshot /\ last_index(mem) \in Nat
  BY PersistedFields DEF TypeOK, Legit, last_index
<1>2. PICK t \in mem.current_term .. MaxTerm :
          /\ t > 0
          /\ \/ t > mem.current_term /\ mem' = Enter(mem, t)
             \/ \E v \in Member : Vote(t, v)
             \/ \E keep \in mem.commit_index .. last_index(mem), e \in 1 .. t : Splice(t, keep, e)
             \/ \E n \in mem.commit_index + 1 .. last_index(mem) : Advance(n)
             \/ \E n \in mem.commit_index + 1 .. MaxIndex, e \in 1 .. t :
                   e >= term_at(mem, mem.commit_index) /\ Install(t, n, e)
  BY DEF Engine
<1>3. t \in Nat /\ t >= mem.current_term
  BY <1>1, <1>2, BoundAssumption
<1> DEFINE p == Enter(mem, t)
<1>4. /\ p \in PersistedType /\ Forward(mem, p) /\ p.log = mem.log
      /\ p.base_index = mem.base_index /\ p.commit_index = mem.commit_index
      /\ p.snapshot = mem.snapshot /\ p.current_term = t /\ last_index(p) = last_index(mem)
  BY <1>1, <1>3, EnterLemma
<1> HIDE DEF p
<1>5. ASSUME NEW v \in Member, Vote(t, v) PROVE Goal
  <2>1. p.voted_for \in {None, v} /\ mem' = [p EXCEPT !.voted_for = v]
    BY <1>5 DEF Vote, p
  <2>2. mem' \in PersistedType
    BY <1>4, <2>1 DEF PersistedType
  <2>3. /\ mem'.log = p.log /\ mem'.base_index = p.base_index /\ mem'.commit_index = p.commit_index
        /\ mem'.snapshot = p.snapshot /\ mem'.current_term = p.current_term /\ mem'.voted_for = v
    BY <1>4, <2>1 DEF PersistedType
  <2>4. Forward(p, mem')
    BY <1>1, <1>3, <1>4, <2>1, <2>3 DEF Forward
  <2>5. Forward(mem, mem')
    BY <1>1, <1>4, <2>2, <2>4, ForwardTransitive
  <2>6. Legit(mem')
    BY <1>1, <1>4, <2>3 DEF Legit, last_index
  <2>. QED
    BY <1>1, <1>4, <2>2, <2>3, <2>5, <2>6
<1>6. ASSUME NEW keep \in mem.commit_index .. last_index(mem), NEW e \in 1 .. t, Splice(t, keep, e)
      PROVE  Goal
  <2> DEFINE log == Append(SubSeq(mem.log, 1, keep - mem.base_index), e)
  <2>1. keep \in Nat /\ keep - mem.base_index \in 0 .. Len(mem.log) /\ e \in Nat
    BY <1>1, <1>3
  <2>2. /\ SubSeq(mem.log, 1, keep - mem.base_index) \in Seq(Nat)
        /\ Len(SubSeq(mem.log, 1, keep - mem.base_index)) = keep - mem.base_index
    <3>1. 1 \in 1 .. Len(mem.log) + 1
      BY <1>1
    <3>. QED
      BY SMTT(30), <1>1, <2>1, <3>1, SliceLemma
  <2>3. log \in Seq(Nat) /\ Len(log) = keep - mem.base_index + 1
    BY <2>1, <2>2
  <2>4. mem' = [p EXCEPT !.log = log]
    BY <1>4, <1>6 DEF Splice, p
  <2> HIDE DEF log
  <2>5. mem' \in PersistedType
    BY <1>4, <2>3, <2>4 DEF PersistedType
  <2>6. /\ mem'.log = log /\ mem'.base_index = p.base_index /\ mem'.commit_index = p.commit_index
        /\ mem'.snapshot = p.snapshot /\ mem'.current_term = p.current_term
        /\ mem'.voted_for = p.voted_for
    BY <1>4, <2>4 DEF PersistedType
  <2>7. Forward(mem, mem')
    BY <1>4, <2>6 DEF Forward
  <2>8. Legit(mem')
    BY SMTT(30), <1>1, <1>4, <2>1, <2>3, <2>6 DEF Legit, last_index
  <2>. QED
    BY <1>1, <1>4, <2>5, <2>6, <2>7, <2>8
<1>7. ASSUME NEW n \in mem.commit_index + 1 .. last_index(mem), Advance(n) PROVE Goal
  <2>1. n \in Nat /\ n >= mem.commit_index /\ n <= last_index(mem)
    BY <1>1
  <2>2. mem' = [mem EXCEPT !.commit_index = n]
    BY <1>7 DEF Advance
  <2>3. mem' \in PersistedType
    BY <1>1, <2>1, <2>2 DEF PersistedType
  <2>4. /\ mem'.log = mem.log /\ mem'.base_index = mem.base_index /\ mem'.commit_index = n
        /\ mem'.snapshot = mem.snapshot /\ mem'.current_term = mem.current_term
        /\ mem'.voted_for = mem.voted_for
    BY <1>1, <2>2 DEF PersistedType
  <2>. QED
    BY <1>1, <2>1, <2>3, <2>4 DEF Legit, Forward, last_index
<1>8. ASSUME NEW n \in mem.commit_index + 1 .. MaxIndex, NEW e \in 1 .. t, Install(t, n, e)
      PROVE  Goal
  <2> DEFINE agrees == n <= last_index(p) /\ term_at(p, n) = e
             log == IF agrees THEN SubSeq(p.log, n - p.base_index + 1, Len(p.log)) ELSE <<>>
  <2>1. n \in Nat /\ n >= mem.commit_index /\ e \in Nat
    BY <1>1, <1>3, BoundAssumption
  <2>2. log \in Seq(Nat)
    <3>1. CASE agrees
      <4>1. n - p.base_index + 1 \in 1 .. Len(p.log) + 1 /\ Len(p.log) \in 0 .. Len(p.log)
        BY SMTT(30), <1>1, <1>4, <2>1, <3>1
      <4>2. SubSeq(p.log, n - p.base_index + 1, Len(p.log)) \in Seq(Nat)
        BY <1>1, <1>4, <4>1, SliceLemma
      <4>. QED
        BY <3>1, <4>2
    <3>2. CASE ~agrees
      BY <3>2
    <3>. QED
      BY <3>1, <3>2
  <2>3. mem' = [p EXCEPT !.log = log, !.base_index = n, !.base_term = e, !.snapshot = n,
                         !.commit_index = n]
    BY <1>8 DEF Install, p
  <2> HIDE DEF log
  <2>4. mem' \in PersistedType
    BY <1>4, <2>1, <2>2, <2>3 DEF PersistedType
  <2>5. /\ mem'.log = log /\ mem'.base_index = n /\ mem'.commit_index = n /\ mem'.snapshot = n
        /\ mem'.current_term = p.current_term /\ mem'.voted_for = p.voted_for
    BY <1>4, <2>3 DEF PersistedType
  <2>6. Forward(mem, mem')
    BY <1>1, <1>4, <2>1, <2>5 DEF Forward
  <2>7. Legit(mem')
    BY <2>1, <2>2, <2>5 DEF Legit, last_index
  <2>. QED
    BY <1>1, <2>1, <2>4, <2>5, <2>6, <2>7
<1>9. ASSUME mem' = p PROVE Goal
  BY <1>1, <1>4, <1>9 DEF Legit
<1>. QED
  BY <1>2, <1>5, <1>6, <1>7, <1>8, <1>9 DEF p

\* Compaction moves the base to n and keeps term, vote and commit index.
LEMMA CompactLemma ==
    ASSUME NEW p \in PersistedType, Legit(p), NEW n \in Nat,
           p.base_index < n, n <= p.commit_index
    PROVE  /\ compact(p, n) \in PersistedType /\ Legit(compact(p, n))
           /\ Forward(p, compact(p, n)) /\ compact(p, n).base_index = n
<1> DEFINE log == SubSeq(p.log, n - p.base_index + 1, Len(p.log))
           e == term_at(p, n)
           b == MaxOf(p.snapshot, n)
           q == [p EXCEPT !.log = log, !.base_index = n, !.base_term = e, !.snapshot = b]
<1>1. /\ p.current_term \in Nat /\ p.commit_index \in Nat /\ p.base_index \in Nat
      /\ p.snapshot \in Nat /\ p.log \in Seq(Nat) /\ Len(p.log) \in Nat
      /\ p.commit_index <= p.base_index + Len(p.log)
  BY PersistedFields DEF Legit, last_index
<1>2. /\ n - p.base_index + 1 \in 1 .. Len(p.log) + 1
      /\ Len(p.log) \in 0 .. Len(p.log)
  BY SMTT(30), <1>1
<1>3. log \in Seq(Nat) /\ Len(log) = p.base_index + Len(p.log) - n
  <2>1. /\ log \in Seq(Nat)
        /\ Len(log) = IF n - p.base_index + 1 <= Len(p.log)
                      THEN Len(p.log) - (n - p.base_index + 1) + 1 ELSE 0
    BY <1>1, <1>2, SliceLemma
  <2> HIDE DEF log
  <2>2. CASE n - p.base_index + 1 <= Len(p.log)
    BY <1>1, <2>1, <2>2
  <2>3. CASE ~(n - p.base_index + 1 <= Len(p.log))
    <3>1. Len(log) = 0
      BY <2>1, <2>3
    <3>2. p.base_index + Len(p.log) - n = 0
      BY SMTT(30), <1>1, <2>3
    <3>. QED
      BY <2>1, <3>1, <3>2
  <2>. QED
    BY <2>2, <2>3
<1>4. e \in Nat
  BY TermAtType
<1>5. b \in Nat /\ b >= n
  BY <1>1 DEF MaxOf
<1>6. compact(p, n) = q
  BY DEF compact
<1> HIDE DEF log, e, b
<1>7. q \in PersistedType
  BY <1>3, <1>4, <1>5 DEF PersistedType
<1>8. /\ q.log = log /\ q.base_index = n /\ q.snapshot = b /\ q.commit_index = p.commit_index
      /\ q.current_term = p.current_term /\ q.voted_for = p.voted_for
  BY DEF PersistedType
<1>9. Legit(q)
  BY <1>1, <1>3, <1>5, <1>8 DEF Legit, last_index
<1>10. Forward(p, q)
  BY <1>1, <1>8 DEF Forward
<1>. QED
  BY <1>6, <1>7, <1>8, <1>9, <1>10

LEMMA EmptyLemma == Empty \in PersistedType /\ Legit(Empty) /\ Forward(Empty, Empty)
<1>1. Empty \in PersistedType
  BY DEF Empty, PersistedType
<1>2. Legit(Empty)
  BY DEF Empty, Legit, last_index
<1>. QED
  BY <1>1, <1>2, ForwardReflexive

\* What open() reads is legitimate and not behind the last completed save.
LEMMA RecoveredLemma ==
    ASSUME TypeOK, DiskCommitCovered, MetaInv
    PROVE  /\ recovered \in PersistedType /\ Legit(recovered) /\ Forward(saved, recovered)
           /\ recovered.base_index = disk.log.base_index
<1>1. /\ disk.meta.current_term \in Nat /\ disk.meta.commit_index \in Nat
      /\ disk.meta.voted_for \in Member \cup {None} /\ disk.log.base_index \in Nat
      /\ disk.log.base_term \in Nat /\ disk.log.entries \in Seq(Nat) /\ disk.snapshot \in Nat
      /\ Len(disk.log.entries) \in Nat
  BY DEF TypeOK, DiskType
<1> DEFINE c == MaxOf(disk.meta.commit_index, disk.log.base_index)
<1>2. c \in Nat /\ c >= disk.meta.commit_index /\ c >= disk.log.base_index
      /\ c <= disk.log.base_index + Len(disk.log.entries)
  BY <1>1 DEF MaxOf, DiskCommitCovered
<1>3. /\ recovered.current_term = disk.meta.current_term /\ recovered.voted_for = disk.meta.voted_for
      /\ recovered.commit_index = c /\ recovered.log = disk.log.entries
      /\ recovered.base_index = disk.log.base_index /\ recovered.snapshot = disk.snapshot
  BY DEF recovered
<1> HIDE DEF c
<1>4. recovered \in PersistedType
  <2>1. recovered = [current_term |-> disk.meta.current_term, voted_for |-> disk.meta.voted_for,
                     commit_index |-> c, log |-> disk.log.entries,
                     base_index |-> disk.log.base_index, base_term |-> disk.log.base_term,
                     snapshot |-> disk.snapshot]
    BY DEF recovered, c
  <2>. QED
    BY <1>1, <1>2, <2>1 DEF PersistedType
<1>5. Legit(recovered)
  BY <1>1, <1>2, <1>3 DEF Legit, last_index, DiskCommitCovered
<1>6. Forward(saved, recovered)
  BY <1>1, <1>2, <1>3 DEF Forward, MetaInv
<1>. QED
  BY <1>3, <1>4, <1>5, <1>6

----------------------------------------------------------------------------
(* The inductive invariant.                                                *)

LEMMA StoreInit == Init => StoreInv
<1> SUFFICES ASSUME Init PROVE StoreInv
  OBVIOUS
<1>1. disk \in DiskType
  BY DEF Init, DiskType
<1>2. TypeOK
  BY <1>1, EmptyLemma DEF Init, TypeOK
<1>3. DiskCommitCovered
  BY DEF Init, DiskCommitCovered
<1>4. MetaInv
  BY DEF Init, MetaInv, Empty
<1>5. UpInv /\ SaveInv
  BY EmptyLemma DEF Init, UpInv, SaveInv, Empty
<1>. QED
  BY <1>2, <1>3, <1>4, <1>5 DEF StoreInv

\* What one step may change of the disk and of the last completed save.
Advances ==
    /\ disk'.meta.current_term >= disk.meta.current_term
    /\ disk'.meta.commit_index >= disk.meta.commit_index
    /\ disk'.log.base_index >= disk.log.base_index
    /\ Forward(saved, saved')

LEMMA StoreNext == StoreInv /\ [Next]_vars => StoreInv' /\ Advances
<1> SUFFICES ASSUME StoreInv, [Next]_vars PROVE StoreInv' /\ Advances
  OBVIOUS
<1>0. /\ TypeOK /\ DiskCommitCovered /\ MetaInv /\ UpInv /\ SaveInv
      /\ mem \in PersistedType /\ image \in PersistedType /\ saved \in PersistedType
      /\ disk \in DiskType
  BY DEF StoreInv, TypeOK
<1>1. /\ disk.meta.current_term \in Nat /\ disk.meta.commit_index \in Nat
      /\ disk.meta.exists \in BOOLEAN /\ disk.meta.voted_for \in Member \cup {None}
      /\ disk.log.base_index \in Nat /\ disk.log.base_term \in Nat
      /\ disk.log.entries \in Seq(Nat) /\ Len(disk.log.entries) \in Nat /\ disk.snapshot \in Nat
      /\ disk.meta \in [exists : BOOLEAN, current_term : Nat, voted_for : Member \cup {None},
                        commit_index : Nat]
      /\ disk.log \in [base_index : Nat, base_term : Nat, entries : Seq(Nat)]
  BY <1>0 DEF DiskType
<1>2. ASSUME UNCHANGED <<disk, saved>> PROVE Advances
  <2>1. Forward(saved, saved)
    BY <1>0, ForwardReflexive
  <2>. QED
    BY <1>1, <1>2, <2>1 DEF Advances
<1>3. CASE UNCHANGED vars
  <2>1. StoreInv'
    BY <1>0, <1>3 DEF vars, StoreInv, TypeOK, DiskCommitCovered, MetaInv, UpInv, SaveInv
  <2>. QED
    BY <1>2, <1>3, <2>1 DEF vars
<1>4. CASE Engine
  <2>1. status = "up" /\ ~folding /\ UNCHANGED <<disk, status, pc, image, folding, saved>>
    BY <1>4 DEF Engine
  <2>2. Legit(mem) /\ Forward(saved, mem) /\ disk.log.base_index <= mem.base_index
    BY <1>0, <2>1 DEF UpInv
  <2>3. /\ mem' \in PersistedType /\ Legit(mem') /\ Forward(mem, mem')
        /\ mem.base_index <= mem'.base_index
    BY <1>0, <1>4, <2>2, EngineForward
  <2>4. mem.base_index \in Nat /\ mem'.base_index \in Nat /\ image.base_index \in Nat
    BY <1>0, <2>3, PersistedFields
  <2>5. UpInv'
    <3>1. Forward(saved, mem')
      BY <1>0, <2>2, <2>3, ForwardTransitive
    <3>. QED
      BY <1>1, <2>1, <2>2, <2>3, <2>4, <3>1 DEF UpInv
  <2>6. SaveInv'
    <3>1. CASE pc # "idle"
      <4>1. Forward(image, mem) /\ image.base_index <= mem.base_index
        BY <1>0, <2>1, <3>1 DEF SaveInv
      <4>2. Forward(image, mem') /\ image.base_index <= mem'.base_index
        BY <1>0, <2>3, <2>4, <4>1, ForwardTransitive
      <4>. QED
        BY <1>0, <2>1, <4>2 DEF SaveInv
    <3>2. CASE pc = "idle"
      BY <1>0, <2>1, <3>2 DEF SaveInv
    <3>. QED
      BY <3>1, <3>2
  <2>7. (TypeOK /\ DiskCommitCovered /\ MetaInv)'
    BY <1>0, <2>1, <2>3 DEF TypeOK, DiskCommitCovered, MetaInv
  <2>. QED
    BY <1>2, <2>1, <2>5, <2>6, <2>7 DEF StoreInv
\* Either save starts: its image is legitimate and ahead of the disk.
<1>5. ASSUME NEW p \in PersistedType, NEW fold \in BOOLEAN, Begin(p, fold), Legit(p),
             Forward(mem, p), mem.base_index <= p.base_index, ~fold => p = mem
      PROVE  StoreInv' /\ Advances
  <2>1. /\ status = "up" /\ pc = "idle" /\ image' = p /\ UNCHANGED <<mem, disk, saved>>
    BY <1>5 DEF Begin
  <2>2. ~folding /\ Legit(mem) /\ Forward(saved, mem) /\ disk.log.base_index <= mem.base_index
    BY <1>0, <2>1 DEF UpInv, SaveInv
  <2>3. mem.base_index \in Nat /\ p.base_index \in Nat /\ p.snapshot \in Nat
    BY <1>0, PersistedFields
  <2>4. Forward(saved, p) /\ disk.log.base_index <= p.base_index
    BY <1>0, <1>1, <1>5, <2>2, <2>3, ForwardTransitive
  <2>5. CASE validate_persisted(p)
    <3>1. pc' = FirstWrite(p) /\ folding' = fold /\ status' = "up"
      BY <1>5, <2>1, <2>5 DEF Begin
    <3>2. pc' \in {"snapshot", "log"}
      BY <3>1 DEF FirstWrite
    <3>3. pc' = "log" => p.base_index <= disk.snapshot
      <4>1. pc' = "log" => p.snapshot = 0
        BY <3>1 DEF FirstWrite
      <4>. QED
        BY <1>1, <1>5, <2>3, <4>1 DEF Legit
    <3>4. ~fold => Forward(p, mem) /\ p.base_index <= mem.base_index
      BY <1>0, <1>5, <2>3, ForwardReflexive
    <3>5. SaveInv'
      BY <1>5, <2>1, <2>4, <3>1, <3>2, <3>3, <3>4 DEF SaveInv
    <3>6. UpInv'
      BY <2>1, <2>2, <3>1 DEF UpInv
    <3>7. (TypeOK /\ DiskCommitCovered /\ MetaInv)'
      BY <1>0, <1>5, <2>1, <3>1, <3>2 DEF TypeOK, DiskCommitCovered, MetaInv
    <3>. QED
      BY <1>2, <2>1, <3>5, <3>6, <3>7 DEF StoreInv
  <2>6. CASE ~validate_persisted(p)
    <3>1. status' = "closed" /\ UNCHANGED <<pc, folding>>
      BY <1>5, <2>6 DEF Begin
    <3>2. (UpInv /\ SaveInv)'
      BY <2>1, <2>2, <3>1 DEF UpInv, SaveInv
    <3>3. (TypeOK /\ DiskCommitCovered /\ MetaInv)'
      BY <1>0, <2>1, <3>1 DEF TypeOK, DiskCommitCovered, MetaInv
    <3>. QED
      BY <1>2, <2>1, <3>2, <3>3 DEF StoreInv
  <2>. QED
    BY <2>5, <2>6
<1>6. CASE Save
  <2>1. Legit(mem) /\ Forward(mem, mem) /\ mem.base_index <= mem.base_index
    BY <1>0, <1>6, ForwardReflexive, PersistedFields DEF Save, Begin, UpInv
  <2>. QED
    BY <1>0, <1>5, <1>6, <2>1 DEF Save
<1>7. ASSUME NEW n \in 1 .. MaxIndex, Fold(n) PROVE StoreInv' /\ Advances
  <2>1. n \in Nat /\ mem.base_index < n /\ n <= mem.commit_index /\ Legit(mem)
    BY <1>0, <1>7, BoundAssumption DEF Fold, Begin, UpInv
  <2> DEFINE p == compact(mem, n)
  <2>2. p \in PersistedType /\ Legit(p) /\ Forward(mem, p) /\ p.base_index = n
    BY <1>0, <2>1, CompactLemma
  <2>3. mem.base_index <= p.base_index
    BY <1>0, <2>1, <2>2, PersistedFields
  <2>4. Begin(p, TRUE)
    BY <1>7 DEF Fold
  <2> HIDE DEF p
  <2>. QED
    BY <1>5, <2>2, <2>3, <2>4
<1>8. CASE WriteSnapshot
  <2>1. /\ status = "up" /\ pc = "snapshot" /\ pc' = "log"
        /\ disk' = [disk EXCEPT !.snapshot = image.snapshot]
        /\ UNCHANGED <<mem, status, image, folding, saved>>
    BY <1>8 DEF WriteSnapshot
  <2>2. image.snapshot \in Nat /\ image.base_index \in Nat
    BY <1>0, PersistedFields
  <2>3. disk' \in DiskType /\ disk'.meta = disk.meta /\ disk'.log = disk.log
        /\ disk'.snapshot = image.snapshot
    BY <1>0, <2>1, <2>2 DEF DiskType
  <2>4. Legit(image) /\ disk.log.base_index <= image.base_index
    BY <1>0, <2>1 DEF SaveInv
  <2>5. (DiskCommitCovered /\ MetaInv)'
    BY <1>0, <1>1, <2>1, <2>2, <2>3, <2>4 DEF DiskCommitCovered, MetaInv, Legit
  <2>6. (UpInv /\ SaveInv)'
    BY <1>0, <2>1, <2>3, <2>4 DEF UpInv, SaveInv, Legit
  <2>7. TypeOK'
    BY <1>0, <2>1, <2>3 DEF TypeOK
  <2>8. Advances
    BY <1>0, <1>1, <2>1, <2>3, ForwardReflexive DEF Advances
  <2>. QED
    BY <2>5, <2>6, <2>7, <2>8 DEF StoreInv
<1>9. CASE WriteLog
  <2> DEFINE l == [base_index |-> image.base_index, base_term |-> image.base_term,
                   entries |-> image.log]
  <2>1. /\ status = "up" /\ pc = "log" /\ pc' = "meta"
        /\ disk' = [disk EXCEPT !.log = l]
        /\ UNCHANGED <<mem, status, image, folding, saved>>
    BY <1>9 DEF WriteLog
  <2>2. /\ image.snapshot \in Nat /\ image.base_index \in Nat /\ image.commit_index \in Nat
        /\ image.base_term \in Nat /\ image.log \in Seq(Nat) /\ Len(image.log) \in Nat
        /\ saved.commit_index \in Nat /\ mem.base_index \in Nat
    BY <1>0, PersistedFields
  <2>3. disk' \in DiskType /\ disk'.meta = disk.meta /\ disk'.log = l /\ disk'.snapshot = disk.snapshot
    <3>1. l \in [base_index : Nat, base_term : Nat, entries : Seq(Nat)]
      BY <2>2
    <3> HIDE DEF l
    <3>. QED
      BY <1>0, <2>1, <3>1 DEF DiskType
  <2>4. /\ Legit(image) /\ Forward(saved, image) /\ disk.log.base_index <= image.base_index
        /\ image.base_index <= disk.snapshot
        /\ ~folding => Forward(image, mem) /\ image.base_index <= mem.base_index
    BY <1>0, <2>1 DEF SaveInv
  <2>5. DiskCommitCovered'
    <3>1. disk.meta.commit_index <= image.commit_index
      BY <1>0, <2>4 DEF MetaInv, Forward
    <3>2. image.commit_index <= image.base_index + Len(image.log)
      BY <2>4 DEF Legit, last_index
    <3>. QED
      BY SMTT(30), <1>1, <2>2, <2>3, <2>4, <3>1, <3>2 DEF DiskCommitCovered
  <2>6. MetaInv'
    BY <1>0, <2>1, <2>3 DEF MetaInv
  <2>7. UpInv'
    BY <1>0, <2>1, <2>3, <2>4 DEF UpInv
  <2>8. SaveInv'
    BY <1>0, <2>1, <2>2, <2>3, <2>4 DEF SaveInv
  <2>9. TypeOK'
    BY <1>0, <2>1, <2>3 DEF TypeOK
  <2>10. Advances
    BY SMTT(30), <1>0, <1>1, <2>1, <2>2, <2>3, <2>4, ForwardReflexive DEF Advances
  <2>. QED
    BY <2>5, <2>6, <2>7, <2>8, <2>9, <2>10 DEF StoreInv
<1>10. CASE WriteMeta
  <2> DEFINE m == [exists |-> TRUE, current_term |-> image.current_term,
                   voted_for |-> image.voted_for, commit_index |-> image.commit_index]
  <2>1. /\ status = "up" /\ pc = "meta" /\ pc' = "idle"
        /\ disk' = [disk EXCEPT !.meta = m]
        /\ saved' = image /\ folding' = FALSE
        /\ mem' = IF folding THEN image ELSE mem
        /\ UNCHANGED <<status, image>>
    BY <1>10 DEF WriteMeta
  <2>2. /\ image.current_term \in Nat /\ image.commit_index \in Nat /\ image.base_index \in Nat
        /\ image.voted_for \in Member \cup {None} /\ Len(image.log) \in Nat
        /\ saved.current_term \in Nat /\ saved.commit_index \in Nat
    BY <1>0, PersistedFields
  <2>3. disk' \in DiskType /\ disk'.meta = m /\ disk'.log = disk.log /\ disk'.snapshot = disk.snapshot
    <3>1. m \in [exists : BOOLEAN, current_term : Nat, voted_for : Member \cup {None},
                 commit_index : Nat]
      BY <2>2
    <3> HIDE DEF m
    <3>. QED
      BY <1>0, <2>1, <3>1 DEF DiskType
  <2>4. /\ Legit(image) /\ Forward(saved, image)
        /\ disk.log.base_index = image.base_index /\ disk.log.entries = image.log
        /\ ~folding => Forward(image, mem) /\ image.base_index <= mem.base_index
    BY <1>0, <2>1 DEF SaveInv
  <2>5. DiskCommitCovered'
    BY <1>0, <2>2, <2>3, <2>4 DEF DiskCommitCovered, Legit, last_index
  <2>6. MetaInv'
    BY <2>1, <2>3 DEF MetaInv
  <2>7. mem' \in PersistedType /\ UpInv'
    <3>1. CASE folding
      <4>1. mem' = image
        BY <2>1, <3>1
      <4>2. Forward(image, image)
        BY <1>0, ForwardReflexive
      <4>. QED
        BY <1>0, <2>1, <2>2, <2>3, <2>4, <4>1, <4>2 DEF UpInv
    <3>2. CASE ~folding
      <4>1. mem' = mem
        BY <2>1, <3>2
      <4>. QED
        BY <1>0, <2>1, <2>2, <2>3, <2>4, <3>2, <4>1 DEF UpInv
    <3>. QED
      BY <3>1, <3>2
  <2>8. SaveInv'
    BY <2>1 DEF SaveInv
  <2>9. TypeOK'
    BY <1>0, <2>1, <2>3, <2>7 DEF TypeOK
  <2>10. Advances
    BY <1>0, <1>1, <2>1, <2>2, <2>3, <2>4 DEF Advances, MetaInv, Forward
  <2>. QED
    BY <2>5, <2>6, <2>7, <2>8, <2>9, <2>10 DEF StoreInv
\* The member stops: nothing is claimed of an engine that is not running.
<1>11. ASSUME status' # "up", pc' = "idle", ~folding', UNCHANGED <<disk, saved>>, TypeOK'
       PROVE  StoreInv' /\ Advances
  <2>1. (DiskCommitCovered /\ MetaInv /\ UpInv /\ SaveInv)'
    BY <1>0, <1>11 DEF DiskCommitCovered, MetaInv, UpInv, SaveInv
  <2>. QED
    BY <1>2, <1>11, <2>1 DEF StoreInv
<1>12. CASE WriteFails
  <2>1. TypeOK'
    BY <1>0, <1>12 DEF WriteFails, TypeOK
  <2>. QED
    BY <1>11, <1>12, <2>1 DEF WriteFails
<1>13. CASE Crash
  <2>1. TypeOK'
    BY <1>0, <1>13, EmptyLemma DEF Crash, TypeOK
  <2>. QED
    BY <1>11, <1>13, <2>1 DEF Crash
<1>14. CASE OpenFails
  <2>1. pc = "idle" /\ ~folding
    BY <1>0, <1>14 DEF OpenFails, SaveInv
  <2>2. TypeOK'
    BY <1>0, <1>14 DEF OpenFails, TypeOK
  <2>. QED
    BY <1>11, <1>14, <2>1, <2>2 DEF OpenFails
<1>15. CASE Open
  <2>1. pc = "idle" /\ ~folding
    BY <1>0, <1>15 DEF Open, SaveInv
  <2>2. /\ mem' = recovered /\ status' = "up" /\ UNCHANGED <<disk, pc, image, folding, saved>>
    BY <1>15 DEF Open
  <2>3. /\ mem' \in PersistedType /\ Legit(mem') /\ Forward(saved, mem')
        /\ mem'.base_index = disk.log.base_index
    BY <1>0, <2>2, RecoveredLemma
  <2>4. UpInv'
    BY <1>1, <2>1, <2>2, <2>3 DEF UpInv
  <2>5. (SaveInv /\ DiskCommitCovered /\ MetaInv)'
    BY <1>0, <2>1, <2>2 DEF SaveInv, DiskCommitCovered, MetaInv
  <2>6. TypeOK'
    BY <1>0, <2>2, <2>3 DEF TypeOK
  <2>. QED
    BY <1>2, <2>2, <2>4, <2>5, <2>6 DEF StoreInv
<1>. QED
  BY <1>3, <1>4, <1>6, <1>7, <1>8, <1>9, <1>10, <1>12, <1>13, <1>14, <1>15 DEF Next

\* At every crash point of every save, the commit index on disk refers to entries on
\* disk, and the log's base to a snapshot on disk (save(), raft_store.rs:200).
THEOREM CommitIsCovered == Spec => []DiskCommitCovered
<1>1. StoreInv /\ [Next]_vars => StoreInv'
  BY StoreNext
<1>2. StoreInv => DiskCommitCovered
  BY DEF StoreInv
<1>. QED
  BY <1>1, <1>2, StoreInit, PTL DEF Spec

\* A vote a completed save made final stays final over crashes and recoveries.
THEOREM VoteIsDurable == Spec => SavedVoteIsFinal
<1>1. StoreInv /\ [Next]_vars => StoreInv'
  BY StoreNext
<1>2. StoreInv /\ [Next]_vars
        => [/\ saved'.current_term >= saved.current_term
            /\ (saved'.current_term = saved.current_term /\ saved.voted_for # None)
                  => saved'.voted_for = saved.voted_for]_vars
  <2> SUFFICES ASSUME StoreInv, [Next]_vars
               PROVE  /\ saved'.current_term >= saved.current_term
                      /\ (saved'.current_term = saved.current_term /\ saved.voted_for # None)
                            => saved'.voted_for = saved.voted_for
    OBVIOUS
  <2>1. Forward(saved, saved')
    BY StoreNext DEF Advances
  <2>2. saved.current_term \in Nat /\ saved'.current_term \in Nat
    BY StoreNext, PersistedFields DEF StoreInv, TypeOK
  <2>. QED
    BY <2>1, <2>2 DEF Forward
<1>. QED
  BY <1>1, <1>2, StoreInit, PTL DEF Spec, SavedVoteIsFinal

\* No save and no recovery writes an older term, commit index or base over a newer one.
THEOREM DiskAdvances == Spec => DiskOnlyAdvances
<1>1. StoreInv /\ [Next]_vars => StoreInv'
  BY StoreNext
<1>2. StoreInv /\ [Next]_vars
        => [/\ disk'.meta.current_term >= disk.meta.current_term
            /\ disk'.meta.commit_index >= disk.meta.commit_index
            /\ disk'.log.base_index >= disk.log.base_index]_vars
  BY StoreNext DEF Advances
<1>. QED
  BY <1>1, <1>2, StoreInit, PTL DEF Spec, DiskOnlyAdvances

----------------------------------------------------------------------------
(* What a save writes is valid, and what it committed is never lost.       *)

\* Whatever p had committed, q has at the same index with the same term, or folded.
Keeps(p, q) ==
    \A k \in 1 .. p.commit_index :
        k <= p.base_index \/ k <= q.base_index \/ term_at(q, k) = term_at(p, k)

\* The running engine, and the image of a save in progress, pass the store's validation.
ValidInv ==
    /\ status = "up" => validate_persisted(mem)
    /\ pc # "idle" => validate_persisted(image)

\* The engine, the image and the log file keep what the last completed save committed,
\* and the engine keeps what the image of a drain's save has.
KeepInv ==
    /\ saved.base_index <= disk.log.base_index
    /\ Keeps(saved, recovered)
    /\ status = "up" => Keeps(saved, mem)
    /\ pc # "idle" => /\ Keeps(saved, image)
                      /\ ~folding => Keeps(image, mem)

\* What a state has committed it keeps.
LEMMA KeepsReflexive == \A p : Keeps(p, p)
BY DEF Keeps

\* Commit index and base only grow on the way from p over q to r.
LEMMA KeepsTransitive ==
    ASSUME NEW p \in PersistedType, NEW q \in PersistedType, NEW r \in PersistedType,
           Keeps(p, q), Keeps(q, r), p.commit_index <= q.commit_index,
           q.base_index <= r.base_index
    PROVE  Keeps(p, r)
<1> SUFFICES ASSUME NEW k \in 1 .. p.commit_index, ~(k <= p.base_index), ~(k <= r.base_index)
             PROVE  term_at(r, k) = term_at(p, k)
  BY DEF Keeps
<1>1. p.commit_index \in Nat /\ q.commit_index \in Nat /\ q.base_index \in Nat /\ r.base_index \in Nat
  BY PersistedFields
<1>2. k \in 1 .. q.commit_index /\ ~(k <= q.base_index)
  BY <1>1
<1>3. term_at(q, k) = term_at(p, k)
  BY <1>2 DEF Keeps
<1>4. term_at(r, k) = term_at(q, k)
  BY <1>2 DEF Keeps
<1>. QED
  BY <1>3, <1>4

\* An entry's term depends on the log and its base alone.
LEMMA SameLogKeeps ==
    ASSUME NEW p, NEW q, q.log = p.log, q.base_index = p.base_index, q.base_term = p.base_term
    PROVE  /\ \A k : term_at(q, k) = term_at(p, k)
           /\ \A s : Keeps(s, p) => Keeps(s, q)
           /\ Keeps(p, q)
<1>1. \A k : term_at(q, k) = term_at(p, k)
  BY DEF term_at, last_index
<1>. QED
  BY <1>1 DEF Keeps

\* The entry at distance x above the base.
LEMMA TermIs ==
    ASSUME NEW p \in PersistedType, NEW x \in Nat, x <= Len(p.log)
    PROVE  term_at(p, p.base_index + x) = IF x = 0 THEN p.base_term ELSE p.log[x]
<1>1. p.base_index \in Nat /\ Len(p.log) \in Nat /\ last_index(p) = p.base_index + Len(p.log)
  BY PersistedFields DEF last_index
<1>2. PICK b \in Nat : b = p.base_index
  BY <1>1
<1>3. CASE x = 0
  BY <1>1, <1>3 DEF term_at
<1>4. CASE x # 0
  <2>1. b + x # b /\ b < b + x /\ (b + x) - b = x /\ b + x <= b + Len(p.log)
    BY <1>1, <1>4
  <2>. QED
    BY <1>1, <1>2, <1>4, <2>1 DEF term_at
<1>. QED
  BY <1>3, <1>4

\* The terms of a valid log: positive, not above the current one, and not falling.
LEMMA ValidTerms ==
    ASSUME NEW p \in PersistedType, validate_persisted(p), NEW x \in Nat, x <= Len(p.log)
    PROVE  /\ term_at(p, p.base_index + x) \in 0 .. p.current_term
           /\ x > 0 => term_at(p, p.base_index + x) >= 1
           /\ x < Len(p.log) => p.log[x + 1] >= term_at(p, p.base_index + x)
<1>1. /\ p.current_term \in Nat /\ p.base_term \in Nat
      /\ Len(p.log) \in Nat /\ DOMAIN p.log = 1 .. Len(p.log)
  BY PersistedFields
<1>2. /\ p.base_term <= p.current_term
      /\ \A k \in DOMAIN p.log : /\ p.log[k] \in 1 .. p.current_term
                                 /\ p.log[k] >= (IF k = 1 THEN p.base_term ELSE p.log[k - 1])
  BY DEF validate_persisted
<1>3. term_at(p, p.base_index + x) = IF x = 0 THEN p.base_term ELSE p.log[x]
  BY TermIs
<1>4. x > 0 => x \in DOMAIN p.log
  BY <1>1
<1>5. ASSUME x < Len(p.log) PROVE p.log[x + 1] >= IF x = 0 THEN p.base_term ELSE p.log[x]
  <2>1. x + 1 \in 1 .. Len(p.log) /\ (x + 1) - 1 = x /\ (x + 1 = 1 <=> x = 0)
    BY <1>1, <1>5
  <2>2. p.log[x + 1] >= (IF x + 1 = 1 THEN p.base_term ELSE p.log[(x + 1) - 1])
    BY <1>1, <1>2, <2>1
  <2>. QED
    BY <2>1, <2>2
<1>6. p.base_term \in 0 .. p.current_term
  BY <1>1, <1>2
<1>7. x > 0 => p.log[x] \in 1 .. p.current_term
  BY <1>2, <1>4
<1>. QED
  BY <1>1, <1>3, <1>5, <1>6, <1>7

\* The same, entry by entry, is what validation asks of a log.
LEMMA ValidFromTerms ==
    ASSUME NEW p \in PersistedType, Legit(p), p.current_term = 0 => p.voted_for = None,
           p.base_index = 0 <=> p.base_term = 0, p.base_index > 0 <=> p.snapshot # 0,
           p.base_term <= p.current_term,
           \A k \in DOMAIN p.log : p.log[k] \in 1 .. p.current_term,
           \A k \in DOMAIN p.log : p.log[k] >= (IF k = 1 THEN p.base_term ELSE p.log[k - 1])
    PROVE  validate_persisted(p)
BY DEF validate_persisted, Legit

\* The last Len(s) - d elements of a sequence.
LEMMA TailLemma ==
    ASSUME NEW s \in Seq(Nat), NEW d \in Nat, d <= Len(s)
    PROVE  /\ SubSeq(s, d + 1, Len(s)) \in Seq(Nat)
           /\ Len(SubSeq(s, d + 1, Len(s))) = Len(s) - d
           /\ \A x \in 1 .. Len(s) - d : SubSeq(s, d + 1, Len(s))[x] = s[d + x]
<1> DEFINE q == SubSeq(s, d + 1, Len(s))
<1>1. Len(s) \in Nat
  OBVIOUS
<1>2. d + 1 \in 1 .. Len(s) + 1 /\ Len(s) \in 0 .. Len(s)
  BY <1>1
<1>3. q \in Seq(Nat) /\ Len(q) = IF d + 1 <= Len(s) THEN Len(s) - (d + 1) + 1 ELSE 0
  BY <1>2, SliceLemma
<1>4. Len(q) = Len(s) - d
  <2> HIDE DEF q
  <2>. QED
    BY <1>1, <1>3
<1>5. ASSUME NEW x \in 1 .. Len(s) - d PROVE q[x] = s[d + x]
  <2>1. x \in 1 .. (Len(s) - (d + 1) + 1) /\ (d + 1) + x - 1 = d + x
    BY <1>1
  <2>2. q[x] = s[(d + 1) + x - 1]
    BY <1>1, <2>1
  <2>. QED
    BY <2>1, <2>2
<1>. QED
  BY <1>3, <1>4, <1>5

\* Cutting a valid log d entries above its base keeps the terms that are left.
LEMMA CutLemma ==
    ASSUME NEW p \in PersistedType, validate_persisted(p), NEW d \in Nat, d <= Len(p.log),
           NEW q \in PersistedType, q.log = SubSeq(p.log, d + 1, Len(p.log)),
           q.base_index = p.base_index + d, q.base_term = term_at(p, p.base_index + d)
    PROVE  /\ Len(q.log) = Len(p.log) - d
           /\ \A k \in Nat : p.base_index + d < k /\ k <= last_index(p)
                               => term_at(q, k) = term_at(p, k)
           /\ \A x \in DOMAIN q.log :
                 /\ q.log[x] \in 1 .. p.current_term
                 /\ q.log[x] >= (IF x = 1 THEN q.base_term ELSE q.log[x - 1])
<1>1. /\ p.current_term \in Nat /\ p.base_index \in Nat /\ p.log \in Seq(Nat) /\ Len(p.log) \in Nat
      /\ last_index(p) = p.base_index + Len(p.log) /\ DOMAIN p.log = 1 .. Len(p.log)
      /\ q.log \in Seq(Nat) /\ DOMAIN q.log = 1 .. Len(q.log)
  <2>1. /\ p.current_term \in Nat /\ p.base_index \in Nat /\ p.log \in Seq(Nat)
        /\ q.log \in Seq(Nat)
    BY PersistedFields
  <2>. QED
    BY <2>1 DEF last_index
<1>2. Len(q.log) = Len(p.log) - d /\ \A x \in 1 .. Len(q.log) : q.log[x] = p.log[d + x]
  <2>1. PICK s \in Seq(Nat) : s = p.log
    BY <1>1
  <2>2. d <= Len(s) /\ q.log = SubSeq(s, d + 1, Len(s))
    BY <2>1
  <2>3. Len(q.log) = Len(s) - d /\ \A x \in 1 .. Len(s) - d : q.log[x] = s[d + x]
    BY ONLY <2>2, TailLemma, d \in Nat, s \in Seq(Nat)
  <2>. QED
    BY <2>1, <2>3
<1>3. ASSUME NEW x \in 1 .. Len(q.log) PROVE x \in Nat /\ d + x \in 1 .. Len(p.log)
  BY <1>1, <1>2
<1>4. ASSUME NEW k \in Nat, p.base_index + d < k, k <= last_index(p) PROVE term_at(q, k) = term_at(p, k)
  <2>1. PICK b \in Nat : b = p.base_index
    BY <1>1
  <2>2. PICK x \in Nat : x = k - (b + d)
    BY <1>4, <2>1
  <2>3. b + d < k /\ k <= b + Len(p.log)
    BY <1>1, <1>4, <2>1
  <2>4. x > 0 /\ x <= Len(p.log) - d /\ k = (b + d) + x /\ k = b + (d + x) /\ d + x <= Len(p.log)
        /\ d + x \in Nat /\ d + x # 0
    BY <1>1, <2>2, <2>3
  <2>5. term_at(p, k) = p.log[d + x]
    BY <2>1, <2>4, TermIs
  <2>6. term_at(q, k) = q.log[x]
    <3>1. x <= Len(q.log) /\ x # 0 /\ k = q.base_index + x
      BY <1>2, <2>1, <2>4
    <3>. QED
      BY <3>1, TermIs
  <2>7. x \in 1 .. Len(q.log)
    BY <1>1, <1>2, <2>4
  <2>. QED
    BY <1>2, <2>5, <2>6, <2>7
<1>5. ASSUME NEW x \in 1 .. Len(q.log) PROVE q.log[x] \in 1 .. p.current_term
  BY <1>1, <1>2, <1>3 DEF validate_persisted
<1>6. ASSUME NEW x \in 1 .. Len(q.log)
      PROVE  q.log[x] >= (IF x = 1 THEN q.base_term ELSE q.log[x - 1])
  <2>1. CASE x = 1
    <3>1. d < Len(p.log)
      BY <1>1, <1>3, <2>1
    <3>2. p.log[d + 1] >= term_at(p, p.base_index + d)
      BY <3>1, ValidTerms
    <3>. QED
      BY <1>2, <2>1, <3>2
  <2>2. CASE x # 1
    <3>1. PICK y \in Nat : x = y + 1
      <4>1. x - 1 \in Nat /\ x = (x - 1) + 1
        BY <1>3, <2>2
      <4>. QED
        BY <4>1
    <3>2. d + x \in DOMAIN p.log /\ d + x # 1 /\ (d + x) - 1 = d + y /\ x - 1 = y
          /\ y \in 1 .. Len(q.log)
      BY SMTT(30), <1>1, <1>2, <1>3, <2>2, <3>1
    <3>3. p.log[d + x] >= p.log[d + y]
      BY <3>2 DEF validate_persisted
    <3>. QED
      BY <1>2, <2>2, <3>2, <3>3
  <2>. QED
    BY <2>1, <2>2
<1>. QED
  BY <1>1, <1>2, <1>4, <1>5, <1>6

\* A compaction of a valid Persisted is valid, and loses nothing committed.
LEMMA CompactValid ==
    ASSUME NEW p \in PersistedType, Legit(p), validate_persisted(p), NEW n \in Nat,
           p.base_index < n, n <= p.commit_index
    PROVE  validate_persisted(compact(p, n)) /\ Keeps(p, compact(p, n))
<1> DEFINE q == compact(p, n)
<1>1. q \in PersistedType /\ Legit(q) /\ q.base_index = n
  BY CompactLemma
<1>2. /\ q.log = SubSeq(p.log, n - p.base_index + 1, Len(p.log)) /\ q.base_term = term_at(p, n)
      /\ q.snapshot = MaxOf(p.snapshot, n) /\ q.current_term = p.current_term
      /\ q.voted_for = p.voted_for
  BY DEF compact, PersistedType
<1> HIDE DEF q
<1>3. /\ p.current_term \in Nat /\ p.base_index \in Nat /\ p.commit_index \in Nat /\ p.snapshot \in Nat
      /\ Len(p.log) \in Nat /\ last_index(p) = p.base_index + Len(p.log)
      /\ p.commit_index <= last_index(p)
  BY PersistedFields DEF Legit, last_index
<1>4. PICK d \in Nat : d = n - p.base_index
  BY <1>3
<1>5. d > 0 /\ d <= Len(p.log) /\ n = p.base_index + d /\ n > 0
  BY SMTT(30), <1>3, <1>4
<1>6. /\ \A k \in Nat : n < k /\ k <= last_index(p) => term_at(q, k) = term_at(p, k)
      /\ \A x \in DOMAIN q.log :
            /\ q.log[x] \in 1 .. p.current_term
            /\ q.log[x] >= (IF x = 1 THEN q.base_term ELSE q.log[x - 1])
  <2>1. n - p.base_index + 1 = d + 1
    BY <1>4
  <2>2. /\ q.log = SubSeq(p.log, d + 1, Len(p.log)) /\ q.base_index = p.base_index + d
        /\ q.base_term = term_at(p, p.base_index + d)
    BY <1>1, <1>2, <1>5, <2>1
  <2>3. /\ \A k \in Nat : p.base_index + d < k /\ k <= last_index(p) => term_at(q, k) = term_at(p, k)
        /\ \A x \in DOMAIN q.log :
              /\ q.log[x] \in 1 .. p.current_term
              /\ q.log[x] >= (IF x = 1 THEN q.base_term ELSE q.log[x - 1])
    BY <1>1, <1>5, <2>2, CutLemma
  <2>. QED
    BY <1>5, <2>3
<1>7. q.base_term \in 1 .. q.current_term
  <2>1. term_at(p, n) \in 0 .. p.current_term /\ term_at(p, n) >= 1
    BY <1>5, ValidTerms
  <2>. QED
    BY <1>2, <1>3, <2>1
<1>8. q.snapshot # 0
  BY <1>2, <1>3, <1>5 DEF MaxOf
<1>9. validate_persisted(q)
  <2>1. q.current_term = 0 => q.voted_for = None
    BY <1>2 DEF validate_persisted
  <2>2. q.base_index # 0 /\ q.base_index > 0 /\ q.base_term # 0 /\ q.base_term <= q.current_term
    BY <1>1, <1>2, <1>3, <1>5, <1>7
  <2>. QED
    BY <1>1, <1>2, <1>6, <1>8, <2>1, <2>2, ValidFromTerms
<1>10. Keeps(p, q)
  <2> SUFFICES ASSUME NEW k \in 1 .. p.commit_index, ~(k <= q.base_index)
               PROVE  term_at(q, k) = term_at(p, k)
    BY DEF Keeps
  <2>1. k \in Nat /\ n < k /\ k <= last_index(p)
    BY <1>1, <1>3
  <2>. QED
    BY <1>6, <2>1
<1>. QED
  BY <1>9, <1>10 DEF q

\* Entering a term leaves a valid Persisted valid.
LEMMA EnterValid ==
    ASSUME NEW p \in PersistedType, Legit(p), validate_persisted(p),
           NEW t \in Nat, t >= p.current_term, t > 0
    PROVE  validate_persisted(Enter(p, t)) /\ Enter(p, t).base_term = p.base_term
<1> DEFINE q == Enter(p, t)
<1>1. /\ q \in PersistedType /\ q.log = p.log /\ q.base_index = p.base_index
      /\ q.commit_index = p.commit_index /\ q.snapshot = p.snapshot /\ q.current_term = t
      /\ last_index(q) = last_index(p)
  BY EnterLemma
<1>2. q.base_term = p.base_term
  BY DEF Enter, PersistedType
<1> HIDE DEF q
<1>3. p.current_term \in Nat /\ p.base_term \in Nat
  BY PersistedFields
<1>4. \A k \in DOMAIN p.log : p.log[k] \in 1 .. t
  BY <1>3 DEF validate_persisted
<1>5. validate_persisted(q)
  BY <1>1, <1>2, <1>3, <1>4 DEF validate_persisted
<1>. QED
  BY <1>2, <1>5 DEF q

\* Whatever the engine does leaves it valid and keeps what it had committed.
LEMMA EngineKeeps ==
    ASSUME TypeOK, Legit(mem), validate_persisted(mem), Engine
    PROVE  validate_persisted(mem') /\ Keeps(mem, mem')
<1> DEFINE Goal == validate_persisted(mem') /\ Keeps(mem, mem')
<1>1. /\ mem \in PersistedType /\ mem.current_term \in Nat /\ mem.commit_index \in Nat
      /\ mem.base_index \in Nat /\ mem.base_term \in Nat /\ mem.snapshot \in Nat
      /\ mem.log \in Seq(Nat) /\ Len(mem.log) \in Nat
      /\ last_index(mem) = mem.base_index + Len(mem.log) /\ last_index(mem) \in Nat
      /\ mem.base_index <= mem.commit_index /\ mem.commit_index <= last_index(mem)
  BY PersistedFields DEF TypeOK, Legit, last_index
<1>2. PICK t \in mem.current_term .. MaxTerm :
          /\ t > 0
          /\ \/ t > mem.current_term /\ mem' = Enter(mem, t)
             \/ \E v \in Member : Vote(t, v)
             \/ \E keep \in mem.commit_index .. last_index(mem), e \in 1 .. t : Splice(t, keep, e)
             \/ \E n \in mem.commit_index + 1 .. last_index(mem) : Advance(n)
             \/ \E n \in mem.commit_index + 1 .. MaxIndex, e \in 1 .. t :
                   e >= term_at(mem, mem.commit_index) /\ Install(t, n, e)
  BY DEF Engine
<1>3. t \in Nat /\ t >= mem.current_term /\ t > 0
  BY <1>1, <1>2, BoundAssumption
<1> DEFINE p == Enter(mem, t)
<1>4. /\ p \in PersistedType /\ p.log = mem.log /\ p.base_index = mem.base_index
      /\ p.base_term = mem.base_term /\ p.commit_index = mem.commit_index
      /\ p.snapshot = mem.snapshot /\ p.current_term = t /\ last_index(p) = last_index(mem)
      /\ validate_persisted(p)
  BY <1>1, <1>3, EnterLemma, EnterValid
<1>5. Legit(p)
  BY <1>4 DEF Legit
<1> HIDE DEF p
<1>6. mem' \in PersistedType /\ Legit(mem')
  BY EngineForward
<1>7. ASSUME NEW v \in Member, Vote(t, v) PROVE Goal
  <2>1. mem' = [p EXCEPT !.voted_for = v]
    BY <1>7 DEF Vote, p
  <2>2. /\ mem'.log = p.log /\ mem'.base_index = p.base_index /\ mem'.commit_index = p.commit_index
        /\ mem'.base_term = p.base_term /\ mem'.snapshot = p.snapshot
        /\ mem'.current_term = p.current_term
    BY <1>4, <2>1 DEF PersistedType
  <2>3. Keeps(mem, mem')
    BY <1>4, <2>2, SameLogKeeps
  <2>4. mem'.current_term # 0
    BY <1>3, <1>4, <2>2
  <2>5. validate_persisted(mem')
    BY <1>4, <1>6, <2>2, <2>4, ValidFromTerms DEF validate_persisted
  <2>. QED
    BY <2>3, <2>5
<1>8. ASSUME NEW keep \in mem.commit_index .. last_index(mem), NEW e \in 1 .. t, Splice(t, keep, e)
      PROVE  Goal
  <2>1. PICK d \in Nat : d = keep - mem.base_index
    BY <1>1
  <2>2. keep \in Nat /\ keep = mem.base_index + d /\ d <= Len(mem.log) /\ e \in Nat
        /\ mem.commit_index <= mem.base_index + d
    BY <1>1, <1>3, <2>1
  <2>3. e >= term_at(mem, keep)
    BY <1>8 DEF Splice
  <2> DEFINE kept == SubSeq(mem.log, 1, d)
             log == Append(kept, e)
  <2>4. kept \in Seq(Nat) /\ Len(kept) = d /\ \A x \in 1 .. d : kept[x] = mem.log[x]
    <3>1. 1 \in 1 .. Len(mem.log) + 1 /\ d \in 0 .. Len(mem.log)
      BY <1>1, <2>2
    <3>2. kept \in Seq(Nat) /\ Len(kept) = IF 1 <= d THEN d - 1 + 1 ELSE 0
      BY <1>1, <3>1, SliceLemma
    <3>3. \A x \in 1 .. d : kept[x] = mem.log[x]
      BY <1>1, <2>2
    <3> HIDE DEF kept
    <3>. QED
      BY <3>2, <3>3
  <2> HIDE DEF kept
  <2>5. /\ Len(log) = d + 1 /\ DOMAIN log = 1 .. d + 1 /\ log[d + 1] = e
        /\ \A x \in 1 .. d : log[x] = mem.log[x]
    BY <2>2, <2>4
  <2>6. mem' = [p EXCEPT !.log = log]
    BY <1>4, <1>8, <2>1 DEF Splice, p, kept
  <2> HIDE DEF log
  <2>7. /\ mem'.log = log /\ mem'.base_index = p.base_index /\ mem'.commit_index = p.commit_index
        /\ mem'.base_term = p.base_term /\ mem'.snapshot = p.snapshot
        /\ mem'.current_term = p.current_term
    BY <1>4, <2>6 DEF PersistedType
  <2>8. ASSUME NEW x \in 1 .. d
        PROVE  /\ x \in DOMAIN mem.log /\ mem.log[x] \in 1 .. t
               /\ mem.log[x] >= (IF x = 1 THEN mem.base_term ELSE mem.log[x - 1])
    <3>1. x \in DOMAIN p.log
      BY <1>1, <1>4, <2>2
    <3>. QED
      BY <1>4, <3>1 DEF validate_persisted
  <2>9. e >= IF d = 0 THEN mem.base_term ELSE mem.log[d]
    BY <1>1, <2>2, <2>3, TermIs
  <2>10. \A x \in DOMAIN log : log[x] \in 1 .. t
    <3> SUFFICES ASSUME NEW x \in 1 .. d + 1 PROVE log[x] \in 1 .. t
      BY <2>5
    <3>1. x = d + 1 \/ x \in 1 .. d
      OBVIOUS
    <3>. QED
      BY <2>5, <2>8, <3>1
  <2>11. \A x \in DOMAIN log : log[x] >= (IF x = 1 THEN mem.base_term ELSE log[x - 1])
    <3> SUFFICES ASSUME NEW x \in 1 .. d + 1
                 PROVE  log[x] >= (IF x = 1 THEN mem.base_term ELSE log[x - 1])
      BY <2>5
    <3>1. CASE x = d + 1
      <4>1. CASE d = 0
        BY <2>5, <2>9, <3>1, <4>1
      <4>2. CASE d # 0
        <5>1. x - 1 = d /\ x # 1 /\ d \in 1 .. d
          BY <3>1, <4>2
        <5>2. log[x - 1] = mem.log[d]
          BY <2>5, <5>1
        <5>. QED
          BY <2>5, <2>9, <3>1, <4>2, <5>1, <5>2
      <4>. QED
        BY <4>1, <4>2
    <3>2. CASE x # d + 1
      <4>1. x \in 1 .. d /\ (x # 1 => x - 1 \in 1 .. d)
        BY <3>2
      <4>2. log[x] = mem.log[x] /\ (x # 1 => log[x - 1] = mem.log[x - 1])
        BY <2>5, <4>1
      <4>. QED
        BY <2>8, <4>1, <4>2
    <3>. QED
      BY <3>1, <3>2
  <2>12. validate_persisted(mem')
    <3>1. mem'.current_term # 0
      BY <1>3, <1>4, <2>7
    <3>2. \A x \in DOMAIN mem'.log : mem'.log[x] \in 1 .. mem'.current_term
      BY <1>4, <2>7, <2>10
    <3>3. \A x \in DOMAIN mem'.log :
              mem'.log[x] >= (IF x = 1 THEN mem'.base_term ELSE mem'.log[x - 1])
      BY <1>4, <2>7, <2>11
    <3>4. /\ mem'.base_index = 0 <=> mem'.base_term = 0
          /\ mem'.base_index > 0 <=> mem'.snapshot # 0
          /\ mem'.base_term <= mem'.current_term
      BY <1>4, <2>7 DEF validate_persisted
    <3>. QED
      BY <1>6, <3>1, <3>2, <3>3, <3>4, ValidFromTerms
  <2>13. Keeps(mem, mem')
    <3> SUFFICES ASSUME NEW k \in 1 .. mem.commit_index, ~(k <= mem.base_index)
                 PROVE  term_at(mem', k) = term_at(mem, k)
      BY DEF Keeps
    <3>1. PICK b \in Nat : b = mem.base_index
      BY <1>1
    <3>2. PICK x \in Nat : x = k - b
      BY <1>1, <3>1
    <3>3. k = b + x /\ x # 0 /\ x \in 1 .. d /\ x <= Len(mem.log)
      <4>1. k \in Nat /\ k > b /\ k <= mem.commit_index /\ mem.commit_index <= b + d
        BY <1>1, <2>2, <3>1
      <4>2. k <= b + d
        BY <1>1, <4>1
      <4>3. k = b + x /\ x # 0 /\ x <= d
        BY <3>2, <4>1, <4>2
      <4>. QED
        BY <1>1, <2>2, <4>3
    <3>4. term_at(mem, k) = mem.log[x]
      BY <1>1, <3>1, <3>3, TermIs
    <3>5. term_at(mem', k) = log[x]
      <4>1. x <= Len(mem'.log) /\ k = mem'.base_index + x
        BY <1>4, <2>5, <2>7, <3>1, <3>3
      <4>. QED
        BY <1>6, <2>7, <3>3, <4>1, TermIs
    <3>. QED
      BY <2>5, <3>3, <3>4, <3>5
  <2>. QED
    BY <2>12, <2>13
<1>9. ASSUME NEW n \in mem.commit_index + 1 .. last_index(mem), Advance(n) PROVE Goal
  <2>1. mem' = [mem EXCEPT !.commit_index = n]
    BY <1>9 DEF Advance
  <2>2. /\ mem'.log = mem.log /\ mem'.base_index = mem.base_index /\ mem'.base_term = mem.base_term
        /\ mem'.snapshot = mem.snapshot /\ mem'.current_term = mem.current_term
        /\ mem'.voted_for = mem.voted_for
    BY <1>1, <2>1 DEF PersistedType
  <2>3. Keeps(mem, mem')
    BY <2>2, SameLogKeeps
  <2>4. validate_persisted(mem')
    BY <1>6, <2>2, ValidFromTerms DEF validate_persisted
  <2>. QED
    BY <2>3, <2>4
<1>10. ASSUME NEW n \in mem.commit_index + 1 .. MaxIndex, NEW e \in 1 .. t, Install(t, n, e)
       PROVE  Goal
  <2> DEFINE agrees == n <= last_index(p) /\ term_at(p, n) = e
             log == IF agrees THEN SubSeq(p.log, n - p.base_index + 1, Len(p.log)) ELSE <<>>
  <2>1. n \in Nat /\ n > mem.commit_index /\ n > 0 /\ e \in 1 .. t
    BY <1>1, <1>3, BoundAssumption
  <2>2. mem' = [p EXCEPT !.log = log, !.base_index = n, !.base_term = e, !.snapshot = n,
                         !.commit_index = n]
    BY <1>10 DEF Install, p
  <2> HIDE DEF log
  <2>3. /\ mem'.log = log /\ mem'.base_index = n /\ mem'.commit_index = n /\ mem'.snapshot = n
        /\ mem'.base_term = e /\ mem'.current_term = t
    BY <1>4, <2>2 DEF PersistedType
  <2>4. \A x \in DOMAIN mem'.log :
            /\ mem'.log[x] \in 1 .. t
            /\ mem'.log[x] >= (IF x = 1 THEN mem'.base_term ELSE mem'.log[x - 1])
    <3>1. CASE agrees
      <4>1. PICK d \in Nat : d = n - p.base_index
        BY <1>1, <1>4, <2>1
      <4>2. d <= Len(p.log) /\ n = p.base_index + d /\ n - p.base_index + 1 = d + 1
        <5>1. n <= p.base_index + Len(p.log)
          BY <1>1, <1>4, <3>1
        <5>2. p.base_index \in Nat /\ Len(p.log) \in Nat /\ n \in Nat /\ p.base_index <= n
          BY <1>1, <1>4, <2>1
        <5>. QED
          BY <4>1, <5>1, <5>2
      <4>3. /\ mem'.log = SubSeq(p.log, d + 1, Len(p.log)) /\ mem'.base_index = p.base_index + d
            /\ mem'.base_term = term_at(p, p.base_index + d)
        BY <2>3, <3>1, <4>2 DEF log
      <4>. QED
        BY <1>4, <1>6, <4>2, <4>3, CutLemma
    <3>2. CASE ~agrees
      BY <2>3, <3>2 DEF log
    <3>. QED
      BY <3>1, <3>2
  <2>5. validate_persisted(mem')
    <3>1. /\ mem'.current_term # 0 /\ mem'.base_index # 0 /\ mem'.base_term # 0
          /\ mem'.base_index > 0 /\ mem'.snapshot # 0 /\ mem'.base_term <= mem'.current_term
      BY <1>3, <2>1, <2>3
    <3>. QED
      BY <1>6, <2>3, <2>4, <3>1, ValidFromTerms
  <2>6. Keeps(mem, mem')
    BY <1>1, <2>1, <2>3 DEF Keeps
  <2>. QED
    BY <2>5, <2>6
<1>11. ASSUME mem' = p PROVE Goal
  <2>1. Keeps(mem, mem')
    BY <1>4, <1>11, SameLogKeeps
  <2>. QED
    BY <1>4, <1>11, <2>1
<1>. QED
  BY <1>2, <1>7, <1>8, <1>9, <1>10, <1>11 DEF p

\* The empty store is valid and has nothing to keep.
LEMMA KeepInit == Init => ValidInv /\ KeepInv
<1> SUFFICES ASSUME Init PROVE ValidInv /\ KeepInv
  OBVIOUS
<1>1. validate_persisted(Empty)
  BY DEF validate_persisted, Empty, last_index
<1>2. saved = Empty /\ mem = Empty /\ saved.commit_index = 0 /\ saved.base_index = 0
      /\ disk.log.base_index = 0
  BY DEF Init, Empty
<1>3. \A q : Keeps(saved, q)
  BY <1>2 DEF Keeps
<1>. QED
  BY <1>1, <1>2, <1>3 DEF Init, ValidInv, KeepInv

\* Every write, crash and recovery keeps both.
LEMMA KeepNext == StoreInv /\ StoreInv' /\ ValidInv /\ KeepInv /\ [Next]_vars => ValidInv' /\ KeepInv'
<1> SUFFICES ASSUME StoreInv, StoreInv', ValidInv, KeepInv, [Next]_vars PROVE ValidInv' /\ KeepInv'
  OBVIOUS
<1>1. /\ mem \in PersistedType /\ image \in PersistedType /\ saved \in PersistedType
      /\ TypeOK /\ DiskCommitCovered /\ MetaInv /\ UpInv /\ SaveInv
  BY DEF StoreInv, TypeOK
<1>2. mem' \in PersistedType /\ image' \in PersistedType /\ saved' \in PersistedType
  BY DEF StoreInv, TypeOK
<1>3. /\ disk.log.base_index \in Nat /\ mem.base_index \in Nat /\ image.base_index \in Nat
      /\ saved.base_index \in Nat /\ mem.commit_index \in Nat /\ image.commit_index \in Nat
      /\ saved.commit_index \in Nat
  BY <1>1, PersistedFields DEF TypeOK, DiskType
<1>4. /\ recovered \in PersistedType /\ Legit(recovered) /\ Forward(saved, recovered)
      /\ recovered.base_index = disk.log.base_index
  BY <1>1, RecoveredLemma
\* The log file depends on disk.log alone.
<1>5. ASSUME disk'.log = disk.log PROVE Keeps(saved, recovered')
  <2>1. /\ recovered'.log = recovered.log /\ recovered'.base_index = recovered.base_index
        /\ recovered'.base_term = recovered.base_term
    BY <1>5 DEF recovered
  <2>. QED
    BY <2>1, SameLogKeeps DEF KeepInv
<1>6. CASE UNCHANGED vars
  BY <1>6 DEF vars, ValidInv, KeepInv, recovered
<1>7. CASE Engine
  <2>1. status = "up" /\ ~folding /\ UNCHANGED <<disk, status, pc, image, folding, saved>>
    BY <1>7 DEF Engine
  <2>2. /\ Legit(mem) /\ Forward(saved, mem) /\ disk.log.base_index <= mem.base_index
        /\ validate_persisted(mem)
    BY <1>1, <2>1 DEF UpInv, ValidInv
  <2>3. validate_persisted(mem') /\ Keeps(mem, mem')
    BY <1>1, <1>7, <2>2, EngineKeeps
  <2>4. mem.base_index <= mem'.base_index
    BY <1>1, <1>7, <2>2, EngineForward
  <2>5. Keeps(saved, mem')
    <3>1. Keeps(saved, mem) /\ saved.commit_index <= mem.commit_index
      BY <2>1, <2>2 DEF KeepInv, Forward
    <3>. QED
      BY <1>1, <1>2, <2>3, <2>4, <3>1, KeepsTransitive
  <2>6. pc # "idle" => Keeps(image, mem')
    <3> SUFFICES ASSUME pc # "idle" PROVE Keeps(image, mem')
      OBVIOUS
    <3>1. Keeps(image, mem) /\ image.commit_index <= mem.commit_index
      BY <1>1, <2>1 DEF KeepInv, SaveInv, Forward
    <3>. QED
      BY <1>1, <1>2, <2>3, <2>4, <3>1, KeepsTransitive
  <2>7. ValidInv'
    BY <2>1, <2>3 DEF ValidInv
  <2>8. Keeps(saved', recovered')
    BY <1>5, <2>1
  <2>. QED
    BY <2>1, <2>5, <2>6, <2>7, <2>8 DEF KeepInv
\* Either save starts, with an image ahead of the engine.
<1>8. ASSUME NEW p \in PersistedType, NEW fold \in BOOLEAN, Begin(p, fold), Keeps(mem, p),
             mem.base_index <= p.base_index, ~fold => p = mem
      PROVE  ValidInv' /\ KeepInv'
  <2>1. /\ status = "up" /\ pc = "idle" /\ image' = p /\ UNCHANGED <<mem, disk, saved>>
    BY <1>8 DEF Begin
  <2>2. Keeps(saved, p)
    <3>1. Keeps(saved, mem) /\ saved.commit_index <= mem.commit_index
      BY <1>1, <2>1 DEF KeepInv, UpInv, Forward
    <3>. QED
      BY <1>1, <1>8, <3>1, KeepsTransitive
  <2>3. Keeps(saved', recovered')
    BY <1>5, <2>1
  <2>4. ~fold => Keeps(p, mem)
    BY <1>8, KeepsReflexive
  <2>5. CASE validate_persisted(p)
    <3>1. folding' = fold /\ status' = "up"
      BY <1>8, <2>1, <2>5 DEF Begin
    <3>2. ValidInv'
      BY <2>1, <2>5, <3>1 DEF ValidInv
    <3>. QED
      BY <2>1, <2>2, <2>3, <2>4, <3>1, <3>2 DEF KeepInv
  <2>6. CASE ~validate_persisted(p)
    <3>1. status' = "closed" /\ UNCHANGED <<pc, folding>>
      BY <1>8, <2>6 DEF Begin
    <3>. QED
      BY <2>1, <2>3, <3>1 DEF KeepInv, ValidInv
  <2>. QED
    BY <2>5, <2>6
<1>9. CASE Save
  <2>1. Begin(mem, FALSE) /\ Keeps(mem, mem) /\ mem.base_index <= mem.base_index
    <3>1. Begin(mem, FALSE)
      BY <1>9 DEF Save
    <3>2. Keeps(mem, mem)
      BY KeepsReflexive
    <3>3. mem.base_index <= mem.base_index
      BY <1>3
    <3>. QED
      BY <3>1, <3>2, <3>3
  <2>. QED
    BY <1>1, <1>8, <2>1
<1>10. ASSUME NEW n \in 1 .. MaxIndex, Fold(n) PROVE ValidInv' /\ KeepInv'
  <2> DEFINE p == compact(mem, n)
  <2>1. n \in Nat /\ mem.base_index < n /\ n <= mem.commit_index /\ Begin(p, TRUE)
    <3>1. n \in Nat
      BY BoundAssumption
    <3>. QED
      BY <1>10, <3>1 DEF Fold
  <2>2. Legit(mem) /\ validate_persisted(mem)
    BY <1>1, <2>1 DEF Begin, UpInv, ValidInv
  <2>3. p \in PersistedType /\ p.base_index = n
    BY <1>1, <2>1, <2>2, CompactLemma
  <2>4. Keeps(mem, p)
    BY <1>1, <2>1, <2>2, CompactValid
  <2> HIDE DEF p
  <2>5. mem.base_index <= p.base_index
    BY <1>3, <2>1, <2>3
  <2>. QED
    BY <1>8, <2>1, <2>3, <2>4, <2>5
<1>11. CASE WriteSnapshot
  <2>1. /\ status = "up" /\ pc = "snapshot" /\ pc' = "log"
        /\ disk' = [disk EXCEPT !.snapshot = image.snapshot]
        /\ UNCHANGED <<mem, status, image, folding, saved>>
    BY <1>11 DEF WriteSnapshot
  <2>2. disk'.log = disk.log
    BY <1>1, <2>1 DEF TypeOK, DiskType
  <2>3. Keeps(saved', recovered')
    BY <1>5, <2>1, <2>2
  <2>. QED
    BY <2>1, <2>2, <2>3 DEF ValidInv, KeepInv
<1>12. CASE WriteLog
  <2>1. /\ status = "up" /\ pc = "log" /\ pc' = "meta"
        /\ UNCHANGED <<mem, status, image, folding, saved>>
    BY <1>12 DEF WriteLog
  <2>2. /\ disk'.log.base_index = image.base_index /\ disk'.log.base_term = image.base_term
        /\ disk'.log.entries = image.log
    BY <1>1, <1>12 DEF WriteLog, TypeOK, DiskType
  <2>3. Keeps(saved, image) /\ disk.log.base_index <= image.base_index
    BY <1>1, <2>1 DEF KeepInv, SaveInv
  <2>4. /\ recovered'.log = image.log /\ recovered'.base_index = image.base_index
        /\ recovered'.base_term = image.base_term
    BY <2>2 DEF recovered
  <2>5. Keeps(saved', recovered')
    BY <2>1, <2>3, <2>4, SameLogKeeps
  <2>6. saved'.base_index <= disk'.log.base_index
    BY <1>3, <2>1, <2>2, <2>3 DEF KeepInv
  <2>. QED
    BY <2>1, <2>5, <2>6 DEF ValidInv, KeepInv
<1>13. CASE WriteMeta
  <2>1. /\ status = "up" /\ pc = "meta" /\ pc' = "idle" /\ saved' = image
        /\ mem' = IF folding THEN image ELSE mem
        /\ UNCHANGED <<status, image>>
    BY <1>13 DEF WriteMeta
  <2>2. disk'.log = disk.log
    BY <1>1, <1>13 DEF WriteMeta, TypeOK, DiskType
  <2>3. /\ disk'.log.base_index = image.base_index /\ disk'.log.entries = image.log
        /\ recovered'.log = image.log /\ recovered'.base_index = image.base_index
    BY <1>1, <2>1, <2>2 DEF SaveInv, recovered
  <2>4. Keeps(image, mem')
    BY <2>1, KeepsReflexive DEF KeepInv
  <2>5. validate_persisted(mem')
    BY <2>1 DEF ValidInv
  <2>6. Keeps(saved', recovered')
    BY <2>1, <2>3 DEF Keeps, term_at, last_index
  <2>. QED
    BY <1>3, <2>1, <2>3, <2>4, <2>5, <2>6 DEF ValidInv, KeepInv
<1>14. ASSUME status' # "up", pc' = "idle", UNCHANGED <<disk, saved>> PROVE ValidInv' /\ KeepInv'
  <2>1. Keeps(saved', recovered')
    BY <1>5, <1>14
  <2>. QED
    BY <1>14, <2>1 DEF ValidInv, KeepInv
<1>15. CASE WriteFails
  BY <1>14, <1>15 DEF WriteFails
<1>16. CASE Crash
  BY <1>14, <1>16 DEF Crash
<1>17. CASE OpenFails
  <2>1. pc = "idle"
    BY <1>1, <1>17 DEF OpenFails, SaveInv
  <2>. QED
    BY <1>14, <1>17, <2>1 DEF OpenFails
<1>18. CASE Open
  <2>1. /\ mem' = recovered /\ validate_persisted(recovered) /\ status' = "up"
        /\ UNCHANGED <<disk, pc, image, folding, saved>>
    BY <1>18 DEF Open, bootable
  <2>2. pc = "idle"
    BY <1>1, <1>18 DEF Open, SaveInv
  <2>3. Keeps(saved', recovered')
    BY <1>5, <2>1
  <2>. QED
    BY <2>1, <2>2, <2>3 DEF ValidInv, KeepInv
<1>. QED
  BY <1>6, <1>7, <1>9, <1>10, <1>11, <1>12, <1>13, <1>15, <1>16, <1>17, <1>18 DEF Next

\* The three invariants together are inductive.
LEMMA KeepsAlways == Spec => [](StoreInv /\ ValidInv /\ KeepInv)
<1>1. StoreInv /\ ValidInv /\ KeepInv /\ [Next]_vars => (StoreInv /\ ValidInv /\ KeepInv)'
  BY StoreNext, KeepNext
<1>. QED
  BY <1>1, StoreInit, KeepInit, PTL DEF Spec

\* The store never refuses what the engine has reached, nor a compaction of it, so a
\* member is not taken out of service by its own validation (save(), raft_store.rs:207).
THEOREM AcceptsEngine == Spec => []EngineStateIsValid
<1>1. StoreInv /\ ValidInv /\ KeepInv => EngineStateIsValid
  <2> SUFFICES ASSUME StoreInv, ValidInv, status = "up" PROVE EngineStateIsValid
    BY DEF EngineStateIsValid
  <2>1. mem \in PersistedType /\ Legit(mem) /\ validate_persisted(mem)
    BY DEF StoreInv, TypeOK, UpInv, ValidInv
  <2>2. ASSUME NEW n \in mem.base_index + 1 .. mem.commit_index PROVE validate_persisted(compact(mem, n))
    <3>1. n \in Nat /\ mem.base_index < n /\ n <= mem.commit_index
      BY <2>1, PersistedFields
    <3>. QED
      BY <2>1, <3>1, CompactValid
  <2>. QED
    BY <2>1, <2>2 DEF EngineStateIsValid
<1>. QED
  BY <1>1, KeepsAlways, PTL

\* Whatever was committed when a save completed is in what open() recovers, with its
\* term or folded into the snapshot, at every crash point of every later save.
THEOREM CommitSurvives == Spec => []SavedCommitSurvives
<1>1. StoreInv /\ ValidInv /\ KeepInv => SavedCommitSurvives
  <2> SUFFICES ASSUME StoreInv, KeepInv PROVE SavedCommitSurvives
    OBVIOUS
  <2>1. recovered.commit_index >= saved.commit_index
    <3>1. Forward(saved, recovered) /\ recovered \in PersistedType /\ saved \in PersistedType
      BY RecoveredLemma DEF StoreInv, TypeOK
    <3>. QED
      BY <3>1, PersistedFields DEF Forward
  <2>. QED
    BY <2>1 DEF SavedCommitSurvives, KeepInv, Keeps
<1>. QED
  BY <1>1, KeepsAlways, PTL
============================================================================
