-------------------------- MODULE RaftDriverProofs --------------------------
(***************************************************************************)
(* Proofs about RaftDriver, for any number of threads and any bounds:      *)
(* types, in-order application, and what a drain may say of the disk.      *)
(***************************************************************************)
EXTENDS RaftDriver, SequenceTheorems, TLAPS

\* io_lock and the engine lock are held by exactly the threads that are saving.
LockInv ==
    /\ \A t \in Thread : thread[t].pc \in {"saving", "folding"} <=> io_lock = t
    /\ \A t \in Thread : thread[t].pc = "folding" <=> engine_lock = t

\* The disk trails the engine, and a save in progress moves it forward, past
\* everything the saving thread's own step changed.
VersionInv ==
    /\ disk <= engine.version
    /\ \A t \in Thread :
          /\ thread[t].ready.messages <= engine.version
          /\ thread[t].pc = "saving" => /\ disk <= thread[t].image
                                        /\ thread[t].image <= engine.version
                                        /\ thread[t].ready.messages <= thread[t].image

\* Between steps no restore is pending, no batch is handed out backwards, and a
\* restore a thread carries is exact.
RestoreInv ==
    /\ ~engine.pending_restore
    /\ engine.last_applied <= engine.commit
    /\ \A t \in Thread :
          LET r == thread[t].ready IN
          /\ r.applied_from <= r.applied_upto
          /\ r.restore => r.data = Entries(0, r.applied_from)

----------------------------------------------------------------------------
(* Entries.                                                                *)

LEMMA EntriesType ==
    ASSUME NEW a \in Nat, NEW b \in Nat
    PROVE  /\ Entries(a, b) \in Seq(Nat)
           /\ Len(Entries(a, b)) = MaxOf(a, b) - a
<1> DEFINE n == MaxOf(a, b) - a
<1>1. n \in Nat
  BY DEF MaxOf
<1>2. \A k \in 1 .. n : a + k \in Nat
  BY <1>1
<1>. QED
  BY <1>1, <1>2 DEF Entries

\* Applying from where the state machine stands continues the sequence.
LEMMA EntriesConcat ==
    ASSUME NEW a \in Nat, NEW b \in Nat
    PROVE  Entries(0, a) \o Entries(a, b) = Entries(0, MaxOf(a, b))
<1> DEFINE s == Entries(0, a) \o Entries(a, b)
           r == Entries(0, MaxOf(a, b))
           m == MaxOf(a, b)
<1>0. /\ m \in Nat /\ m >= a /\ m - a \in Nat
      /\ MaxOf(0, a) - 0 = a /\ MaxOf(0, m) - 0 = m
  BY DEF MaxOf
<1>1. /\ Entries(0, a) \in Seq(Nat) /\ Len(Entries(0, a)) = a
      /\ \A k \in 1 .. a : Entries(0, a)[k] = k
  BY <1>0, EntriesType DEF Entries
<1>2. /\ Entries(a, b) \in Seq(Nat) /\ Len(Entries(a, b)) = m - a
      /\ \A k \in 1 .. m - a : Entries(a, b)[k] = a + k
  BY <1>0, EntriesType DEF Entries
<1>3. /\ r \in Seq(Nat) /\ Len(r) = m
      /\ \A k \in 1 .. m : r[k] = k
  BY <1>0, EntriesType DEF Entries
<1> HIDE DEF m, r
<1>4. s \in Seq(Nat) /\ Len(s) = m
  BY <1>0, <1>1, <1>2
<1> HIDE DEF s
<1>5. ASSUME NEW k \in 1 .. m PROVE s[k] = r[k]
  <2>1. CASE k <= a
    BY <1>0, <1>1, <1>2, <1>3, <2>1 DEF s
  <2>2. CASE k > a
    <3>1. k - a \in 1 .. m - a /\ a + (k - a) = k
      BY <1>0, <2>2
    <3>2. s[k] = Entries(a, b)[k - a]
      BY SMTT(30), <1>0, <1>1, <1>2, <2>2 DEF s
    <3>. QED
      BY <1>2, <1>3, <3>1, <3>2
  <2>. QED
    BY <2>1, <2>2, <1>0
<1>. QED
  BY <1>3, <1>4, <1>5, SeqEqual DEF r, m, s

----------------------------------------------------------------------------
(* One engine step.                                                        *)

LEMMA ChangedLemma ==
    ASSUME NEW x \in EngineType
    PROVE  /\ Changed(x) \in EngineType
           /\ Changed(x).version = x.version + 1
           /\ Changed(x).pending_restore = x.pending_restore
           /\ Changed(x).snapshot = x.snapshot
           /\ Changed(x).last_applied = x.last_applied
           /\ Changed(x).commit = x.commit
<1>1. x.version + 1 \in Nat /\ x.version \in Nat
  BY DEF EngineType
<1>2. Changed(x) \in EngineType
  <2>1. ASSUME NEW v \in Nat PROVE [x EXCEPT !.version = v, !.dirty = TRUE] \in EngineType
    BY DEF EngineType
  <2>. QED
    BY <1>1, <2>1 DEF Changed
<1>3. /\ Changed(x).version = x.version + 1
      /\ Changed(x).pending_restore = x.pending_restore
      /\ Changed(x).snapshot = x.snapshot
      /\ Changed(x).last_applied = x.last_applied
      /\ Changed(x).commit = x.commit
  BY <1>1 DEF Changed, EngineType
<1>. QED
  BY <1>2, <1>3

\* Whatever a locked call does, the version does not go back and a pending restore
\* holds exactly the entries below the point from which applying resumes.
LEMMA MoveLemma ==
    ASSUME NEW e \in EngineType, ~e.pending_restore, e.last_applied <= e.commit,
           NEW f, f \in Moves(e) \/ f = AppendOwn(e)
    PROVE  /\ f \in EngineType
           /\ f.version >= e.version
           /\ f.last_applied <= f.commit
           /\ f.pending_restore => f.snapshot = Entries(0, f.last_applied)
<1> DEFINE Good(x) == /\ x \in EngineType
                      /\ x.version = e.version
                      /\ x.last_applied <= x.commit
                      /\ x.pending_restore => x.snapshot = Entries(0, x.last_applied)
           Fine == /\ f \in EngineType
                   /\ f.version >= e.version
                   /\ f.last_applied <= f.commit
                   /\ f.pending_restore => f.snapshot = Entries(0, f.last_applied)
<1>0. ASSUME NEW x, Good(x), f = Changed(x) PROVE Fine
  <2>1. x.version \in Nat /\ x.version = e.version
    BY <1>0 DEF EngineType
  <2>. QED
    BY <1>0, <2>1, ChangedLemma
<1>1. CASE f = Unchanged(e)
  BY <1>1 DEF Unchanged, EngineType
<1>2. CASE f = NewTerm(e)
  <2>1. e.term + 1 \in Nat
    BY DEF EngineType
  <2>2. Good([e EXCEPT !.term = @ + 1, !.leader = FALSE])
    BY <2>1 DEF EngineType
  <2>. QED
    BY <1>0, <1>2, <2>2 DEF NewTerm
<1>3. CASE f = AppendOwn(e)
  <2>1. e.log \in Seq(Nat) /\ e.term \in Nat
    BY DEF EngineType
  <2>2. Append(e.log, e.term) \in Seq(Nat)
    BY <2>1
  <2>3. Good([e EXCEPT !.leader = TRUE, !.log = Append(@, e.term)])
    BY <2>2 DEF EngineType
  <2>. QED
    BY <1>0, <1>3, <2>3 DEF AppendOwn
<1>4. ASSUME NEW k \in e.commit + 1 .. MaxIndex, k \in 1 .. Len(e.log) + 1, f = Splice(e, k)
      PROVE  Fine
  <2>1. e.log \in Seq(Nat) /\ e.term \in Nat /\ e.commit \in Nat
    BY DEF EngineType
  <2>2. k - 1 \in 0 .. Len(e.log)
    BY <1>4, <2>1
  <2>3. SubSeq(e.log, 1, k - 1) \in Seq(Nat)
    BY SMTT(30), <2>1, <2>2
  <2>4. Append(SubSeq(e.log, 1, k - 1), e.term) \in Seq(Nat)
    BY <2>1, <2>3
  <2>5. Good([e EXCEPT !.leader = FALSE, !.log = Append(SubSeq(@, 1, k - 1), e.term)])
    BY <2>4 DEF EngineType
  <2>. QED
    BY <1>0, <1>4, <2>5 DEF Splice
<1>5. ASSUME NEW n \in e.commit + 1 .. Len(e.log), f = Advance(e, n)
      PROVE  Fine
  <2>1. e.commit \in Nat /\ e.last_applied \in Nat /\ Len(e.log) \in Nat
    BY DEF EngineType
  <2>2. n \in Nat /\ e.last_applied <= n
    BY <1>5, <2>1
  <2>3. Good([e EXCEPT !.commit = n])
    BY <2>2 DEF EngineType
  <2>. QED
    BY <1>0, <1>5, <2>3 DEF Advance
<1>6. ASSUME NEW n \in e.commit + 1 .. MaxIndex, NEW b \in BOOLEAN, f = Install(e, n, b)
      PROVE  Fine
  <2> DEFINE fresh == [k \in 1 .. n |-> IF k <= e.commit /\ k \in DOMAIN e.log THEN e.log[k] ELSE e.term]
             log == IF b THEN e.log ELSE fresh
             x == [e EXCEPT !.leader = FALSE, !.log = log,
                            !.commit = n, !.last_applied = n, !.base = n,
                            !.snapshot = Entries(0, n), !.pending_restore = TRUE]
  <2>1. e.commit \in Nat /\ e.term \in Nat /\ e.log \in Seq(Nat)
    BY DEF EngineType
  <2>2. n \in Nat
    BY <2>1, BoundAssumption
  <2>3. \A k \in 1 .. n : (IF k <= e.commit /\ k \in DOMAIN e.log THEN e.log[k] ELSE e.term) \in Nat
    BY <2>1
  <2>4. fresh \in Seq(Nat)
    BY <2>2, <2>3
  <2>5. log \in Seq(Nat)
    BY <2>1, <2>4
  <2>6. Entries(0, n) \in Seq(Nat)
    BY <2>2, EntriesType
  <2>7. f = Changed(x)
    BY <1>6 DEF Install
  <2> HIDE DEF log
  <2>8. x \in EngineType
    BY <2>2, <2>5, <2>6 DEF EngineType
  <2>9. /\ x.version = e.version /\ x.snapshot = Entries(0, n)
        /\ x.last_applied = n /\ x.commit = n
    BY DEF EngineType
  <2>10. Good(x)
    BY <2>2, <2>8, <2>9
  <2>. QED
    BY <1>0, <2>7, <2>10
<1>. QED
  BY <1>1, <1>2, <1>3, <1>4, <1>5, <1>6 DEF Moves, Agreements

\* What a step hands to its drain, and what it leaves in the engine.
LEMMA ReadyLemma ==
    ASSUME NEW e \in EngineType
    PROVE  /\ ready(e) \in ReadyType
           /\ ready(e).persist = e.dirty /\ ready(e).messages = e.version
           /\ ready(e).restore = e.pending_restore
           /\ ready(e).restore => ready(e).data = e.snapshot
           /\ ready(e).applied_from = e.last_applied /\ ready(e).applied_upto = e.commit
           /\ handed_over(e) \in EngineType
           /\ handed_over(e).version = e.version
           /\ ~handed_over(e).pending_restore
           /\ handed_over(e).last_applied = e.commit /\ handed_over(e).commit = e.commit
<1>1. /\ e.dirty \in BOOLEAN /\ e.pending_restore \in BOOLEAN
      /\ e.snapshot \in Seq(Nat) /\ e.version \in Nat
      /\ e.last_applied \in Nat /\ e.commit \in Nat
  BY DEF EngineType
<1>2. (IF e.pending_restore THEN e.snapshot ELSE <<>>) \in Seq(Nat)
  BY <1>1
<1>3. ready(e) \in ReadyType
  BY <1>1, <1>2 DEF ready, ReadyType
<1>4. /\ ready(e).persist = e.dirty /\ ready(e).messages = e.version
      /\ ready(e).restore = e.pending_restore
      /\ ready(e).restore => ready(e).data = e.snapshot
      /\ ready(e).applied_from = e.last_applied /\ ready(e).applied_upto = e.commit
  BY <1>1 DEF ready
<1>5. ASSUME NEW n \in Nat
      PROVE  [e EXCEPT !.dirty = FALSE, !.pending_restore = FALSE, !.last_applied = n] \in EngineType
  BY DEF EngineType
<1>6. handed_over(e) \in EngineType
  BY <1>1, <1>5 DEF handed_over
<1>7. /\ handed_over(e).version = e.version
      /\ ~handed_over(e).pending_restore
      /\ handed_over(e).last_applied = e.commit /\ handed_over(e).commit = e.commit
  BY <1>1 DEF handed_over, EngineType
<1>. QED
  BY <1>3, <1>4, <1>6, <1>7

\* compact() changes nothing a drain relies on but the version, upwards.
LEMMA CompactLemma ==
    ASSUME NEW e \in EngineType, NEW n \in Nat, NEW d \in Seq(Nat)
    PROVE  /\ compact(e, n, d) \in EngineType
           /\ compact(e, n, d).version >= e.version
           /\ compact(e, n, d).pending_restore = e.pending_restore
           /\ compact(e, n, d).last_applied = e.last_applied
           /\ compact(e, n, d).commit = e.commit
<1> DEFINE x == [e EXCEPT !.base = n, !.snapshot = d]
<1>1. /\ x \in EngineType /\ x.version = e.version /\ x.pending_restore = e.pending_restore
      /\ x.last_applied = e.last_applied /\ x.commit = e.commit
  BY DEF EngineType
<1>2. e.version \in Nat
  BY DEF EngineType
<1>3. CASE n <= e.base \/ n > e.commit
  BY <1>2, <1>3 DEF compact
<1>4. CASE ~(n <= e.base \/ n > e.commit)
  <2>1. compact(e, n, d) = Changed(x)
    BY <1>4 DEF compact
  <2> HIDE DEF x
  <2>. QED
    BY <1>1, <1>2, <2>1, ChangedLemma
<1>. QED
  BY <1>3, <1>4

----------------------------------------------------------------------------
(* A thread's move.                                                        *)

LEMMA GotoLemma ==
    ASSUME thread \in [Thread -> ThreadType], NEW t \in Thread, NEW p \in PCs, Goto(t, p)
    PROVE  /\ thread' \in [Thread -> ThreadType]
           /\ thread'[t].pc = p /\ thread'[t].ready = thread[t].ready
           /\ thread'[t].image = thread[t].image
           /\ \A u \in Thread : u # t => thread'[u] = thread[u]
BY DEF Goto, ThreadType

LEMMA SavingLemma ==
    ASSUME thread \in [Thread -> ThreadType], NEW t \in Thread, NEW v \in Nat,
           thread' = [thread EXCEPT ![t].pc = "saving", ![t].image = v]
    PROVE  /\ thread' \in [Thread -> ThreadType]
           /\ thread'[t].pc = "saving" /\ thread'[t].ready = thread[t].ready
           /\ thread'[t].image = v
           /\ \A u \in Thread : u # t => thread'[u] = thread[u]
<1> DEFINE x == [thread[t] EXCEPT !.pc = "saving", !.image = v]
<1>1. thread[t] \in ThreadType
  OBVIOUS
<1>2. x \in ThreadType /\ x.pc = "saving" /\ x.ready = thread[t].ready /\ x.image = v
  BY <1>1 DEF ThreadType, PCs
<1>3. thread' = [thread EXCEPT ![t] = x]
  OBVIOUS
<1> HIDE DEF x
<1>. QED
  BY <1>2, <1>3

LEMMA CaptureLemma ==
    ASSUME thread \in [Thread -> ThreadType], NEW t \in Thread, NEW d \in Seq(Nat),
           thread' = [thread EXCEPT ![t].pc = "fold", ![t].data = d]
    PROVE  /\ thread' \in [Thread -> ThreadType]
           /\ thread'[t].pc = "fold" /\ thread'[t].ready = thread[t].ready
           /\ \A u \in Thread : u # t => thread'[u] = thread[u]
<1> DEFINE x == [thread[t] EXCEPT !.pc = "fold", !.data = d]
<1>1. thread[t] \in ThreadType
  OBVIOUS
<1>2. x \in ThreadType /\ x.pc = "fold" /\ x.ready = thread[t].ready
  BY <1>1 DEF ThreadType, PCs
<1>3. thread' = [thread EXCEPT ![t] = x]
  OBVIOUS
<1> HIDE DEF x
<1>. QED
  BY <1>2, <1>3

LEMMA IdleType == Idle \in ThreadType /\ Idle.pc = "idle"
                  /\ Idle.ready = NoReady /\ Idle.image = 0
<1>1. NoReady \in ReadyType
  BY DEF NoReady, ReadyType
<1>. QED
  BY <1>1 DEF Idle, ThreadType, PCs, NoWait

LEMMA LeaveLemma ==
    ASSUME thread \in [Thread -> ThreadType], NEW t \in Thread, Leave(t)
    PROVE  /\ thread' \in [Thread -> ThreadType]
           /\ thread'[t].pc = "idle" /\ thread'[t].ready = NoReady
           /\ \A u \in Thread : u # t => thread'[u] = thread[u]
<1> HIDE DEF Idle
<1>. QED
  BY IdleType DEF Leave

\* Entering a drain with what the step handed over.
LEMMA EnterLemma ==
    ASSUME thread \in [Thread -> ThreadType], NEW t \in Thread,
           NEW r \in ReadyType, NEW w \in Nat \X Nat,
           thread' = [thread EXCEPT ![t] = [Idle EXCEPT !.pc = "drain", !.ready = r, !.wait = w]]
    PROVE  /\ thread' \in [Thread -> ThreadType]
           /\ thread'[t].pc = "drain" /\ thread'[t].ready = r
           /\ \A u \in Thread : u # t => thread'[u] = thread[u]
<1> DEFINE x == [Idle EXCEPT !.pc = "drain", !.ready = r, !.wait = w]
<1>1. x \in ThreadType /\ x.pc = "drain" /\ x.ready = r
  BY IdleType DEF ThreadType, PCs
<1> HIDE DEF x
<1>. QED
  BY <1>1 DEF x

----------------------------------------------------------------------------
(* Types and in-order application.                                         *)

ApplyInv == TypeOK /\ RestoreInv /\ AppliedInOrder

LEMMA ApplyInit == Init => ApplyInv
<1> SUFFICES ASSUME Init PROVE ApplyInv
  OBVIOUS
<1>1. /\ Recovered.log \in Seq(Nat) /\ Recovered.term \in Nat
      /\ Recovered.commit \in Nat /\ Recovered.base \in Nat
      /\ Recovered.base <= Recovered.commit
  BY RecoveredAssumption
<1>2. Entries(0, Recovered.base) \in Seq(Nat)
  BY <1>1, EntriesType
<1>3. engine \in EngineType /\ ~engine.pending_restore /\ engine.last_applied <= engine.commit
  BY <1>1, <1>2 DEF Init, EngineType
<1>4. thread \in [Thread -> ThreadType]
  BY IdleType DEF Init
<1>5. TypeOK
  BY <1>1, <1>2, <1>3, <1>4 DEF Init, TypeOK
<1>6. \A t \in Thread : thread[t].ready = NoReady
  BY IdleType DEF Init
<1>7. RestoreInv
  BY <1>3, <1>6 DEF RestoreInv, NoReady
<1>. QED
  BY <1>5, <1>7 DEF Init, ApplyInv, AppliedInOrder

\* A step or a proposal enters its drain with an exact restore and a forward batch.
LEMMA ApplyEnter ==
    ASSUME ApplyInv, NEW t \in Thread, NEW e \in EngineType, NEW w \in Nat \X Nat,
           e.last_applied <= e.commit,
           e.pending_restore => e.snapshot = Entries(0, e.last_applied),
           engine' = handed_over(e),
           thread' = [thread EXCEPT ![t] = [Idle EXCEPT !.pc = "drain", !.ready = ready(e), !.wait = w]],
           UNCHANGED <<engine_lock, io_lock, disk, available, watermark, sm, acked>>
    PROVE  ApplyInv'
<1>1. /\ thread' \in [Thread -> ThreadType] /\ thread'[t].ready = ready(e)
      /\ \A u \in Thread : u # t => thread'[u] = thread[u]
  BY EnterLemma, ReadyLemma DEF ApplyInv, TypeOK
<1>2. TypeOK'
  BY <1>1, ReadyLemma DEF ApplyInv, TypeOK
<1>3. /\ ~(engine'.pending_restore) /\ engine'.last_applied <= engine'.commit
  BY SMTT(30), ReadyLemma DEF EngineType
<1>4. ASSUME NEW u \in Thread
      PROVE  /\ thread'[u].ready.applied_from <= thread'[u].ready.applied_upto
             /\ thread'[u].ready.restore => thread'[u].ready.data = Entries(0, thread'[u].ready.applied_from)
  <2>1. CASE u = t
    BY <1>1, <2>1, ReadyLemma
  <2>2. CASE u # t
    BY <1>1, <2>2 DEF ApplyInv, RestoreInv
  <2>. QED
    BY <2>1, <2>2
<1>5. RestoreInv'
  BY <1>3, <1>4 DEF RestoreInv
<1>. QED
  BY <1>2, <1>5 DEF ApplyInv, AppliedInOrder

\* A thread that only moves on, or ends its drain, keeps what was handed to it.
LEMMA ApplyMoves ==
    ASSUME ApplyInv, NEW t \in Thread, thread' \in [Thread -> ThreadType],
           thread'[t].ready \in {thread[t].ready, NoReady},
           \A u \in Thread : u # t => thread'[u] = thread[u],
           engine' \in EngineType, engine'.pending_restore = engine.pending_restore,
           engine'.last_applied = engine.last_applied, engine'.commit = engine.commit
    PROVE  RestoreInv'
<1>1. ASSUME NEW u \in Thread
      PROVE  /\ thread'[u].ready.applied_from <= thread'[u].ready.applied_upto
             /\ thread'[u].ready.restore => thread'[u].ready.data = Entries(0, thread'[u].ready.applied_from)
  <2>1. CASE thread'[u].ready = NoReady
    BY <2>1 DEF NoReady
  <2>2. CASE thread'[u].ready = thread[u].ready
    BY <2>2 DEF ApplyInv, RestoreInv
  <2>. QED
    BY <2>1, <2>2
<1>. QED
  BY <1>1 DEF ApplyInv, RestoreInv

LEMMA ApplyNext == ApplyInv /\ [Next]_vars => ApplyInv'
<1> SUFFICES ASSUME ApplyInv, [Next]_vars PROVE ApplyInv'
  OBVIOUS
<1> USE DEF ApplyInv
<1>0. /\ thread \in [Thread -> ThreadType] /\ engine \in EngineType
      /\ ~engine.pending_restore /\ engine.last_applied <= engine.commit
  BY DEF TypeOK, RestoreInv
<1>1. CASE UNCHANGED vars
  BY <1>1 DEF vars, TypeOK, RestoreInv, AppliedInOrder
<1>2. ASSUME NEW t \in Thread, Step(t) PROVE ApplyInv'
  <2>1. PICK e \in Moves(engine) :
          /\ engine' = handed_over(e)
          /\ thread' = [thread EXCEPT ![t] = [Idle EXCEPT !.pc = "drain", !.ready = ready(e),
                                                          !.wait = NoWait]]
    BY <1>2 DEF Step
  <2>2. /\ e \in EngineType /\ e.last_applied <= e.commit
        /\ e.pending_restore => e.snapshot = Entries(0, e.last_applied)
    BY <1>0, MoveLemma
  <2>3. NoWait \in Nat \X Nat
    BY DEF NoWait
  <2>. QED
    BY <1>2, <2>1, <2>2, <2>3, ApplyEnter DEF Step
<1>3. ASSUME NEW t \in Thread, Propose(t) PROVE ApplyInv'
  <2> DEFINE e == AppendOwn(engine)
  <2>2. /\ e \in EngineType /\ e.last_applied <= e.commit
        /\ e.pending_restore => e.snapshot = Entries(0, e.last_applied)
    BY <1>0, MoveLemma
  <2>3. <<Len(e.log), e.term>> \in Nat \X Nat
    BY <2>2 DEF EngineType
  <2> HIDE DEF e
  <2>. QED
    BY <1>3, <2>2, <2>3, ApplyEnter DEF Propose, e
<1>4. ASSUME NEW t \in Thread, NEW p \in PCs, Goto(t, p) \/ Leave(t),
             engine' \in EngineType, engine'.pending_restore = engine.pending_restore,
             engine'.last_applied = engine.last_applied, engine'.commit = engine.commit,
             engine_lock' \in Thread \cup {None}, io_lock' \in Thread \cup {None},
             disk' \in Nat, available' \in BOOLEAN, acked' \subseteq Nat \X Nat,
             UNCHANGED <<watermark, sm>>
      PROVE  ApplyInv'
  <2>1. /\ thread' \in [Thread -> ThreadType]
        /\ thread'[t].ready \in {thread[t].ready, NoReady}
        /\ \A u \in Thread : u # t => thread'[u] = thread[u]
    BY <1>0, <1>4, GotoLemma, LeaveLemma
  <2>2. TypeOK'
    BY <1>4, <2>1 DEF TypeOK
  <2>3. RestoreInv'
    BY <1>4, <2>1, ApplyMoves
  <2>. QED
    BY <1>4, <2>2, <2>3 DEF AppliedInOrder
<1>5. ASSUME NEW t \in Thread, Enter(t) PROVE ApplyInv'
  <2>1. "persist" \in PCs /\ "apply" \in PCs
    BY DEF PCs
  <2>2. Goto(t, "persist") \/ Goto(t, "apply") \/ Leave(t)
    BY <1>5 DEF Enter
  <2>. QED
    BY <1>4, <1>5, <2>1, <2>2 DEF Enter, TypeOK
<1>6. ASSUME NEW t \in Thread, PersistBegin(t) PROVE ApplyInv'
  <2>1. CASE available
    <3>1. engine.version \in Nat
      BY <1>0 DEF EngineType
    <3>2. /\ thread' \in [Thread -> ThreadType]
          /\ thread'[t].ready = thread[t].ready
          /\ \A u \in Thread : u # t => thread'[u] = thread[u]
      BY <1>0, <1>6, <2>1, <3>1, SavingLemma DEF PersistBegin
    <3>3. TypeOK'
      BY <1>6, <2>1, <3>2 DEF PersistBegin, TypeOK
    <3>4. RestoreInv'
      BY <1>0, <1>6, <3>2, ApplyMoves DEF PersistBegin
    <3>. QED
      BY <1>6, <3>3, <3>4 DEF PersistBegin, AppliedInOrder
  <2>2. CASE ~available
    <3>1. "idle" \in PCs
      BY DEF PCs
    <3>. QED
      BY <1>4, <1>6, <2>2, <3>1 DEF PersistBegin, TypeOK
  <2>. QED
    BY <2>1, <2>2
<1>7. ASSUME NEW t \in Thread, PersistEnd(t) PROVE ApplyInv'
  <2>1. "apply" \in PCs /\ thread[t].image \in Nat
    BY <1>0 DEF PCs, ThreadType
  <2>. QED
    BY <1>4, <1>7, <2>1 DEF PersistEnd, TypeOK
<1>8. ASSUME NEW t \in Thread, FailClosed(t) PROVE ApplyInv'
  <2>1. "idle" \in PCs
    BY DEF PCs
  <2>. QED
    BY <1>4, <1>8, <2>1 DEF FailClosed, TypeOK
<1>9. ASSUME NEW t \in Thread, ApplyNothing(t) PROVE ApplyInv'
  <2>1. "compact" \in PCs
    BY DEF PCs
  <2>. QED
    BY <1>4, <1>9, <2>1 DEF ApplyNothing, TypeOK
<1>10. ASSUME NEW t \in Thread, ApplyRestore(t) \/ ApplyBatch(t) PROVE ApplyInv'
  <2> DEFINE r == thread[t].ready
  <2>1. /\ r \in ReadyType /\ watermark \in Nat /\ sm = Entries(0, watermark)
        /\ r.applied_from <= r.applied_upto
        /\ r.restore => r.data = Entries(0, r.applied_from)
    BY <1>0 DEF TypeOK, RestoreInv, ThreadType, AppliedInOrder
  <2>2. /\ r.applied_from \in Nat /\ r.applied_upto \in Nat
    BY <2>1 DEF ReadyType
  <2>3. /\ thread' \in [Thread -> ThreadType]
        /\ thread'[t].ready = thread[t].ready
        /\ \A u \in Thread : u # t => thread'[u] = thread[u]
    <3>1. "compact" \in PCs
      BY DEF PCs
    <3>. QED
      BY <1>0, <1>10, <3>1, GotoLemma DEF ApplyRestore, ApplyBatch
  <2>4. watermark' \in Nat /\ sm' = Entries(0, watermark')
    <3>1. CASE ApplyRestore(t) /\ r.applied_upto >= watermark
      <4>1. /\ sm' = Entries(0, r.applied_from) \o Entries(r.applied_from, r.applied_upto)
            /\ watermark' = r.applied_upto
        BY <3>1, <2>1 DEF ApplyRestore
      <4>2. MaxOf(r.applied_from, r.applied_upto) = r.applied_upto
        BY <2>1, <2>2 DEF MaxOf
      <4>. QED
        BY <2>2, <4>1, <4>2, EntriesConcat
    <3>2. CASE ApplyRestore(t) /\ ~(r.applied_upto >= watermark)
      BY <3>2, <2>1 DEF ApplyRestore
    <3>3. CASE ApplyBatch(t)
      <4>1. /\ watermark >= r.applied_from
            /\ sm' = Entries(0, watermark) \o Entries(MaxOf(r.applied_from, watermark), r.applied_upto)
            /\ watermark' = MaxOf(watermark, r.applied_upto)
        BY <3>3, <2>1 DEF ApplyBatch
      <4>2. MaxOf(r.applied_from, watermark) = watermark /\ watermark' \in Nat
        BY <2>1, <2>2, <4>1 DEF MaxOf
      <4>. QED
        BY <2>1, <2>2, <4>1, <4>2, EntriesConcat
    <3>. QED
      BY <1>10, <3>1, <3>2, <3>3
  <2>5. sm' \in Seq(Nat)
    BY <2>4, EntriesType
  <2>6. UNCHANGED <<engine, engine_lock, io_lock, disk, available, acked>>
    BY <1>10 DEF ApplyRestore, ApplyBatch
  <2>7. TypeOK'
    BY <2>3, <2>4, <2>5, <2>6 DEF TypeOK
  <2>8. RestoreInv'
    BY <1>0, <2>3, <2>6, ApplyMoves
  <2>. QED
    BY <2>4, <2>7, <2>8 DEF AppliedInOrder
<1>11. ASSUME NEW t \in Thread, ApplyGivesUp(t) PROVE ApplyInv'
  <2>1. "idle" \in PCs
    BY DEF PCs
  <2>. QED
    BY <1>4, <1>11, <2>1 DEF ApplyGivesUp, TypeOK
<1>12. ASSUME NEW t \in Thread, MaybeCompact(t) PROVE ApplyInv'
  <2>1. "capture" \in PCs /\ "send" \in PCs
    BY DEF PCs
  <2>2. Goto(t, "capture") \/ Goto(t, "send")
    BY <1>12 DEF MaybeCompact
  <2>. QED
    BY <1>4, <1>12, <2>1, <2>2 DEF MaybeCompact, TypeOK
<1>13. ASSUME NEW t \in Thread, Capture(t) PROVE ApplyInv'
  <2>1. /\ thread' \in [Thread -> ThreadType]
        /\ thread'[t].ready = thread[t].ready
        /\ \A u \in Thread : u # t => thread'[u] = thread[u]
    BY <1>0, <1>13, CaptureLemma DEF Capture, TypeOK
  <2>2. TypeOK'
    BY <1>13, <2>1 DEF Capture, TypeOK
  <2>3. RestoreInv'
    BY <1>0, <1>13, <2>1, ApplyMoves DEF Capture
  <2>. QED
    BY <1>13, <2>2, <2>3 DEF Capture, AppliedInOrder
<1>14. ASSUME NEW t \in Thread, FoldBegin(t) PROVE ApplyInv'
  <2>1. "folding" \in PCs
    BY DEF PCs
  <2>. QED
    BY <1>4, <1>14, <2>1 DEF FoldBegin, TypeOK
<1>15. ASSUME NEW t \in Thread, FoldEnd(t) PROVE ApplyInv'
  <2>1. thread[t].ready.applied_upto \in Nat /\ thread[t].data \in Seq(Nat)
    BY <1>0 DEF ThreadType, ReadyType
  <2>2. /\ engine' \in EngineType /\ engine'.pending_restore = engine.pending_restore
        /\ engine'.last_applied = engine.last_applied /\ engine'.commit = engine.commit
    BY <1>0, <1>15, <2>1, CompactLemma DEF FoldEnd
  <2>3. "send" \in PCs /\ engine'.version \in Nat
    BY <2>2 DEF PCs, EngineType
  <2>. QED
    BY <1>4, <1>15, <2>2, <2>3 DEF FoldEnd, TypeOK
<1>16. ASSUME NEW t \in Thread, Send(t) PROVE ApplyInv'
  <2>1. "await" \in PCs
    BY DEF PCs
  <2>. QED
    BY <1>4, <1>16, <2>1 DEF Send, TypeOK
<1>17. ASSUME NEW t \in Thread, AwaitTrue(t) \/ AwaitFalse(t) PROVE ApplyInv'
  <2>1. "idle" \in PCs /\ thread[t].wait \in Nat \X Nat
    BY <1>0 DEF PCs, ThreadType
  <2>2. acked' \subseteq Nat \X Nat
    BY <1>17, <2>1 DEF AwaitTrue, AwaitFalse, TypeOK
  <2>. QED
    BY <1>4, <1>17, <2>1, <2>2 DEF AwaitTrue, AwaitFalse, TypeOK
<1>. QED
  BY <1>1, <1>2, <1>3, <1>5, <1>6, <1>7, <1>8, <1>9, <1>10, <1>11, <1>12, <1>13,
     <1>14, <1>15, <1>16, <1>17 DEF Next, Drain

\* Every variable keeps its type, for any number of threads, entries and terms.
THEOREM TypeCorrect == Spec => []TypeOK
<1>1. ApplyInv => TypeOK
  BY DEF ApplyInv
<1>. QED
  BY <1>1, ApplyInit, ApplyNext, PTL DEF Spec

\* drain() applies every committed entry once and in log order, however many
\* drains and snapshot restores race to the apply point.
THEOREM AppliesInOrder == Spec => []AppliedInOrder
<1>1. ApplyInv => AppliedInOrder
  BY DEF ApplyInv
<1>. QED
  BY <1>1, ApplyInit, ApplyNext, PTL DEF Spec

----------------------------------------------------------------------------
(* What a drain may say of the disk.                                       *)

DurableInv == LockInv /\ VersionInv /\ OwnChangeDurable

\* The points of a drain after its own change, if any, was saved.
Saved == {"apply", "compact", "capture", "fold", "folding", "send", "await"}

\* What DurableInv says of one thread, given the disk and the engine's version.
ThreadDurable(u, d, v) ==
    /\ u.ready.messages <= v
    /\ u.pc = "saving" => d <= u.image /\ u.image <= v /\ u.ready.messages <= u.image
    /\ u.ready.persist /\ u.pc \in Saved => d >= u.ready.messages

LEMMA DurableByThread ==
    VersionInv /\ OwnChangeDurable
      <=> disk <= engine.version /\ \A t \in Thread : ThreadDurable(thread[t], disk, engine.version)
BY DEF VersionInv, OwnChangeDurable, ThreadDurable, Saved

LEMMA DurableInit == Init => DurableInv
<1> SUFFICES ASSUME Init PROVE DurableInv
  OBVIOUS
<1>1. \A t \in Thread : thread[t].pc = "idle" /\ thread[t].ready = NoReady
  BY IdleType DEF Init
<1>2. engine.version = 0 /\ disk = 0
  BY DEF Init
<1>3. VersionInv /\ OwnChangeDurable
  BY <1>1, <1>2 DEF VersionInv, OwnChangeDurable, NoReady
<1>4. LockInv
  BY <1>1, ThreadAssumption DEF Init, LockInv
<1>. QED
  BY <1>3, <1>4 DEF DurableInv

\* One thread moves, the others stay; the disk and the version go forward, and the
\* disk moves only while no other thread is saving.
LEMMA DurableMoves ==
    ASSUME TypeOK, DurableInv, NEW t \in Thread,
           \A u \in Thread : u # t => thread'[u] = thread[u],
           engine'.version \in Nat, disk' \in Nat,
           engine'.version >= engine.version, disk' >= disk, disk' <= engine'.version,
           disk' # disk => \A u \in Thread : u # t => thread[u].pc # "saving",
           ThreadDurable(thread'[t], disk', engine'.version)
    PROVE  (VersionInv /\ OwnChangeDurable)'
<1>1. ASSUME NEW u \in Thread PROVE ThreadDurable(thread'[u], disk', engine'.version)
  <2>1. CASE u = t
    BY <2>1
  <2>2. CASE u # t
    <3>1. thread'[u] = thread[u] /\ ThreadDurable(thread[u], disk, engine.version)
      BY <2>2, DurableByThread DEF DurableInv
    <3>2. /\ thread[u].ready.messages \in Nat /\ thread[u].image \in Nat
          /\ disk \in Nat /\ engine.version \in Nat
      BY DEF TypeOK, ThreadType, ReadyType, EngineType
    <3>. QED
      BY <2>2, <3>1, <3>2 DEF ThreadDurable
  <2>. QED
    BY <2>1, <2>2
<1>. QED
  BY <1>1 DEF VersionInv, OwnChangeDurable, ThreadDurable, Saved

\* A step outside the two saves touches no lock.
LEMMA LockStays ==
    ASSUME LockInv, NEW t \in Thread, UNCHANGED <<engine_lock, io_lock>>,
           \A u \in Thread : u # t => thread'[u] = thread[u],
           thread[t].pc \notin {"saving", "folding"}, thread'[t].pc \notin {"saving", "folding"}
    PROVE  LockInv'
<1>1. ASSUME NEW u \in Thread
      PROVE  /\ thread'[u].pc \in {"saving", "folding"} <=> io_lock' = u
             /\ thread'[u].pc = "folding" <=> engine_lock' = u
  <2>1. CASE u = t
    BY <2>1 DEF LockInv
  <2>2. CASE u # t
    BY <2>2 DEF LockInv
  <2>. QED
    BY <2>1, <2>2
<1>. QED
  BY <1>1 DEF LockInv

\* A thread that moves on within its drain, disk and engine untouched.
LEMMA DurableGoto ==
    ASSUME TypeOK, DurableInv, NEW t \in Thread, NEW p \in PCs, Goto(t, p) \/ Leave(t),
           thread[t].pc \notin {"saving", "folding"}, p \notin {"saving", "folding"},
           thread[t].ready.persist => thread[t].pc \in Saved \/ p = "persist",
           UNCHANGED <<engine, disk, engine_lock, io_lock>>
    PROVE  DurableInv'
<1>1. thread \in [Thread -> ThreadType]
  BY DEF TypeOK
<1>2. \A u \in Thread : u # t => thread'[u] = thread[u]
  BY <1>1, GotoLemma, LeaveLemma
<1>3. /\ disk \in Nat /\ engine.version \in Nat /\ disk <= engine.version
      /\ ThreadDurable(thread[t], disk, engine.version)
  BY DurableByThread DEF TypeOK, EngineType, DurableInv
<1>4. thread'[t].pc \notin {"saving", "folding"} /\ ThreadDurable(thread'[t], disk', engine'.version)
  <2>1. CASE Goto(t, p)
    <3>1. thread'[t].pc = p /\ thread'[t].ready = thread[t].ready
      BY <1>1, <2>1, GotoLemma
    <3>. QED
      BY <1>3, <3>1 DEF ThreadDurable, Saved
  <2>2. CASE Leave(t)
    <3>1. thread'[t].pc = "idle" /\ thread'[t].ready = NoReady
      BY <1>1, <2>2, LeaveLemma
    <3>. QED
      BY <1>3, <3>1 DEF ThreadDurable, Saved, NoReady
  <2>. QED
    BY <2>1, <2>2
<1>5. LockInv'
  BY <1>2, <1>4, LockStays DEF DurableInv
<1>6. (VersionInv /\ OwnChangeDurable)'
  BY <1>2, <1>3, <1>4, DurableMoves
<1>. QED
  BY <1>5, <1>6 DEF DurableInv

\* A step or a proposal enters its drain: what it says is the engine's version.
LEMMA DurableEnter ==
    ASSUME TypeOK, DurableInv, NEW t \in Thread, NEW e \in EngineType, NEW w \in Nat \X Nat,
           thread[t].pc = "idle", e.version >= engine.version,
           engine' = handed_over(e),
           thread' = [thread EXCEPT ![t] = [Idle EXCEPT !.pc = "drain", !.ready = ready(e), !.wait = w]],
           UNCHANGED <<engine_lock, io_lock, disk>>
    PROVE  DurableInv'
<1>1. /\ thread'[t].pc = "drain" /\ thread'[t].ready = ready(e)
      /\ \A u \in Thread : u # t => thread'[u] = thread[u]
  BY EnterLemma, ReadyLemma DEF TypeOK
<1>2. /\ engine'.version = e.version /\ e.version \in Nat /\ engine.version \in Nat
      /\ disk \in Nat /\ disk <= engine.version /\ ready(e).messages = e.version
  BY ReadyLemma DEF TypeOK, EngineType, DurableInv, VersionInv
<1>3. ThreadDurable(thread'[t], disk', engine'.version)
  BY <1>1, <1>2 DEF ThreadDurable, Saved
<1>4. (VersionInv /\ OwnChangeDurable)'
  BY <1>1, <1>2, <1>3, DurableMoves
<1>5. LockInv'
  BY <1>1, LockStays DEF DurableInv
<1>. QED
  BY <1>4, <1>5 DEF DurableInv

LEMMA DurableNext == ApplyInv /\ DurableInv /\ [Next]_vars => DurableInv' /\ disk' >= disk
<1> SUFFICES ASSUME ApplyInv, DurableInv, [Next]_vars PROVE DurableInv' /\ disk' >= disk
  OBVIOUS
<1>0. /\ TypeOK /\ thread \in [Thread -> ThreadType] /\ engine \in EngineType
      /\ ~engine.pending_restore /\ engine.last_applied <= engine.commit
      /\ disk \in Nat /\ engine.version \in Nat /\ disk <= engine.version
  BY DEF ApplyInv, TypeOK, RestoreInv, DurableInv, VersionInv, EngineType
<1>1. CASE UNCHANGED vars
  BY <1>0, <1>1 DEF vars, DurableInv, LockInv, VersionInv, OwnChangeDurable
<1>2. ASSUME NEW t \in Thread, Step(t) PROVE DurableInv' /\ disk' >= disk
  <2>1. PICK e \in Moves(engine) :
          /\ engine' = handed_over(e)
          /\ thread' = [thread EXCEPT ![t] = [Idle EXCEPT !.pc = "drain", !.ready = ready(e),
                                                          !.wait = NoWait]]
    BY <1>2 DEF Step
  <2>2. e \in EngineType /\ e.version >= engine.version
    BY <1>0, MoveLemma
  <2>3. NoWait \in Nat \X Nat
    BY DEF NoWait
  <2>4. thread[t].pc = "idle" /\ UNCHANGED <<engine_lock, io_lock, disk>>
    BY <1>2 DEF Step
  <2>5. DurableInv'
    BY <1>0, <2>1, <2>2, <2>3, <2>4, DurableEnter
  <2>. QED
    BY <1>0, <2>4, <2>5
<1>3. ASSUME NEW t \in Thread, Propose(t) PROVE DurableInv' /\ disk' >= disk
  <2> DEFINE e == AppendOwn(engine)
  <2>1. e \in EngineType /\ e.version >= engine.version
    BY <1>0, MoveLemma
  <2>2. <<Len(e.log), e.term>> \in Nat \X Nat
    BY <2>1 DEF EngineType
  <2>3. /\ thread[t].pc = "idle" /\ UNCHANGED <<engine_lock, io_lock, disk>>
        /\ engine' = handed_over(e)
        /\ thread' = [thread EXCEPT ![t] = [Idle EXCEPT !.pc = "drain", !.ready = ready(e),
                                                        !.wait = <<Len(e.log), e.term>>]]
    BY <1>3 DEF Propose
  <2> HIDE DEF e
  <2>4. DurableInv'
    BY <1>0, <2>1, <2>2, <2>3, DurableEnter
  <2>. QED
    BY <1>0, <2>3, <2>4
<1>4. ASSUME NEW t \in Thread, NEW p \in PCs, Goto(t, p) \/ Leave(t),
             thread[t].pc \notin {"saving", "folding"}, p \notin {"saving", "folding"},
             thread[t].ready.persist => thread[t].pc \in Saved \/ p = "persist",
             UNCHANGED <<engine, disk, engine_lock, io_lock>>
      PROVE  DurableInv' /\ disk' >= disk
  BY <1>0, <1>4, DurableGoto
<1>5. ASSUME NEW t \in Thread, Enter(t) PROVE DurableInv' /\ disk' >= disk
  <2>1. "persist" \in PCs /\ "apply" \in PCs /\ thread[t].ready.persist \in BOOLEAN
    BY <1>0 DEF PCs, ThreadType, ReadyType
  <2>2. CASE thread[t].ready.persist
    BY <1>4, <1>5, <2>1, <2>2 DEF Enter
  <2>3. CASE ~thread[t].ready.persist
    BY <1>4, <1>5, <2>1, <2>3 DEF Enter
  <2>. QED
    BY <2>2, <2>3
<1>6. ASSUME NEW t \in Thread, PersistBegin(t) PROVE DurableInv' /\ disk' >= disk
  <2>1. CASE available
    <3>1. /\ thread'[t].pc = "saving" /\ thread'[t].ready = thread[t].ready
          /\ thread'[t].image = engine.version
          /\ \A u \in Thread : u # t => thread'[u] = thread[u]
      BY <1>0, <1>6, <2>1, SavingLemma DEF PersistBegin
    <3>2. ThreadDurable(thread'[t], disk', engine'.version)
      BY <1>0, <1>6, <3>1 DEF ThreadDurable, PersistBegin, DurableInv, VersionInv, Saved
    <3>3. (VersionInv /\ OwnChangeDurable)'
      BY <1>0, <1>6, <3>1, <3>2, DurableMoves DEF PersistBegin
    <3>4. ASSUME NEW u \in Thread
          PROVE  /\ thread'[u].pc \in {"saving", "folding"} <=> io_lock' = u
                 /\ thread'[u].pc = "folding" <=> engine_lock' = u
      BY <1>6, <2>1, <3>1, ThreadAssumption DEF PersistBegin, DurableInv, LockInv
    <3>5. LockInv'
      BY <3>4 DEF LockInv
    <3>. QED
      BY <1>0, <1>6, <3>3, <3>5 DEF PersistBegin, DurableInv
  <2>2. CASE ~available
    <3>1. "persist" \in PCs /\ Leave(t)
      BY <1>6, <2>2 DEF PCs, PersistBegin
    <3>. QED
      BY <1>4, <1>6, <2>2, <3>1 DEF PersistBegin
  <2>. QED
    BY <2>1, <2>2
\* The end of either save: the disk moves forward and both locks are free again.
<1>7. ASSUME NEW t \in Thread, NEW p \in {"apply", "send"}, Goto(t, p),
             thread[t].pc \in {"saving", "folding"},
             engine'.version \in Nat, engine'.version >= engine.version,
             disk' \in Nat, disk' >= disk, disk' <= engine'.version,
             thread[t].ready.persist => thread[t].ready.messages <= disk',
             io_lock' = None,
             engine_lock' = IF thread[t].pc = "folding" THEN None ELSE engine_lock
      PROVE  DurableInv' /\ disk' >= disk
  <2>1. /\ thread'[t].pc = p /\ thread'[t].ready = thread[t].ready
        /\ \A u \in Thread : u # t => thread'[u] = thread[u]
    <3>1. p \in PCs
      BY DEF PCs
    <3>. QED
      BY <1>0, <1>7, <3>1, GotoLemma
  <2>2. \A u \in Thread : u # t => thread[u].pc \notin {"saving", "folding"}
    BY <1>7 DEF DurableInv, LockInv
  <2>3. thread[t].ready.messages \in Nat /\ thread[t].ready.messages <= engine.version
    BY <1>0 DEF ThreadType, ReadyType, DurableInv, VersionInv
  <2>4. ThreadDurable(thread'[t], disk', engine'.version)
    BY <1>0, <1>7, <2>1, <2>3 DEF ThreadDurable
  <2>5. (VersionInv /\ OwnChangeDurable)'
    BY <1>0, <1>7, <2>1, <2>2, <2>4, DurableMoves
  <2>6. ASSUME NEW u \in Thread
        PROVE  /\ thread'[u].pc \in {"saving", "folding"} <=> io_lock' = u
               /\ thread'[u].pc = "folding" <=> engine_lock' = u
    BY <1>7, <2>1, <2>2, ThreadAssumption DEF DurableInv, LockInv
  <2>7. LockInv'
    BY <2>6 DEF LockInv
  <2>. QED
    BY <1>7, <2>5, <2>7 DEF DurableInv
<1>8. ASSUME NEW t \in Thread, PersistEnd(t) PROVE DurableInv' /\ disk' >= disk
  <2>1. /\ disk' = thread[t].image /\ thread[t].image \in Nat
        /\ disk <= thread[t].image /\ thread[t].image <= engine.version
        /\ thread[t].ready.messages <= thread[t].image
    BY <1>0, <1>8 DEF PersistEnd, ThreadType, DurableInv, VersionInv
  <2>. QED
    BY <1>0, <1>7, <1>8, <2>1 DEF PersistEnd
<1>9. ASSUME NEW t \in Thread, FoldEnd(t) PROVE DurableInv' /\ disk' >= disk
  <2>1. /\ thread[t].ready.applied_upto \in Nat /\ thread[t].data \in Seq(Nat)
        /\ thread[t].ready.messages \in Nat /\ thread[t].ready.messages <= engine.version
    BY <1>0 DEF ThreadType, ReadyType, DurableInv, VersionInv
  <2>2. engine' \in EngineType /\ engine'.version >= engine.version
    BY <1>0, <1>9, <2>1, CompactLemma DEF FoldEnd
  <2>3. engine'.version \in Nat
    BY <2>2 DEF EngineType
  <2>. QED
    BY <1>0, <1>7, <1>9, <2>1, <2>2, <2>3 DEF FoldEnd
<1>10. ASSUME NEW t \in Thread, FailClosed(t) PROVE DurableInv' /\ disk' >= disk
  <2>1. /\ thread'[t].pc = "idle" /\ thread'[t].ready = NoReady
        /\ \A u \in Thread : u # t => thread'[u] = thread[u]
    BY <1>0, <1>10, LeaveLemma DEF FailClosed
  <2>2. ThreadDurable(thread'[t], disk', engine'.version)
    BY <1>0, <1>10, <2>1 DEF FailClosed, ThreadDurable, Saved, NoReady
  <2>3. (VersionInv /\ OwnChangeDurable)'
    BY <1>0, <1>10, <2>1, <2>2, DurableMoves DEF FailClosed
  <2>4. ASSUME NEW u \in Thread
        PROVE  /\ thread'[u].pc \in {"saving", "folding"} <=> io_lock' = u
               /\ thread'[u].pc = "folding" <=> engine_lock' = u
    BY <1>10, <2>1, ThreadAssumption DEF FailClosed, DurableInv, LockInv
  <2>5. LockInv'
    BY <2>4 DEF LockInv
  <2>. QED
    BY <1>0, <1>10, <2>3, <2>5 DEF FailClosed, DurableInv
<1>11. ASSUME NEW t \in Thread, FoldBegin(t) PROVE DurableInv' /\ disk' >= disk
  <2>1. CASE available
    <3>1. /\ thread'[t].pc = "folding" /\ thread'[t].ready = thread[t].ready
          /\ \A u \in Thread : u # t => thread'[u] = thread[u]
      <4>1. "folding" \in PCs
        BY DEF PCs
      <4>. QED
        BY <1>0, <1>11, <2>1, <4>1, GotoLemma DEF FoldBegin
    <3>2. ThreadDurable(thread'[t], disk', engine'.version)
      <4>1. ThreadDurable(thread[t], disk, engine.version)
        BY DurableByThread DEF DurableInv
      <4>. QED
        BY <1>11, <3>1, <4>1 DEF FoldBegin, ThreadDurable, Saved
    <3>3. (VersionInv /\ OwnChangeDurable)'
      BY <1>0, <1>11, <3>1, <3>2, DurableMoves DEF FoldBegin
    <3>4. ASSUME NEW u \in Thread
          PROVE  /\ thread'[u].pc \in {"saving", "folding"} <=> io_lock' = u
                 /\ thread'[u].pc = "folding" <=> engine_lock' = u
      BY <1>11, <2>1, <3>1, ThreadAssumption DEF FoldBegin, DurableInv, LockInv
    <3>5. LockInv'
      BY <3>4 DEF LockInv
    <3>. QED
      BY <1>0, <1>11, <3>3, <3>5 DEF FoldBegin, DurableInv
  <2>2. CASE ~available
    <3>1. "idle" \in PCs /\ Leave(t)
      BY <1>11, <2>2 DEF PCs, FoldBegin
    <3>. QED
      BY <1>4, <1>11, <2>2, <3>1 DEF FoldBegin, Saved
  <2>. QED
    BY <2>1, <2>2
<1>12. ASSUME NEW t \in Thread, Capture(t) PROVE DurableInv' /\ disk' >= disk
  <2>1. /\ thread'[t].pc = "fold" /\ thread'[t].ready = thread[t].ready
        /\ \A u \in Thread : u # t => thread'[u] = thread[u]
    BY <1>0, <1>12, CaptureLemma DEF Capture, TypeOK
  <2>2. ThreadDurable(thread'[t], disk', engine'.version)
    <3>1. ThreadDurable(thread[t], disk, engine.version)
      BY DurableByThread DEF DurableInv
    <3>. QED
      BY <1>12, <2>1, <3>1 DEF Capture, ThreadDurable, Saved
  <2>3. (VersionInv /\ OwnChangeDurable)'
    BY <1>0, <1>12, <2>1, <2>2, DurableMoves DEF Capture
  <2>4. LockInv'
    BY <1>12, <2>1, LockStays DEF Capture, DurableInv
  <2>. QED
    BY <1>0, <1>12, <2>3, <2>4 DEF Capture, DurableInv
<1>13. ASSUME NEW t \in Thread,
              ApplyNothing(t) \/ ApplyRestore(t) \/ ApplyBatch(t) \/ ApplyGivesUp(t)
       PROVE  DurableInv' /\ disk' >= disk
  <2>1. "compact" \in PCs /\ thread[t].pc = "apply" /\ (Goto(t, "compact") \/ Leave(t))
    BY <1>13 DEF PCs, ApplyNothing, ApplyRestore, ApplyBatch, ApplyGivesUp
  <2>2. UNCHANGED <<engine, disk, engine_lock, io_lock>>
    BY <1>13 DEF ApplyNothing, ApplyRestore, ApplyBatch, ApplyGivesUp
  <2>. QED
    BY <1>4, <2>1, <2>2 DEF Saved
<1>14. ASSUME NEW t \in Thread, MaybeCompact(t) \/ Send(t) \/ AwaitTrue(t) \/ AwaitFalse(t)
       PROVE  DurableInv' /\ disk' >= disk
  <2>1. /\ thread[t].pc \in {"compact", "send", "await"}
        /\ Goto(t, "capture") \/ Goto(t, "send") \/ Goto(t, "await") \/ Leave(t)
    BY <1>14 DEF MaybeCompact, Send, AwaitTrue, AwaitFalse
  <2>2. UNCHANGED <<engine, disk, engine_lock, io_lock>>
    BY <1>14 DEF MaybeCompact, Send, AwaitTrue, AwaitFalse
  <2>3. "capture" \in PCs /\ "send" \in PCs /\ "await" \in PCs
    BY DEF PCs
  <2>. QED
    BY <1>4, <2>1, <2>2, <2>3 DEF Saved
<1>. QED
  BY <1>1, <1>2, <1>3, <1>5, <1>6, <1>8, <1>9, <1>10, <1>11, <1>12, <1>13, <1>14 DEF Next, Drain

\* A drain that changed durable state applies and sends only after a save that
\* includes the change: OwnChangeDurable for any number of threads.
THEOREM OwnChangeIsDurable == Spec => []OwnChangeDurable
<1>1. Init => ApplyInv /\ DurableInv
  BY ApplyInit, DurableInit
<1>2. (ApplyInv /\ DurableInv) /\ [Next]_vars => (ApplyInv /\ DurableInv)'
  BY ApplyNext, DurableNext
<1>3. ApplyInv /\ DurableInv => OwnChangeDurable
  BY DEF DurableInv
<1>. QED
  BY <1>1, <1>2, <1>3, PTL DEF Spec

\* No save, of a drain or of a compaction, writes an older engine state over a
\* newer one: DiskNeverRegresses for any number of threads.
THEOREM DiskOnlyMovesForward == Spec => DiskNeverRegresses
<1>1. Init => ApplyInv /\ DurableInv
  BY ApplyInit, DurableInit
<1>2. (ApplyInv /\ DurableInv) /\ [Next]_vars => (ApplyInv /\ DurableInv)'
  BY ApplyNext, DurableNext
<1>3. ApplyInv /\ DurableInv /\ [Next]_vars => [disk' >= disk]_vars
  BY DurableNext
<1>. QED
  BY <1>1, <1>2, <1>3, PTL DEF Spec, DiskNeverRegresses

----------------------------------------------------------------------------
(* What propose() answers true for.                                        *)

\* A locked call keeps what is committed and, while its member leads in the same term,
\* every entry.
Keeps(e, f) ==
    /\ f.commit >= e.commit /\ f.commit <= Len(f.log)
    /\ \A k \in 1 .. e.commit : f.log[k] = e.log[k]
    /\ f.term >= e.term
    /\ f.term = e.term /\ e.leader =>
          /\ f.leader /\ Len(f.log) >= Len(e.log)
          /\ \A k \in 1 .. Len(e.log) : f.log[k] = e.log[k]

\* A proposal that is awaited was appended in its term, and is there as long as the term is.
Awaited(e, w) ==
    w # NoWait => /\ w[2] <= e.term
                  /\ w[2] = e.term => e.leader /\ w[1] \in 1 .. Len(e.log) /\ e.log[w[1]] = w[2]

CommitInv ==
    /\ engine.commit <= Len(engine.log)
    /\ \A w \in acked : w[1] \in 1 .. engine.commit /\ engine.log[w[1]] = w[2]
    /\ \A t \in Thread : /\ Awaited(engine, thread[t].wait)
                         /\ thread[t].pc = "await" => thread[t].wait # NoWait

LEMMA MoveKeeps ==
    ASSUME NEW e \in EngineType, e.commit <= Len(e.log), NEW f, f \in Moves(e) \/ f = AppendOwn(e)
    PROVE  Keeps(e, f)
<1> DEFINE n == Len(e.log)
<1>1. /\ e.log \in Seq(Nat) /\ e.term \in Nat /\ e.commit \in Nat /\ n \in Nat /\ e.leader \in BOOLEAN
  BY DEF EngineType
<1>2. CASE f = Unchanged(e)
  BY <1>1, <1>2 DEF Unchanged, Keeps
<1>3. CASE f = NewTerm(e)
  <2>1. f.log = e.log /\ f.commit = e.commit /\ f.term = e.term + 1
    BY <1>3 DEF NewTerm, Changed, EngineType
  <2>2. f.term > e.term /\ f.term # e.term /\ f.commit >= e.commit
    BY <1>1, <2>1
  <2>. QED
    BY <1>1, <2>1, <2>2 DEF Keeps
<1>4. CASE f = AppendOwn(e)
  <2>1. f.log = Append(e.log, e.term) /\ f.commit = e.commit /\ f.term = e.term /\ f.leader = TRUE
    BY <1>4 DEF AppendOwn, Changed, EngineType
  <2>2. Len(f.log) = n + 1 /\ \A k \in 1 .. n : f.log[k] = e.log[k]
    BY <1>1, <2>1
  <2>3. \A k \in 1 .. e.commit : k \in 1 .. n
    BY <1>1
  <2>. QED
    BY <1>1, <2>1, <2>2, <2>3 DEF Keeps
<1>5. ASSUME NEW k \in e.commit + 1 .. MaxIndex, k \in 1 .. Len(e.log) + 1, ~e.leader, f = Splice(e, k)
      PROVE  Keeps(e, f)
  <2>1. /\ f.log = Append(SubSeq(e.log, 1, k - 1), e.term) /\ f.commit = e.commit /\ f.term = e.term
    BY <1>5 DEF Splice, Changed, EngineType
  <2>2. k \in Nat /\ k - 1 \in 0 .. n /\ e.commit <= k - 1
    BY <1>1, <1>5
  <2>3. /\ SubSeq(e.log, 1, k - 1) \in Seq(Nat) /\ Len(SubSeq(e.log, 1, k - 1)) = k - 1
        /\ \A j \in 1 .. k - 1 : SubSeq(e.log, 1, k - 1)[j] = e.log[j]
    BY <1>1, <2>2, SMTT(30)
  <2>4. Len(f.log) = k /\ \A j \in 1 .. k - 1 : f.log[j] = e.log[j]
    BY <1>1, <2>1, <2>2, <2>3
  <2>5. \A j \in 1 .. e.commit : j \in 1 .. k - 1
    BY <1>1, <2>2
  <2>. QED
    BY <1>1, <1>5, <2>1, <2>2, <2>4, <2>5 DEF Keeps
<1>6. ASSUME NEW m \in e.commit + 1 .. Len(e.log), f = Advance(e, m)
      PROVE  Keeps(e, f)
  <2>1. f.log = e.log /\ f.commit = m /\ f.term = e.term /\ f.leader = e.leader
    BY <1>6 DEF Advance, Changed, EngineType
  <2>. QED
    BY <1>1, <1>6, <2>1 DEF Keeps
<1>7. ASSUME NEW m \in e.commit + 1 .. MaxIndex, NEW b \in Agreements(e, m), ~e.leader, f = Install(e, m, b)
      PROVE  Keeps(e, f)
  <2> DEFINE fresh == [k \in 1 .. m |-> IF k <= e.commit /\ k \in DOMAIN e.log THEN e.log[k] ELSE e.term]
             log == IF b THEN e.log ELSE fresh
  <2>1. f.log = log /\ f.commit = m /\ f.term = e.term
    BY <1>7 DEF Install, Changed, EngineType
  <2>2. m \in Nat /\ m > e.commit
    BY <1>1, <1>7, BoundAssumption
  <2>3. m <= Len(log)
    <3>1. CASE b
      BY <1>7, <3>1 DEF Agreements
    <3>2. CASE ~b
      BY <2>2, <3>2
    <3>. QED
      BY <3>1, <3>2
  <2>4. \A k \in 1 .. e.commit : k \in DOMAIN e.log /\ k \in 1 .. m
    BY <1>1, <2>2
  <2>5. \A k \in 1 .. e.commit : log[k] = e.log[k]
    BY <2>4
  <2> HIDE DEF log
  <2>. QED
    BY <1>1, <1>7, <2>1, <2>2, <2>3, <2>5 DEF Keeps
<1>. QED
  BY <1>2, <1>3, <1>4, <1>5, <1>6, <1>7 DEF Moves

\* A change of the engine that keeps entries keeps CommitInv, for threads that wait for
\* nothing new.
LEMMA CommitKept ==
    ASSUME TypeOK, CommitInv, engine' \in EngineType, Keeps(engine, engine'),
           \A w \in acked' : w \in acked \/ (w[1] \in 1 .. engine.commit /\ engine.log[w[1]] = w[2]),
           \A t \in Thread : \/ Awaited(engine', thread'[t].wait) /\ thread'[t].pc # "await"
                             \/ /\ thread'[t].wait = thread[t].wait
                                /\ thread'[t].pc = "await" => thread[t].wait # NoWait
    PROVE  CommitInv'
<1>1. /\ engine.commit \in Nat /\ engine.log \in Seq(Nat) /\ engine.term \in Nat
      /\ engine'.commit \in Nat /\ engine'.log \in Seq(Nat) /\ engine'.term \in Nat
  BY DEF TypeOK, EngineType
<1>2. ASSUME NEW w \in acked' PROVE w[1] \in 1 .. engine'.commit /\ engine'.log[w[1]] = w[2]
  <2>1. w[1] \in 1 .. engine.commit /\ engine.log[w[1]] = w[2]
    BY <1>2 DEF CommitInv
  <2>2. engine'.commit >= engine.commit /\ \A k \in 1 .. engine.commit : engine'.log[k] = engine.log[k]
    BY DEF Keeps
  <2>3. w[1] \in 1 .. engine'.commit
    BY <1>1, <2>1, <2>2
  <2>. QED
    BY <2>1, <2>2, <2>3
<1>3. ASSUME NEW t \in Thread PROVE Awaited(engine', thread'[t].wait)
  <2>1. CASE thread'[t].wait = thread[t].wait
    <3> DEFINE w == thread[t].wait
    <3>1. Awaited(engine, w) /\ w \in Nat \X Nat
      BY DEF CommitInv, TypeOK, ThreadType
    <3>2. ASSUME w # NoWait PROVE w[2] <= engine'.term
      BY <1>1, <3>1, <3>2 DEF Awaited, Keeps
    <3>3. ASSUME w # NoWait, w[2] = engine'.term
          PROVE  engine'.leader /\ w[1] \in 1 .. Len(engine'.log) /\ engine'.log[w[1]] = w[2]
      <4>1. engine.term = engine'.term
        BY <1>1, <3>1, <3>3 DEF Awaited, Keeps
      <4>2. engine.leader /\ w[1] \in 1 .. Len(engine.log) /\ engine.log[w[1]] = w[2]
        BY <3>1, <3>3, <4>1 DEF Awaited
      <4>3. /\ engine'.leader /\ Len(engine'.log) >= Len(engine.log)
            /\ \A k \in 1 .. Len(engine.log) : engine'.log[k] = engine.log[k]
        BY <4>1, <4>2 DEF Keeps
      <4>4. Len(engine.log) \in Nat /\ Len(engine'.log) \in Nat
        BY <1>1
      <4>. QED
        BY <4>2, <4>3, <4>4
    <3>. QED
      BY <2>1, <3>2, <3>3 DEF Awaited
  <2>. QED
    BY <2>1
<1>4. engine'.commit <= Len(engine'.log)
  BY DEF Keeps
<1>5. ASSUME NEW t \in Thread, thread'[t].pc = "await" PROVE thread'[t].wait # NoWait
  <2>1. \/ Awaited(engine', thread'[t].wait) /\ thread'[t].pc # "await"
        \/ /\ thread'[t].wait = thread[t].wait
           /\ thread'[t].pc = "await" => thread[t].wait # NoWait
    OBVIOUS
  <2>. QED
    BY <1>5, <2>1
<1>. QED
  BY <1>2, <1>3, <1>4, <1>5 DEF CommitInv

\* A recovered member waits for nothing and has acknowledged nothing.
LEMMA CommitInit == Init => CommitInv
<1> SUFFICES ASSUME Init PROVE CommitInv
  OBVIOUS
<1>1. /\ engine.commit = Recovered.commit /\ engine.log = Recovered.log /\ acked = {}
      /\ \A t \in Thread : thread[t] = Idle
  BY DEF Init
<1>2. Idle.wait = NoWait /\ Idle.pc = "idle"
  BY DEF Idle
<1>. QED
  BY <1>1, <1>2, RecoveredAssumption DEF CommitInv, Awaited

\* Every step of every thread keeps what was acknowledged among what is committed.
LEMMA CommitNext == ApplyInv /\ CommitInv /\ [Next]_vars => CommitInv'
<1> SUFFICES ASSUME ApplyInv, CommitInv, [Next]_vars PROVE CommitInv'
  OBVIOUS
<1>1. /\ TypeOK /\ TypeOK' /\ engine \in EngineType /\ engine' \in EngineType
      /\ thread \in [Thread -> ThreadType]
  BY ApplyNext DEF ApplyInv, TypeOK
<1>2. /\ engine.commit \in Nat /\ engine.log \in Seq(Nat) /\ engine.term \in Nat
      /\ engine.commit <= Len(engine.log)
  BY <1>1 DEF EngineType, CommitInv
<1>3. Keeps(engine, engine)
  BY <1>2 DEF Keeps
<1>4. Idle.wait = NoWait /\ Idle.pc = "idle"
  BY DEF Idle
<1> HIDE DEF Idle
\* A thread leaves, or moves on to a point p of its drain, with the engine as it was.
<1>5. ASSUME NEW t \in Thread, NEW p \in PCs, Goto(t, p) \/ Leave(t), p # "await",
             engine' = engine \/ Keeps(engine, engine'), acked' = acked
      PROVE  CommitInv'
  <2>1. \A u \in Thread : \/ Awaited(engine', thread'[u].wait) /\ thread'[u].pc # "await"
                          \/ /\ thread'[u].wait = thread[u].wait
                             /\ thread'[u].pc = "await" => thread[u].wait # NoWait
    <3>1. CASE Goto(t, p)
      <4>1. /\ thread'[t].wait = thread[t].wait /\ thread'[t].pc = p
            /\ \A u \in Thread : u # t => thread'[u] = thread[u]
        BY <1>1, <3>1 DEF Goto, ThreadType
      <4>. QED
        BY <1>5, <4>1 DEF CommitInv
    <3>2. CASE Leave(t)
      <4>1. thread'[t] = Idle /\ \A u \in Thread : u # t => thread'[u] = thread[u]
        BY <1>1, <3>2 DEF Leave
      <4>. QED
        BY <1>4, <4>1 DEF CommitInv, Awaited
    <3>. QED
      BY <1>5, <3>1, <3>2
  <2>. QED
    BY <1>1, <1>3, <1>5, <2>1, CommitKept
\* A thread enters its drain after a locked call.
<1>6. ASSUME NEW t \in Thread, NEW e \in EngineType, NEW w, Keeps(engine, e), Awaited(e, w),
             engine' = handed_over(e), acked' = acked,
             thread' = [thread EXCEPT ![t] = [Idle EXCEPT !.pc = "drain", !.ready = ready(e), !.wait = w]]
      PROVE  CommitInv'
  <2>1. /\ engine'.log = e.log /\ engine'.commit = e.commit /\ engine'.term = e.term
        /\ engine'.leader = e.leader
    BY <1>6 DEF handed_over, EngineType
  <2>2. Keeps(engine, engine') /\ Awaited(engine', w)
    BY <1>6, <2>1 DEF Keeps, Awaited
  <2>3. /\ thread'[t].wait = w /\ thread'[t].pc = "drain"
        /\ \A u \in Thread : u # t => thread'[u] = thread[u]
    BY <1>1, <1>6 DEF Idle
  <2>. QED
    BY <1>1, <1>6, <2>2, <2>3, CommitKept DEF CommitInv
<1>7. CASE UNCHANGED vars
  BY <1>1, <1>3, <1>7, CommitKept DEF vars, CommitInv
<1>8. ASSUME NEW t \in Thread, Step(t) PROVE CommitInv'
  <2>1. PICK e \in Moves(engine) :
          /\ engine' = handed_over(e)
          /\ thread' = [thread EXCEPT ![t] = [Idle EXCEPT !.pc = "drain", !.ready = ready(e),
                                                          !.wait = NoWait]]
    BY <1>8 DEF Step
  <2>2. e \in EngineType
    BY <1>1, MoveLemma DEF ApplyInv, RestoreInv
  <2>3. Keeps(engine, e) /\ Awaited(e, NoWait)
    BY <1>1, <1>2, MoveKeeps DEF Awaited
  <2>4. acked' = acked
    BY <1>8 DEF Step
  <2>. QED
    BY <1>6, <2>1, <2>2, <2>3, <2>4
<1>9. ASSUME NEW t \in Thread, Propose(t) PROVE CommitInv'
  <2> DEFINE e == AppendOwn(engine)
             w == <<Len(e.log), e.term>>
  <2>1. e \in EngineType
    BY <1>1, MoveLemma DEF ApplyInv, RestoreInv
  <2>2. Keeps(engine, e)
    BY <1>1, <1>2, MoveKeeps
  <2>3. e.log = Append(engine.log, engine.term) /\ e.term = engine.term /\ e.leader = TRUE
    BY <1>1 DEF AppendOwn, Changed, EngineType
  <2>4. acked' = acked /\ engine' = handed_over(e)
        /\ thread' = [thread EXCEPT ![t] = [Idle EXCEPT !.pc = "drain", !.ready = ready(e), !.wait = w]]
    BY <1>9 DEF Propose
  <2>5. Awaited(e, w)
    <3>1. Len(e.log) = Len(engine.log) + 1 /\ e.log[Len(engine.log) + 1] = engine.term
      BY <1>2, <2>3
    <3>2. Len(engine.log) \in Nat
      BY <1>2
    <3> HIDE DEF e
    <3>3. Len(e.log) \in 1 .. Len(e.log) /\ e.log[Len(e.log)] = e.term
      BY <2>3, <3>1, <3>2
    <3>4. e.term <= e.term
      BY <1>2, <2>3
    <3>. QED
      BY <2>3, <3>3, <3>4 DEF Awaited
  <2> HIDE DEF e, w
  <2>. QED
    BY <1>6, <2>1, <2>2, <2>4, <2>5
<1>10. /\ "idle" \in PCs /\ "persist" \in PCs /\ "apply" \in PCs /\ "saving" \in PCs /\ "compact" \in PCs
       /\ "capture" \in PCs /\ "send" \in PCs /\ "folding" \in PCs
  BY DEF PCs
<1>11. ASSUME NEW t \in Thread, Enter(t) PROVE CommitInv'
  BY <1>5, <1>10, <1>11 DEF Enter
<1>12. ASSUME NEW t \in Thread, PersistBegin(t) PROVE CommitInv'
  <2>1. CASE available
    <3>1. /\ thread'[t].pc = "saving" /\ thread'[t].wait = thread[t].wait
          /\ \A u \in Thread : u # t => thread'[u] = thread[u]
      BY <1>1, <1>12, <2>1 DEF PersistBegin, ThreadType
    <3>. QED
      BY <1>1, <1>3, <1>12, <3>1, CommitKept DEF PersistBegin, CommitInv
  <2>2. CASE ~available
    BY <1>5, <1>10, <1>12, <2>2 DEF PersistBegin
  <2>. QED
    BY <2>1, <2>2
<1>13. ASSUME NEW t \in Thread, PersistEnd(t) \/ FailClosed(t) PROVE CommitInv'
  BY <1>5, <1>10, <1>13 DEF PersistEnd, FailClosed
<1>14. ASSUME NEW t \in Thread, ApplyNothing(t) \/ ApplyRestore(t) \/ ApplyBatch(t) \/ ApplyGivesUp(t)
       PROVE  CommitInv'
  BY <1>5, <1>10, <1>14 DEF ApplyNothing, ApplyRestore, ApplyBatch, ApplyGivesUp
<1>15. ASSUME NEW t \in Thread, MaybeCompact(t) PROVE CommitInv'
  BY <1>5, <1>10, <1>15 DEF MaybeCompact
<1>16. ASSUME NEW t \in Thread, Capture(t) PROVE CommitInv'
  <2>1. /\ thread'[t].pc = "fold" /\ thread'[t].wait = thread[t].wait
        /\ \A u \in Thread : u # t => thread'[u] = thread[u]
    BY <1>1, <1>16 DEF Capture, ThreadType
  <2>. QED
    BY <1>1, <1>3, <1>16, <2>1, CommitKept DEF Capture, CommitInv
<1>17. ASSUME NEW t \in Thread, FoldBegin(t) PROVE CommitInv'
  BY <1>5, <1>10, <1>17 DEF FoldBegin
<1>18. ASSUME NEW t \in Thread, FoldEnd(t) PROVE CommitInv'
  <2> DEFINE n == thread[t].ready.applied_upto
             d == thread[t].data
  <2>1. engine' = compact(engine, n, d) /\ Goto(t, "send") /\ acked' = acked
    BY <1>18 DEF FoldEnd
  <2>2. /\ engine'.log = engine.log /\ engine'.commit = engine.commit /\ engine'.term = engine.term
        /\ engine'.leader = engine.leader
    BY <1>1, <2>1 DEF compact, Changed, EngineType
  <2>3. Keeps(engine, engine')
    BY <1>2, <2>2 DEF Keeps
  <2>. QED
    BY <1>5, <1>10, <2>1, <2>3
<1>19. ASSUME NEW t \in Thread, Send(t) PROVE CommitInv'
  <2>1. CASE thread[t].wait = NoWait
    BY <1>5, <1>10, <1>19, <2>1 DEF Send
  <2>2. CASE thread[t].wait # NoWait
    <3>1. /\ thread'[t].pc = "await" /\ thread'[t].wait = thread[t].wait
          /\ \A u \in Thread : u # t => thread'[u] = thread[u]
      BY <1>1, <1>19, <2>2 DEF Send, Goto, ThreadType
    <3>2. \A u \in Thread : /\ thread'[u].wait = thread[u].wait
                            /\ thread'[u].pc = "await" => thread[u].wait # NoWait
      BY <2>2, <3>1 DEF CommitInv
    <3>3. engine' = engine /\ acked' = acked
      BY <1>19 DEF Send
    <3>4. Keeps(engine, engine')
      BY <1>3, <3>3
    <3>. QED
      BY <1>1, <3>2, <3>3, <3>4, CommitKept
  <2>. QED
    BY <2>1, <2>2
<1>20. ASSUME NEW t \in Thread, AwaitTrue(t) PROVE CommitInv'
  <2> DEFINE w == thread[t].wait
  <2>1. /\ thread[t].pc = "await" /\ engine.commit >= w[1] /\ engine.term = w[2]
        /\ acked' = acked \cup {w} /\ Leave(t) /\ engine' = engine
    BY <1>20 DEF AwaitTrue, committed_in_term
  <2>2. w[1] \in 1 .. Len(engine.log) /\ engine.log[w[1]] = w[2]
    BY <2>1 DEF CommitInv, Awaited
  <2>3. w[1] \in 1 .. engine.commit
    BY <1>2, <2>1, <2>2
  <2>4. thread'[t] = Idle /\ \A u \in Thread : u # t => thread'[u] = thread[u]
    BY <1>1, <2>1 DEF Leave
  <2>5. \A u \in Thread : \/ Awaited(engine', thread'[u].wait) /\ thread'[u].pc # "await"
                          \/ /\ thread'[u].wait = thread[u].wait
                             /\ thread'[u].pc = "await" => thread[u].wait # NoWait
    BY <1>4, <2>4 DEF CommitInv, Awaited
  <2> HIDE DEF w
  <2>. QED
    BY <1>1, <1>3, <2>1, <2>2, <2>3, <2>5, CommitKept
<1>21. ASSUME NEW t \in Thread, AwaitFalse(t) PROVE CommitInv'
  BY <1>5, <1>10, <1>21 DEF AwaitFalse
<1>. QED
  BY <1>7, <1>8, <1>9, <1>11, <1>12, <1>13, <1>14, <1>15, <1>16, <1>17, <1>18, <1>19, <1>20, <1>21
  DEF Next, Drain

\* propose() answers true only for an entry that is committed, in the term it was
\* proposed in, and stays: AckedIsCommitted for any number of threads and terms.
THEOREM AckedStaysCommitted == Spec => []AckedIsCommitted
<1>1. Init => ApplyInv /\ CommitInv
  BY ApplyInit, CommitInit
<1>2. (ApplyInv /\ CommitInv) /\ [Next]_vars => (ApplyInv /\ CommitInv)'
  BY ApplyNext, CommitNext
<1>3. ApplyInv /\ CommitInv => AckedIsCommitted
  <2> SUFFICES ASSUME ApplyInv, CommitInv, NEW w \in acked
               PROVE  w[1] <= engine.commit /\ engine.log[w[1]] = w[2]
    BY DEF AckedIsCommitted
  <2>1. w[1] \in 1 .. engine.commit /\ engine.commit \in Nat
    BY DEF CommitInv, ApplyInv, TypeOK, EngineType
  <2>. QED
    BY <2>1 DEF CommitInv
<1>. QED
  BY <1>1, <1>2, <1>3, PTL DEF Spec
=============================================================================
