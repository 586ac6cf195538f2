------------------------- MODULE BrainRaftLogProofs -------------------------
(***************************************************************************)
(* The invariant of BrainRaft's logs, and the proof that a drain keeps it. *)
(*                                                                         *)
(* Two histories carry the argument.  ledger[t] is all that the leader of  *)
(* term t has held: it only grows, and every entry anywhere is, with all   *)
(* before it, as the ledger of its term has it (Sound), so histories are   *)
(* compared with ledgers instead of with each other.  acked is every       *)
(* acknowledgement a leader may still count.                               *)
(*                                                                         *)
(* Chosen(u, n) says a majority has held the leader of u's log through n,  *)
(* an entry of its own; Blocked(u, n) says a majority never will.  Both    *)
(* are stable and exclude each other.  SafeInv is the heart: of an earlier *)
(* leader's entry, a later leader either has it, or it is Blocked.  It     *)
(* survives an election because every voter compared its own log with the  *)
(* candidate's (BallotInv), and what a voter has acknowledged it holds     *)
(* unless a later leader made it drop it (AckInv).  Everything a commit    *)
(* index covers is Backed by a Chosen entry.                               *)
(*                                                                         *)
(* A handler's result is LogGood when the history it leaves is the old     *)
(* one, one more entry of a leader, or a prefix of the ledger of the term, *)
(* when its commit index is Backed or counted, and when what it sends is   *)
(* true of the ledger.  PerformKeepsLog shows that draining any such       *)
(* result keeps LogInv; BrainRaftSafetyProofs shows every handler LogGood. *)
(***************************************************************************)
EXTENDS BrainRaftProofs, WellFoundedInduction

Entry == [term : Nat \ {0}, index : Nat \ {0}, command : Command \cup {None}]

\* a and b have the same first n entries.
Agree(a, b, n) == n <= Len(a) /\ n <= Len(b) /\ \A k \in 1 .. n : a[k] = b[k]

\* Every entry of H, with all before it, is as the ledger L has it.
Sound(H, L) ==
    \A k \in 1 .. Len(H) : H[k].term \in DOMAIN L /\ Agree(H, L[H[k].term], k)

\* Member j has told the leader of u that it holds its log through n.
Acked(u, j, n) == \E k \in Nat : k >= n /\ <<u, j, k>> \in acked

\* Member j has held the leader of u's log through n.
Held(u, j, n) == Acked(u, j, n) \/ (<<u, j>> \in elected /\ n <= Len(ledger[u]))

Majority(Q) == Q \subseteq Member /\ Cardinality(Q) >= quorum

\* An entry the leader of u appended itself, or has yet to append.
Own(u, n) == n <= Len(ledger[u]) => ledger[u][n].term = u

\* The leader of u may count a majority for n.
Chosen(u, n) ==
    /\ u \in DOMAIN ledger /\ n \in 1 .. Len(ledger[u]) /\ ledger[u][n].term = u
    /\ \E Q \in SUBSET Member : Majority(Q) /\ \A j \in Q : Held(u, j, n)

\* It never will.
Blocked(u, n) ==
    \E Q \in SUBSET Member : Majority(Q) /\ \A j \in Q : raft[j].current_term > u /\ ~Held(u, j, n)

\* The first n entries of H are committed, at a term t or before.
Backed(H, t, n) ==
    n = 0 \/ \E u \in DOMAIN ledger : u <= t /\ \E c \in Nat : c >= n /\ Chosen(u, c) /\ Agree(H, ledger[u], n)

\* In the ledger L, a leader after u and through t lacks one of the leader of u's first
\* n entries.
Overwritten(L, u, n, t) == \E w \in DOMAIN L : u < w /\ w <= t /\ ~Agree(L[w], L[u], n)

LedgerInv ==
    /\ \A t \in DOMAIN ledger :
         /\ t \in Nat /\ ledger[t] \in Seq(Entry) /\ Len(ledger[t]) > 0
         /\ ledger[t][Len(ledger[t])].term = t
         /\ Sound(ledger[t], ledger)
         /\ \A k \in 1 .. Len(ledger[t]) : ledger[t][k].term <= t /\ ledger[t][k].index = k
    /\ \A t \in Nat : t \in DOMAIN ledger <=> \E l \in Member : <<t, l>> \in elected
    /\ \A t \in Nat, l \in Member : <<t, l>> \in elected => t <= raft[l].current_term

\* The struct's fields fit together.
Shape(r) ==
    /\ r.log \in Seq(Entry) /\ r.snapshot \in Seq(Entry)
    /\ r.base_index = Len(r.snapshot)
    /\ r.base_term = IF r.base_index = 0 THEN 0 ELSE r.snapshot[r.base_index].term
    /\ r.commit_index \in Nat /\ r.base_index <= r.commit_index /\ r.commit_index <= last_index(r)
    /\ r.leader_id \in Member \cup {None} /\ r.acked_since_check \subseteq Member
    /\ r.next_index \in [Member -> Nat \ {0}] /\ r.match_index \in [Member -> Nat]
    /\ r.snapshot_inflight \in [Member -> Nat]
    /\ r.role = "Leader" => \A p \in Member : /\ r.next_index[p] <= last_index(r) + 1
                                              /\ r.match_index[p] <= last_index(r)
                                              /\ r.snapshot_inflight[p] <= r.base_index

MemberLog(i) ==
    LET r == raft[i] IN
    /\ Shape(r)
    /\ Sound(History(r), ledger)
    /\ \A k \in 1 .. Len(History(r)) : History(r)[k].term <= r.current_term
    /\ Backed(History(r), r.current_term, r.commit_index)
    /\ r.role = "Leader" =>
         /\ <<r.current_term, i>> \in elected
         /\ ledger[r.current_term] = History(r)
         /\ \A p \in peers(i) : r.match_index[p] = 0 \/ Acked(r.current_term, p, r.match_index[p])
    /\ r.role = "Candidate" => r.current_term > 0 /\ <<r.current_term, i>> \notin elected
    /\ r.voted_for # None => <<r.current_term, i, r.voted_for>> \in voted

\* What is acknowledged is held, unless a later leader has overwritten it.
AckInv ==
    /\ acked \subseteq Nat \X Member \X Nat
    /\ \A u \in Nat, j \in Member, k \in Nat : <<u, j, k>> \in acked =>
          u \in DOMAIN ledger /\ u <= raft[j].current_term /\ k <= Len(ledger[u])
    /\ \A u \in DOMAIN ledger, j \in Member, n \in Nat : Held(u, j, n) =>
          Agree(History(raft[j]), ledger[u], n) \/ Overwritten(ledger, u, n, raft[j].current_term)

\* What a voter held, its candidate holds.
BallotInv ==
    \A v \in Nat, j, c \in Member : <<v, j, c>> \in voted =>
        /\ v <= raft[c].current_term
        /\ raft[c].role = "Candidate" /\ raft[c].current_term = v =>
             \A u \in DOMAIN ledger, n \in Nat \ {0} : u < v /\ Own(u, n) /\ Held(u, j, n) =>
                Agree(History(raft[c]), ledger[u], n) \/ Overwritten(ledger, u, n, v)

\* What an earlier leader may still commit, every later one has.
SafeInv ==
    \A u, v \in DOMAIN ledger, n \in Nat \ {0} :
        u < v /\ Own(u, n) => Agree(ledger[v], ledger[u], n) \/ Blocked(u, n)

AppendOK(m, H) ==
    LET prev == m.prev_log_index IN
    /\ prev \in Nat /\ m.entries \in Seq(Entry) /\ prev + Len(m.entries) <= Len(H)
    /\ m.prev_log_term = (IF prev = 0 THEN 0 ELSE H[prev].term)
    /\ \A k \in 1 .. Len(m.entries) : m.entries[k] = H[prev + k]
    /\ m.leader_commit \in Nat /\ m.leader_commit <= Len(H)

SnapshotOK(m, H) ==
    /\ m.data \in Seq(Entry) /\ Len(m.data) > 0 /\ m.last_included_index = Len(m.data)
    /\ Agree(m.data, H, Len(m.data)) /\ m.last_included_term = H[Len(m.data)].term

\* What every message in flight says is true of its sender's term.
MessageOK(m) ==
    /\ m.type = "AppendEntries" => /\ m.term \in DOMAIN ledger /\ AppendOK(m, ledger[m.term])
                                   /\ Backed(ledger[m.term], m.term, m.leader_commit)
    /\ m.type = "InstallSnapshot" => /\ m.term \in DOMAIN ledger /\ SnapshotOK(m, ledger[m.term])
                                     /\ Backed(ledger[m.term], m.term, m.last_included_index)
    /\ m.type = "AppendEntriesResp" => /\ m.match_index \in Nat
                                       /\ m.success => <<m.term, m.from, m.match_index>> \in acked
    /\ m.type = "InstallSnapshotResp" => /\ m.last_included_index \in Nat
                                         /\ m.success => <<m.term, m.from, m.last_included_index>> \in acked
    /\ m.type = "RequestVote" /\ ~m.pre_vote =>
         /\ m.term <= raft[m.from].current_term
         /\ raft[m.from].role = "Candidate" /\ raft[m.from].current_term = m.term =>
               m.last_log_index = last_index(raft[m.from]) /\ m.last_log_term = last_term(raft[m.from])

LogInv ==
    /\ LedgerInv
    /\ \A i \in Member : MemberLog(i)
    /\ AckInv
    /\ BallotInv
    /\ SafeInv
    /\ \A m \in msgs : MessageOK(m)

----------------------------------------------------------------------------
(* Sequences and numbers.                                                  *)

\* Every nonempty set of naturals has a least element, which is what Min picks.
LEMMA LeastOf ==
    ASSUME NEW S \in SUBSET Nat, S # {}
    PROVE  Min(S) \in S /\ \A x \in S : Min(S) <= x
<1> DEFINE R == OpToRel(<, Nat)
<1>1. IsWellFoundedOn(R, Nat)
  BY NatLessThanWellFounded
<1>2. PICK x \in S : \A y \in S : ~(<<y, x>> \in R)
  <2> HIDE DEF R
  <2> QED
    BY <1>1, WFMin
<1>3. \A y \in S : ~(y < x)
  BY <1>2 DEF OpToRel
<1>4. \A y \in S : x <= y
  BY <1>3
<1> QED
  BY <1>4 DEF Min

\* A nonempty set of naturals below a bound has a greatest element, which Max picks.
LEMMA GreatestOf ==
    ASSUME NEW S \in SUBSET Nat, S # {}, NEW b \in Nat, \A x \in S : x <= b
    PROVE  Max(S) \in S /\ \A x \in S : x <= Max(S)
<1> DEFINE T == {y \in Nat : b - y \in S}
<1>1. T \in SUBSET Nat /\ \A x \in S : b - x \in T
  <2>1. ASSUME NEW x \in S PROVE b - x \in Nat /\ b - (b - x) = x
    OBVIOUS
  <2> QED
    BY <2>1
<1>2. Min(T) \in T /\ \A y \in T : Min(T) <= y
  BY <1>1, LeastOf
<1> DEFINE x == b - Min(T)
<1>3. x \in S /\ Min(T) \in Nat
  BY <1>2
<1>4. \A y \in S : Min(T) <= b - y
  BY <1>1, <1>2
<1>5. \A y \in S : y <= x
  BY <1>3, <1>4
<1> HIDE DEF x
<1> QED
  BY <1>3, <1>5 DEF Max

\* Elements of a concatenation.
LEMMA ConcatAt ==
    ASSUME NEW S, NEW a \in Seq(S), NEW b \in Seq(S)
    PROVE  /\ a \o b \in Seq(S) /\ Len(a \o b) = Len(a) + Len(b)
           /\ \A k \in 1 .. Len(a) : (a \o b)[k] = a[k]
           /\ \A k \in 1 .. Len(b) : (a \o b)[Len(a) + k] = b[k]
  OBVIOUS

\* Elements of a subsequence.
LEMMA SubSeqAt ==
    ASSUME NEW S, NEW a \in Seq(S), NEW m \in Nat \ {0}, NEW n \in Nat, n <= Len(a), m <= n + 1
    PROVE  /\ SubSeq(a, m, n) \in Seq(S) /\ Len(SubSeq(a, m, n)) = n + 1 - m
           /\ \A k \in 1 .. n + 1 - m : SubSeq(a, m, n)[k] = a[m + k - 1]
  OBVIOUS

\* Sequences of the same length and elements are equal.
LEMMA SameSeq ==
    ASSUME NEW S, NEW a \in Seq(S), NEW b \in Seq(S), Len(a) = Len(b),
           \A k \in 1 .. Len(a) : a[k] = b[k]
    PROVE  a = b
  OBVIOUS

----------------------------------------------------------------------------
(* What a member's snapshot and log say together.                          *)

\* The history is the snapshot's entries, then the log's.
LEMMA HistoryAt ==
    ASSUME NEW r, Shape(r)
    PROVE  /\ History(r) \in Seq(Entry) /\ Len(History(r)) = last_index(r)
           /\ r.base_index \in Nat /\ last_index(r) \in Nat /\ Len(r.log) \in Nat
           /\ \A k \in 1 .. r.base_index : History(r)[k] = r.snapshot[k]
           /\ \A k \in 1 .. Len(r.log) : History(r)[r.base_index + k] = r.log[k]
           /\ \A k \in r.base_index + 1 .. last_index(r) : History(r)[k] = r.log[k - r.base_index]
<1>1. r.log \in Seq(Entry) /\ r.snapshot \in Seq(Entry) /\ r.base_index = Len(r.snapshot)
  BY DEF Shape
<1> DEFINE a == r.snapshot
           b == r.log
<1> HIDE DEF a, b
<1>2. a \in Seq(Entry) /\ b \in Seq(Entry) /\ r.base_index = Len(a) /\ Len(a) \in Nat /\ Len(b) \in Nat
  BY <1>1 DEF a, b
<1>3. last_index(r) = Len(a) + Len(b) /\ History(r) = a \o b
  BY <1>2 DEF a, b, last_index, History
<1>4. /\ a \o b \in Seq(Entry) /\ Len(a \o b) = Len(a) + Len(b)
      /\ \A k \in 1 .. Len(a) : (a \o b)[k] = a[k]
      /\ \A k \in 1 .. Len(b) : (a \o b)[Len(a) + k] = b[k]
  BY <1>2, ConcatAt
<1> DEFINE h == a \o b
<1> HIDE DEF h
<1>5. \A k \in Len(a) + 1 .. Len(a) + Len(b) : h[k] = b[k - Len(a)]
  <2> SUFFICES ASSUME NEW k \in Len(a) + 1 .. Len(a) + Len(b) PROVE h[k] = b[k - Len(a)]
    OBVIOUS
  <2>1. k - Len(a) \in 1 .. Len(b) /\ Len(a) + (k - Len(a)) = k
    BY <1>2
  <2> QED
    BY <1>4, <2>1 DEF h
<1>6. History(r) = h /\ r.snapshot = a /\ r.log = b
  BY <1>3 DEF a, b, h
<1>7. /\ h \in Seq(Entry) /\ Len(h) = Len(a) + Len(b)
      /\ \A k \in 1 .. Len(a) : h[k] = a[k]
      /\ \A k \in 1 .. Len(b) : h[Len(a) + k] = b[k]
  BY <1>4 DEF h
<1> QED
  BY <1>2, <1>3, <1>5, <1>6, <1>7

\* term_at reads the history from the snapshot's boundary on, and is 0 elsewhere.
LEMMA TermAt ==
    ASSUME NEW r, Shape(r), NEW n \in Nat
    PROVE  term_at(r, n) = IF r.base_index <= n /\ 0 < n /\ n <= last_index(r)
                           THEN History(r)[n].term ELSE 0
<1> DEFINE h == History(r)
<1>1. /\ r.base_index \in Nat /\ last_index(r) \in Nat /\ Len(h) = last_index(r)
      /\ \A k \in 1 .. r.base_index : h[k] = r.snapshot[k]
      /\ \A k \in r.base_index + 1 .. last_index(r) : h[k] = r.log[k - r.base_index]
  BY HistoryAt
<1>2. r.base_index <= last_index(r)
  BY <1>1 DEF Shape
<1>3. r.base_term = IF r.base_index = 0 THEN 0 ELSE r.snapshot[r.base_index].term
  BY DEF Shape
<1> HIDE DEF h
<1>4. CASE n = r.base_index
  BY <1>1, <1>2, <1>3, <1>4 DEF term_at, h
<1>5. CASE n # r.base_index
  BY <1>1, <1>2, <1>5 DEF term_at, in_log, h
<1> QED
  BY <1>4, <1>5

\* last_term is the term of the last entry of the history.
LEMMA LastTerm ==
    ASSUME NEW r, Shape(r)
    PROVE  last_term(r) = IF last_index(r) = 0 THEN 0 ELSE History(r)[last_index(r)].term
<1> DEFINE h == History(r)
<1>1. /\ r.base_index \in Nat /\ last_index(r) \in Nat /\ Len(r.log) \in Nat
      /\ \A k \in 1 .. r.base_index : h[k] = r.snapshot[k]
      /\ \A k \in 1 .. Len(r.log) : h[r.base_index + k] = r.log[k]
  BY HistoryAt
<1>2. r.base_term = IF r.base_index = 0 THEN 0 ELSE r.snapshot[r.base_index].term
  BY DEF Shape
<1>3. last_index(r) = r.base_index + Len(r.log)
  BY DEF last_index
<1>4. r.log = <<>> <=> Len(r.log) = 0
  BY DEF Shape
<1> HIDE DEF h
<1>5. CASE Len(r.log) = 0
  BY <1>1, <1>2, <1>3, <1>4, <1>5 DEF last_term, h
<1>6. CASE Len(r.log) # 0
  BY SMTT(30), <1>1, <1>3, <1>4, <1>6 DEF last_term, h
<1> QED
  BY <1>5, <1>6

\* s has r's log, however much of it is folded into the snapshot.
Refolded(r, s) ==
    /\ Struct(s) /\ Shape(s) /\ History(s) = History(r)
    /\ s.current_term = r.current_term /\ s.role = r.role /\ s.voted_for = r.voted_for
    /\ s.commit_index = r.commit_index /\ s.match_index = r.match_index

\* Compaction folds committed entries into the snapshot and loses none.
LEMMA CompactRefolds ==
    ASSUME NEW r, Struct(r), Shape(r)
    PROVE  Refolded(r, maybe_compact(r))
<1> DEFINE n == r.commit_index
           h == History(r)
           s == [r EXCEPT !.log = SubSeq(r.log, n - r.base_index + 1, Len(r.log)),
                          !.base_index = n,
                          !.base_term = term_at(r, n),
                          !.snapshot = SubSeq(h, 1, n)]
<1>1. CASE maybe_compact(r) = r
  BY <1>1 DEF Refolded
<1>2. CASE maybe_compact(r) # r
  <2>1. maybe_compact(r) = s /\ ~(n <= r.base_index)
    BY <1>2 DEF maybe_compact, compact
  <2>2. /\ s.log = SubSeq(r.log, n - r.base_index + 1, Len(r.log)) /\ s.base_index = n
        /\ s.base_term = term_at(r, n) /\ s.snapshot = SubSeq(h, 1, n)
        /\ s.commit_index = n /\ s.role = r.role /\ s.leader_id = r.leader_id
        /\ s.acked_since_check = r.acked_since_check /\ s.next_index = r.next_index
        /\ s.match_index = r.match_index /\ s.snapshot_inflight = r.snapshot_inflight
        /\ s.current_term = r.current_term /\ s.voted_for = r.voted_for
    BY DEF Struct, Fields
  <2>3. Struct(s)
    BY <2>1, CompactSame DEF Same
  <2> HIDE DEF s
  <2>4. /\ h \in Seq(Entry) /\ Len(h) = last_index(r) /\ n \in Nat /\ n <= last_index(r)
        /\ r.base_index \in Nat /\ r.base_index < n /\ Len(r.log) \in Nat /\ r.log \in Seq(Entry)
        /\ last_index(r) = r.base_index + Len(r.log)
        /\ \A k \in 1 .. Len(r.log) : h[r.base_index + k] = r.log[k]
    <3>1. /\ h \in Seq(Entry) /\ Len(h) = last_index(r) /\ r.base_index \in Nat /\ Len(r.log) \in Nat
          /\ \A k \in 1 .. Len(r.log) : h[r.base_index + k] = r.log[k]
      BY HistoryAt
    <3>2. n \in Nat /\ n <= last_index(r) /\ r.log \in Seq(Entry)
      BY DEF Shape
    <3>3. r.base_index < n
      BY <2>1, <3>1, <3>2
    <3>4. last_index(r) = r.base_index + Len(r.log)
      BY DEF last_index
    <3> QED
      BY <3>1, <3>2, <3>3, <3>4
  <2>5. term_at(r, n) = h[n].term
    <3> HIDE DEF n
    <3>1. r.base_index <= n /\ 0 < n
      BY <2>4
    <3> QED
      BY <2>4, <3>1, TermAt
  <2> HIDE DEF h, n
  <2> DEFINE d == n - r.base_index
  <2>6. d \in Nat \ {0} /\ d <= Len(r.log) /\ r.base_index + d = n
    BY <2>4
  <2> HIDE DEF d
  <2>7. /\ s.snapshot \in Seq(Entry) /\ Len(s.snapshot) = n
        /\ \A k \in 1 .. n : s.snapshot[k] = h[k]
    BY <2>2, <2>4, SubSeqAt
  <2>8. s.log = SubSeq(r.log, d + 1, Len(r.log))
    BY <2>2 DEF d
  <2>9. /\ s.log \in Seq(Entry) /\ Len(s.log) = Len(r.log) - d
        /\ \A k \in 1 .. Len(r.log) - d : s.log[k] = r.log[d + k]
    <3>1. /\ SubSeq(r.log, d + 1, Len(r.log)) \in Seq(Entry)
          /\ Len(SubSeq(r.log, d + 1, Len(r.log))) = Len(r.log) + 1 - (d + 1)
          /\ \A k \in 1 .. Len(r.log) + 1 - (d + 1) : SubSeq(r.log, d + 1, Len(r.log))[k] = r.log[(d + 1) + k - 1]
      <4>1. d + 1 \in Nat \ {0} /\ d + 1 <= Len(r.log) + 1
        BY <2>4, <2>6
      <4>2. Len(r.log) <= Len(r.log)
        BY <2>4
      <4> HIDE DEF d
      <4> DEFINE d1 == d + 1
                 a == r.log
                 z == Len(r.log)
      <4>3. d1 \in Nat \ {0} /\ z \in Nat /\ z <= Len(a) /\ d1 <= z + 1 /\ a \in Seq(Entry)
        BY <2>4, <4>1, <4>2
      <4> HIDE DEF d1, a, z
      <4>4. /\ SubSeq(a, d1, z) \in Seq(Entry) /\ Len(SubSeq(a, d1, z)) = z + 1 - d1
            /\ \A k \in 1 .. z + 1 - d1 : SubSeq(a, d1, z)[k] = a[d1 + k - 1]
        BY <4>3, SubSeqAt
      <4> QED
        BY <4>4 DEF d1, a, z
    <3> QED
      BY <2>4, <2>6, <2>8, <3>1
  <2>10. /\ n \in Nat \ {0} /\ r.base_index \in Nat /\ Len(r.log) \in Nat /\ Len(h) \in Nat
         /\ r.base_index < n /\ n <= Len(h) /\ Len(h) = r.base_index + Len(r.log)
         /\ d \in Nat \ {0} /\ d <= Len(r.log) /\ r.base_index + d = n
         /\ Len(s.log) = Len(r.log) - d
    BY <2>4, <2>6, <2>9
  <2>11. last_index(s) = last_index(r)
    <3>1. n + (Len(r.log) - d) = r.base_index + Len(r.log)
      BY SMTT(30), <2>10
    <3> QED
      BY <2>2, <2>9, <3>1 DEF last_index
  <2>12. Shape(s)
    <3>1. s.base_term = IF s.base_index = 0 THEN 0 ELSE s.snapshot[s.base_index].term
      <4>1. n # 0 /\ n \in 1 .. n
        BY <2>10
      <4> QED
        BY <2>2, <2>5, <2>7, <4>1
    <3>2. s.commit_index \in Nat /\ s.base_index <= s.commit_index /\ s.commit_index <= last_index(s)
      BY <2>2, <2>4, <2>11
    <3>3. s.role = "Leader" => \A p \in Member : /\ s.next_index[p] <= last_index(s) + 1
                                                 /\ s.match_index[p] <= last_index(s)
                                                 /\ s.snapshot_inflight[p] <= s.base_index
      <4> SUFFICES ASSUME s.role = "Leader", NEW p \in Member
                   PROVE  /\ s.next_index[p] <= last_index(s) + 1
                          /\ s.match_index[p] <= last_index(s)
                          /\ s.snapshot_inflight[p] <= s.base_index
        OBVIOUS
      <4>1. /\ r.next_index[p] <= last_index(r) + 1 /\ r.match_index[p] <= last_index(r)
            /\ r.snapshot_inflight[p] <= r.base_index /\ r.snapshot_inflight[p] \in Nat
        BY <2>2 DEF Shape
      <4> QED
        BY <2>2, <2>10, <2>11, <4>1
    <3>4. /\ s.leader_id \in Member \cup {None} /\ s.acked_since_check \subseteq Member
          /\ s.next_index \in [Member -> Nat \ {0}] /\ s.match_index \in [Member -> Nat]
          /\ s.snapshot_inflight \in [Member -> Nat]
      BY <2>2 DEF Shape
    <3>5. s.log \in Seq(Entry) /\ s.snapshot \in Seq(Entry) /\ s.base_index = Len(s.snapshot)
      BY <2>2, <2>7, <2>9
    <3> QED
      BY <3>1, <3>2, <3>3, <3>4, <3>5 DEF Shape
  <2>13. /\ History(s) \in Seq(Entry) /\ Len(History(s)) = Len(h)
         /\ \A k \in 1 .. n : History(s)[k] = h[k]
         /\ \A k \in 1 .. Len(s.log) : History(s)[n + k] = s.log[k]
    <3>1. /\ History(s) \in Seq(Entry) /\ Len(History(s)) = last_index(s)
          /\ \A k \in 1 .. s.base_index : History(s)[k] = s.snapshot[k]
          /\ \A k \in 1 .. Len(s.log) : History(s)[s.base_index + k] = s.log[k]
      BY <2>12, HistoryAt
    <3>2. s.base_index = n /\ last_index(s) = Len(h)
      BY <2>2, <2>4, <2>11
    <3> QED
      BY <2>7, <3>1, <3>2
  <2>14. ASSUME NEW k \in 1 .. Len(h) PROVE History(s)[k] = h[k]
    <3>1. CASE k <= n
      BY <2>13, <3>1
    <3>2. CASE k > n
      <4> DEFINE x == k - n
      <4>1. x \in 1 .. Len(s.log) /\ k = n + x /\ d + x \in 1 .. Len(r.log) /\ r.base_index + (d + x) = k
        BY SMTT(30), <2>10, <3>2
      <4> HIDE DEF x
      <4>2. History(s)[n + x] = s.log[x]
        BY <2>13, <4>1
      <4>3. s.log[x] = r.log[d + x]
        BY <2>9, <4>1
      <4>4. h[r.base_index + (d + x)] = r.log[d + x]
        BY <2>4, <4>1
      <4> QED
        BY <4>1, <4>2, <4>3, <4>4
    <3> QED
      BY <2>4, <3>1, <3>2
  <2>15. History(s) = h
    BY <2>4, <2>13, <2>14, SameSeq
  <2> QED
    BY <2>1, <2>2, <2>3, <2>12, <2>15 DEF Refolded, h, n
<1> QED
  BY <1>1, <1>2

----------------------------------------------------------------------------
(* What a handler owes the log.                                            *)

\* K is H and one more entry, of term t.
Appended(H, K, t) ==
    \E e \in Entry : e.term = t /\ e.index = Len(H) + 1 /\ K = Append(H, e)

\* The history stays, grows by a leader's own entry, or becomes a prefix of the
\* current leader's that keeps whatever already agreed with it.
Evolves(r, s) ==
    \/ /\ History(s) = History(r)
       /\ s.role = "Leader" => r.role = "Leader" /\ s.current_term = r.current_term
       /\ s.role = "Candidate" =>
             s.current_term > r.current_term \/ (r.role = "Candidate" /\ s.current_term = r.current_term)
    \/ /\ s.role = "Leader" /\ Appended(History(r), History(s), s.current_term)
       /\ s.current_term > r.current_term
             \/ (r.role \in {"Candidate", "Leader"} /\ s.current_term = r.current_term)
    \/ /\ s.role = "Follower" /\ s.current_term \in DOMAIN ledger
       /\ History(s) \in Seq(Entry)
       /\ Agree(History(s), ledger[s.current_term], Len(History(s)))
       /\ \A n \in Nat : Agree(History(r), ledger[s.current_term], n)
                            => Agree(History(s), ledger[s.current_term], n)

\* The commit index stays, follows the leader's, or is counted by the leader.
Commits(i, r, s) ==
    /\ s.commit_index >= r.commit_index
    /\ Agree(History(s), History(r), r.commit_index)
    /\ \/ s.commit_index = r.commit_index
       \/ /\ s.current_term \in DOMAIN ledger
          /\ Backed(ledger[s.current_term], s.current_term, s.commit_index)
          /\ Agree(History(s), ledger[s.current_term], s.commit_index)
       \/ /\ s.role = "Leader" /\ s.commit_index > 0
          /\ History(s)[s.commit_index].term = s.current_term
          /\ \E Q \in SUBSET Member :
                Majority(Q) /\ \A j \in Q : j = i \/ Acked(s.current_term, j, s.commit_index)

Counts(i, s) ==
    s.role = "Leader" =>
        \A p \in peers(i) : s.match_index[p] = 0 \/ Acked(s.current_term, p, s.match_index[p])

\* A vote is an old one, the candidate's own, or for a candidate with as much log.
Ballot(i, r, s) ==
    s.voted_for # None =>
        \/ <<s.current_term, i, s.voted_for>> \in voted
        \/ s.voted_for = i
        \/ \E m \in msgs : /\ m.type = "RequestVote" /\ ~m.pre_vote
                           /\ m.from = s.voted_for /\ m.term = s.current_term
                           /\ log_ok(r, m)

\* s may acknowledge the first n entries of the leader of t.
Confirms(s, t, n) ==
    /\ s.role = "Follower" /\ t = s.current_term /\ t \in DOMAIN ledger
    /\ n \in Nat /\ Agree(History(s), ledger[t], n)

Sends(s, m) ==
    /\ m.type = "AppendEntries" => /\ s.role = "Leader" /\ m.term = s.current_term
                                   /\ AppendOK(m, History(s)) /\ m.leader_commit <= s.commit_index
    /\ m.type = "InstallSnapshot" => /\ s.role = "Leader" /\ m.term = s.current_term
                                     /\ SnapshotOK(m, History(s)) /\ m.last_included_index <= s.commit_index
    /\ m.type = "AppendEntriesResp" =>
          m.match_index \in Nat /\ (m.success => Confirms(s, m.term, m.match_index))
    /\ m.type = "InstallSnapshotResp" =>
          m.last_included_index \in Nat /\ (m.success => Confirms(s, m.term, m.last_included_index))
    /\ m.type = "RequestVote" /\ ~m.pre_vote =>
          /\ m.term = s.current_term
          /\ s.role = "Candidate" => m.last_log_index = last_index(s) /\ m.last_log_term = last_term(s)

LogGood(i, r, res) ==
    /\ Shape(res.st)
    /\ Evolves(r, res.st)
    /\ Commits(i, r, res.st)
    /\ Counts(i, res.st)
    /\ Ballot(i, r, res.st)
    /\ \A m \in res.out : Sends(res.st, m)

\* What the drain of such a result does to the histories: s is the struct before
\* compaction.
Moved(i, s) ==
    /\ Refolded(s, raft'[i])
    /\ \A j \in Member : j # i => raft'[j] = raft[j]
    /\ raft[i].current_term \in Nat /\ s.current_term \in Nat /\ raft[i].current_term <= s.current_term
    /\ \A x \in acked : x \in acked'
    /\ \A x \in acked' : x \in acked \/ \E k \in Nat : x = <<s.current_term, i, k>> /\ Confirms(s, s.current_term, k)
    /\ \A x \in elected : x \in elected'
    /\ \A x \in elected' : x \in elected \/ (s.role = "Leader" /\ x = <<s.current_term, i>>)
    /\ s.role = "Leader" => /\ <<s.current_term, i>> \in elected'
                            /\ s.current_term \in DOMAIN ledger' /\ ledger'[s.current_term] = History(s)
    /\ \A t \in DOMAIN ledger :
          /\ t \in DOMAIN ledger'
          /\ \/ ledger'[t] = ledger[t]
             \/ /\ s.role = "Leader" /\ t = s.current_term /\ <<t, i>> \in elected
                /\ Appended(ledger[t], ledger'[t], t)
    /\ \A t \in DOMAIN ledger' :
          \/ t \in DOMAIN ledger
          \/ /\ s.role = "Leader" /\ t = s.current_term
             /\ Appended(History(raft[i]), ledger'[t], t)
             /\ s.current_term = raft[i].current_term => raft[i].role = "Candidate"

----------------------------------------------------------------------------
(* The drain.                                                              *)

\* The terms of the ledger are the terms with a leader; each has one.
LEMMA LedgerOwner ==
    ASSUME ElectionInv', NEW t, NEW i, NEW l, <<t, i>> \in elected', <<t, l>> \in elected'
    PROVE  l = i
<1>1. ElectionInv' => ElectionSafety'
  BY OneLeader, PTL
<1>2. \A a, b \in elected' : a[1] = b[1] => a[2] = b[2]
  BY <1>1 DEF ElectionSafety
<1> QED
  BY <1>2

\* A drain changes the histories as Moved says.
LEMMA PerformMoves ==
    ASSUME ElectionInv, ElectionInv', LogInv, NEW i \in Member, NEW received, NEW res,
           Good(i, raft[i], res), LogGood(i, raft[i], res), Perform(i, received, res)
    PROVE  Moved(i, res.st)
<1> DEFINE s == res.st
           r == raft[i]
           v == s.current_term
<1>1. /\ raft' = [raft EXCEPT ![i] = maybe_compact(s)]
      /\ elected' = IF s.role = "Leader" THEN elected \cup {<<v, i>>} ELSE elected
      /\ ledger' = IF s.role = "Leader"
                   THEN [t \in DOMAIN ledger \cup {v} |-> IF t = v THEN History(s) ELSE ledger[t]]
                   ELSE ledger
      /\ acked' = acked \cup Acks(i, res.out)
  BY DEF Perform
<1>2. Struct(s) /\ Shape(s) /\ raft = [j \in Member |-> raft[j]]
  BY DEF Good, LogGood, ElectionInv
<1>3. Refolded(s, raft'[i]) /\ \A j \in Member : j # i => raft'[j] = raft[j]
  BY <1>1, <1>2, CompactRefolds
<1>4. r.current_term \in Nat /\ v \in Nat /\ r.current_term <= v
  BY DEF Good, Struct, ElectionInv, MemberInv
<1>5. ASSUME NEW x \in acked' PROVE x \in acked \/ \E k \in Nat : x = <<v, i, k>> /\ Confirms(s, v, k)
  <2>1. CASE x \in Acks(i, res.out)
    <3>1. CASE \E m \in res.out : m.type = "AppendEntriesResp" /\ m.success /\ x = <<m.term, i, m.match_index>>
      <4>1. PICK m \in res.out : m.type = "AppendEntriesResp" /\ m.success /\ x = <<m.term, i, m.match_index>>
        BY <3>1
      <4>2. Sends(s, m)
        BY DEF LogGood
      <4>3. Confirms(s, m.term, m.match_index) /\ m.match_index \in Nat
        BY <4>1, <4>2 DEF Sends
      <4>4. m.term = v
        BY <4>3 DEF Confirms
      <4> QED
        BY <4>1, <4>3, <4>4
    <3>2. CASE \E m \in res.out : m.type = "InstallSnapshotResp" /\ m.success /\ x = <<m.term, i, m.last_included_index>>
      <4>1. PICK m \in res.out : m.type = "InstallSnapshotResp" /\ m.success /\ x = <<m.term, i, m.last_included_index>>
        BY <3>2
      <4>2. Sends(s, m)
        BY DEF LogGood
      <4>3. Confirms(s, m.term, m.last_included_index) /\ m.last_included_index \in Nat
        BY <4>1, <4>2 DEF Sends
      <4>4. m.term = v
        BY <4>3 DEF Confirms
      <4> QED
        BY <4>1, <4>3, <4>4
    <3> QED
      BY <2>1, <3>1, <3>2 DEF Acks
  <2> QED
    BY <1>1, <1>5, <2>1
<1>6. /\ \A x \in acked : x \in acked'
      /\ \A x \in elected : x \in elected'
      /\ \A x \in elected' : x \in elected \/ (s.role = "Leader" /\ x = <<v, i>>)
      /\ s.role = "Leader" => <<v, i>> \in elected' /\ v \in DOMAIN ledger' /\ ledger'[v] = History(s)
      /\ \A t \in DOMAIN ledger : t \in DOMAIN ledger' /\ (t # v \/ s.role # "Leader" => ledger'[t] = ledger[t])
      /\ \A t \in DOMAIN ledger' : t \in DOMAIN ledger \/ (s.role = "Leader" /\ t = v)
  BY <1>1
<1>7. MemberLog(i) /\ LedgerInv /\ Evolves(r, s)
  BY DEF LogInv, LogGood
<1>8. ASSUME s.role = "Leader", v \in DOMAIN ledger
      PROVE  <<v, i>> \in elected /\ r.role = "Leader" /\ v = r.current_term
  <2>1. PICK l \in Member : <<v, l>> \in elected
    BY <1>4, <1>7, <1>8 DEF LedgerInv
  <2>2. l = i
    BY <1>6, <1>8, <2>1, LedgerOwner
  <2>3. v = r.current_term
    BY <1>4, <1>7, <2>1, <2>2 DEF LedgerInv
  <2>4. r.role # "Candidate"
    BY <1>7, <2>1, <2>2, <2>3 DEF MemberLog
  <2> HIDE DEF s, r, v
  <2>5. r.role = "Leader"
    BY <1>4, <1>7, <1>8, <2>3, <2>4 DEF Evolves, v
  <2> QED
    BY <2>1, <2>2, <2>3, <2>5
<1>9. ASSUME NEW t \in DOMAIN ledger
      PROVE  \/ ledger'[t] = ledger[t]
             \/ /\ s.role = "Leader" /\ t = v /\ <<t, i>> \in elected
                /\ Appended(ledger[t], ledger'[t], t)
  <2>1. CASE t # v \/ s.role # "Leader"
    BY <1>6, <2>1
  <2>2. CASE t = v /\ s.role = "Leader"
    <3>1. <<v, i>> \in elected /\ r.role = "Leader" /\ v = r.current_term
      BY <1>8, <2>2
    <3>2. ledger[v] = History(r)
      BY <1>7, <3>1 DEF MemberLog
    <3> HIDE DEF s, r, v
    <3>3. History(s) = History(r) \/ Appended(History(r), History(s), v)
      BY <1>7, <2>2 DEF Evolves, v
    <3> QED
      BY <1>6, <2>2, <3>1, <3>2, <3>3
  <2> QED
    BY <2>1, <2>2
<1>10. ASSUME NEW t \in DOMAIN ledger', t \notin DOMAIN ledger
       PROVE  /\ s.role = "Leader" /\ t = v
              /\ Appended(History(r), ledger'[t], t)
              /\ v = r.current_term => r.role = "Candidate"
  <2>1. s.role = "Leader" /\ t = v /\ ledger'[v] = History(s)
    BY <1>6, <1>10
  <2>2. ~(r.role = "Leader" /\ v = r.current_term)
    <3>1. <<v, i>> \notin elected
      BY <1>4, <1>7, <1>10, <2>1 DEF LedgerInv
    <3> QED
      BY <1>7, <3>1 DEF MemberLog
  <2>3. Appended(History(r), History(s), v) /\ (v > r.current_term \/ r.role \in {"Candidate", "Leader"})
    <3> HIDE DEF r, s
    <3> QED
      BY <1>7, <2>1, <2>2 DEF Evolves
  <2> QED
    BY <1>4, <2>1, <2>2, <2>3
<1> HIDE DEF s, r, v
<1>11. Moved(i, s)
  BY <1>3, <1>4, <1>5, <1>6, <1>9, <1>10 DEF Moved, v, r
<1> QED
  BY <1>11 DEF s

----------------------------------------------------------------------------
(* What survives a drain.                                                  *)

\* A history keeps agreeing with a ledger that grows.
LEMMA AgreeGrows ==
    ASSUME LedgerInv, NEW i, NEW s, Moved(i, s), NEW u \in DOMAIN ledger, NEW a, NEW n \in Nat
    PROVE  /\ u \in DOMAIN ledger' /\ Len(ledger[u]) \in Nat /\ Len(ledger'[u]) \in Nat
           /\ Len(ledger[u]) <= Len(ledger'[u])
           /\ \A k \in 1 .. Len(ledger[u]) : ledger'[u][k] = ledger[u][k]
           /\ \A k \in 1 .. Len(ledger'[u]) : k > Len(ledger[u]) => ledger'[u][k].term = u
           /\ Agree(a, ledger[u], n) => Agree(a, ledger'[u], n)
           /\ Agree(ledger[u], a, n) => Agree(ledger'[u], a, n)
<1> DEFINE L == ledger[u]
           K == ledger'[u]
<1>1. L \in Seq(Entry)
  BY DEF LedgerInv
<1>2. u \in DOMAIN ledger' /\ (K = L \/ \E e \in Entry : e.term = u /\ K = Append(L, e))
  BY DEF Moved, Appended
<1> HIDE DEF L, K
<1>3. /\ Len(L) \in Nat /\ Len(K) \in Nat /\ Len(L) <= Len(K)
      /\ \A k \in 1 .. Len(L) : K[k] = L[k]
      /\ \A k \in 1 .. Len(K) : k > Len(L) => K[k].term = u
  <2>1. CASE K = L
    BY <1>1, <2>1
  <2>2. ASSUME NEW e \in Entry, e.term = u, K = Append(L, e)
        PROVE  /\ Len(L) \in Nat /\ Len(K) \in Nat /\ Len(L) <= Len(K)
               /\ \A k \in 1 .. Len(L) : K[k] = L[k]
               /\ \A k \in 1 .. Len(K) : k > Len(L) => K[k].term = u
    BY <1>1, <2>2
  <2> QED
    BY <1>2, <2>1, <2>2
<1>4. (Agree(a, L, n) => Agree(a, K, n)) /\ (Agree(L, a, n) => Agree(K, a, n))
  BY <1>3 DEF Agree
<1> QED
  BY <1>2, <1>3, <1>4 DEF L, K

\* Two ledgers that agree once have grown agreed before: a leader appends only
\* entries of its own term.
LEMMA AgreeBack ==
    ASSUME LedgerInv, ElectionInv', NEW i \in Member, NEW s, Moved(i, s),
           NEW u \in DOMAIN ledger, NEW w \in DOMAIN ledger, u < w, NEW n \in Nat,
           Agree(ledger'[w], ledger'[u], n)
    PROVE  Agree(ledger[w], ledger[u], n)
<1>1. /\ u \in Nat /\ w \in Nat
      /\ \A k \in 1 .. Len(ledger[u]) : ledger[u][k].term <= u
      /\ Sound(ledger[w], ledger)
  BY DEF LedgerInv
<1>2. /\ Len(ledger[u]) \in Nat /\ Len(ledger[w]) \in Nat
      /\ \A k \in 1 .. Len(ledger[u]) : ledger'[u][k] = ledger[u][k]
      /\ \A k \in 1 .. Len(ledger[w]) : ledger'[w][k] = ledger[w][k]
      /\ \A k \in 1 .. Len(ledger'[w]) : k > Len(ledger[w]) => ledger'[w][k].term = w
      /\ \A k \in 1 .. Len(ledger'[u]) : k > Len(ledger[u]) => ledger'[u][k].term = u
  BY AgreeGrows
<1>3. ledger'[u] = ledger[u] \/ ledger'[w] = ledger[w]
  <2>1. \A t \in DOMAIN ledger : ledger'[t] = ledger[t] \/ t = s.current_term
    BY DEF Moved
  <2> QED
    BY <1>1, <2>1
<1>4. n <= Len(ledger[w])
  <2> SUFFICES ASSUME n > Len(ledger[w]) PROVE FALSE
    BY <1>2
  <2>1. n \in 1 .. Len(ledger'[w]) /\ n \in 1 .. Len(ledger'[u]) /\ ledger'[w][n] = ledger'[u][n]
    BY <1>2 DEF Agree
  <2>2. ledger'[u][n].term = w
    BY <1>2, <2>1
  <2>3. n <= Len(ledger[u])
    BY <1>1, <1>2, <2>1, <2>2
  <2> QED
    BY <1>1, <1>2, <2>1, <2>2, <2>3
<1>5. n <= Len(ledger[u])
  <2> SUFFICES ASSUME n > Len(ledger[u]) PROVE FALSE
    BY <1>2
  <2>1. n \in 1 .. Len(ledger'[u]) /\ n \in 1 .. Len(ledger[w]) /\ ledger[w][n] = ledger'[u][n]
    BY <1>2, <1>4 DEF Agree
  <2>2. ledger[w][n].term = u
    BY <1>2, <2>1
  <2>3. Agree(ledger[w], ledger[u], n)
    BY <1>1, <2>1, <2>2 DEF Sound
  <2> QED
    BY <1>2, <2>3 DEF Agree
<1> QED
  BY <1>2, <1>4, <1>5 DEF Agree

\* Soundness survives.
LEMMA SoundKept ==
    ASSUME LedgerInv, NEW i, NEW s, Moved(i, s), NEW H, Sound(H, ledger), Len(H) \in Nat
    PROVE  Sound(H, ledger')
<1> SUFFICES ASSUME NEW k \in 1 .. Len(H)
             PROVE  H[k].term \in DOMAIN ledger' /\ Agree(H, ledger'[H[k].term], k)
  BY DEF Sound
<1>1. H[k].term \in DOMAIN ledger /\ Agree(H, ledger[H[k].term], k) /\ k \in Nat
  BY DEF Sound
<1> QED
  BY <1>1, AgreeGrows

\* What was overwritten stays overwritten.
LEMMA OverwrittenKept ==
    ASSUME LedgerInv, ElectionInv', NEW i \in Member, NEW s, Moved(i, s),
           NEW u \in DOMAIN ledger, NEW n \in Nat, NEW t \in Nat, NEW z \in Nat, t <= z, Overwritten(ledger, u, n, t)
    PROVE  Overwritten(ledger', u, n, z)
<1>1. PICK w \in DOMAIN ledger : u < w /\ w <= t /\ ~Agree(ledger[w], ledger[u], n)
  BY DEF Overwritten
<1>2. w \in DOMAIN ledger' /\ ~Agree(ledger'[w], ledger'[u], n)
  BY <1>1, AgreeBack, AgreeGrows
<1>3. w <= z
  BY <1>1 DEF LedgerInv
<1> QED
  BY <1>1, <1>2, <1>3 DEF Overwritten

\* What was held stays held.
LEMMA HeldGrows ==
    ASSUME LedgerInv, NEW i, NEW s, Moved(i, s), NEW u \in DOMAIN ledger, NEW j, NEW n \in Nat
    PROVE  (Acked(u, j, n) => Acked(u, j, n)') /\ (Held(u, j, n) => Held(u, j, n)')
<1>1. Len(ledger[u]) \in Nat /\ Len(ledger'[u]) \in Nat /\ Len(ledger[u]) <= Len(ledger'[u])
  BY AgreeGrows
<1>2. Acked(u, j, n) => Acked(u, j, n)'
  BY DEF Moved, Acked
<1>3. <<u, j>> \in elected => <<u, j>> \in elected'
  BY DEF Moved
<1> QED
  BY <1>1, <1>2, <1>3 DEF Held

\* Only the member that moved holds more, and only of the leader of its new term.
LEMMA HeldBack ==
    ASSUME LedgerInv, AckInv, ElectionInv, ElectionInv', NEW i \in Member, NEW s, Moved(i, s),
           NEW u \in Nat, NEW j \in Member, NEW n \in Nat, Held(u, j, n)', u \in DOMAIN ledger'
    PROVE  \/ u \in DOMAIN ledger /\ Held(u, j, n)
           \/ /\ j = i /\ u = s.current_term
              /\ s.role = "Leader" => n <= Len(ledger'[u])
              /\ s.role # "Leader" => u \in DOMAIN ledger /\ \E k \in Nat : k >= n /\ Confirms(s, u, k)
<1>1. CASE Acked(u, j, n)'
  <2>1. PICK k \in Nat : k >= n /\ <<u, j, k>> \in acked'
    BY <1>1 DEF Acked
  <2>2. CASE <<u, j, k>> \in acked
    <3>1. u \in DOMAIN ledger
      BY <2>2 DEF AckInv
    <3> QED
      BY <2>1, <2>2, <3>1 DEF Held, Acked
  <2>3. ASSUME NEW x \in Nat, <<u, j, k>> = <<s.current_term, i, x>>, Confirms(s, s.current_term, x)
        PROVE  j = i /\ u = s.current_term /\ s.role # "Leader" /\ u \in DOMAIN ledger /\ Confirms(s, u, k)
    <3>1. u = s.current_term /\ j = i /\ k = x
      BY <2>3
    <3> QED
      BY <2>3, <3>1 DEF Confirms
  <2> QED
    BY <2>1, <2>2, <2>3 DEF Moved
<1>2. CASE <<u, j>> \in elected' /\ n <= Len(ledger'[u])
  <2>1. CASE s.role = "Leader" /\ <<u, j>> = <<s.current_term, i>>
    BY <1>2, <2>1
  <2>2. CASE <<u, j>> \in elected /\ ~(s.role = "Leader" /\ <<u, j>> = <<s.current_term, i>>)
    <3>1. u \in DOMAIN ledger
      BY <2>2 DEF LedgerInv
    <3>2. ledger'[u] = ledger[u]
      <4> SUFFICES ASSUME ledger'[u] # ledger[u] PROVE FALSE
        OBVIOUS
      <4>1. s.role = "Leader" /\ u = s.current_term /\ <<u, i>> \in elected
        BY <3>1 DEF Moved
      <4>2. <<u, i>> \in elected' /\ <<u, j>> \in elected'
        BY <1>2, <4>1 DEF Moved
      <4>3. j = i
        BY <4>2, LedgerOwner
      <4> QED
        BY <2>2, <4>1, <4>3
    <3> QED
      BY <1>2, <2>2, <3>1, <3>2 DEF Held
  <2> QED
    BY <1>2, <2>1, <2>2 DEF Moved
<1> QED
  BY <1>1, <1>2 DEF Held

\* A leader's own entries stay its own, and so do those still to come.
LEMMA OwnBack ==
    ASSUME LedgerInv, NEW i, NEW s, Moved(i, s), NEW u \in DOMAIN ledger, NEW n \in Nat \ {0}, Own(u, n)'
    PROVE  Own(u, n)
<1>1. /\ Len(ledger[u]) \in Nat /\ Len(ledger'[u]) \in Nat /\ Len(ledger[u]) <= Len(ledger'[u])
      /\ \A k \in 1 .. Len(ledger[u]) : ledger'[u][k] = ledger[u][k]
  BY AgreeGrows
<1> QED
  BY <1>1 DEF Own

\* An index that never will be counted is not counted later either.
LEMMA BlockedKept ==
    ASSUME LedgerInv, AckInv, ElectionInv, ElectionInv', NEW i \in Member, NEW s, Moved(i, s),
           NEW u \in DOMAIN ledger, NEW n \in Nat, Blocked(u, n)
    PROVE  Blocked(u, n)'
<1>1. PICK Q \in SUBSET Member : Majority(Q) /\ \A j \in Q : raft[j].current_term > u /\ ~Held(u, j, n)
  BY DEF Blocked
<1>2. u \in Nat /\ u \in DOMAIN ledger'
  BY DEF LedgerInv, Moved
<1>3. ASSUME NEW j \in Q PROVE raft'[j].current_term > u /\ ~Held(u, j, n)'
  <2>1. j \in Member /\ raft[j].current_term > u /\ ~Held(u, j, n)
    BY <1>1
  <2>2. raft'[j].current_term > u
    <3>1. CASE j = i
      <4>1. raft'[i].current_term = s.current_term /\ s.current_term >= raft[i].current_term
            /\ s.current_term \in Nat /\ raft[i].current_term \in Nat
        BY DEF Moved, Refolded
      <4> QED
        BY <1>2, <2>1, <3>1, <4>1
    <3>2. CASE j # i
      BY <2>1, <3>2 DEF Moved
    <3> QED
      BY <3>1, <3>2
  <2>3. ASSUME Held(u, j, n)' PROVE FALSE
    <3>1. j = i /\ u = s.current_term
      BY <1>2, <2>1, <2>3, HeldBack
    <3>2. s.current_term >= raft[i].current_term /\ s.current_term \in Nat /\ raft[i].current_term \in Nat
      BY DEF Moved
    <3> QED
      BY <2>1, <3>1, <3>2
  <2> QED
    BY <2>2, <2>3
<1> QED
  BY <1>1, <1>3 DEF Blocked, Majority, quorum

\* What a leader could count it still can, and what was committed stays so.
LEMMA BackedKept ==
    ASSUME LedgerInv, NEW i, NEW s, Moved(i, s), NEW H, NEW n \in Nat, NEW t \in Nat,
           NEW z \in Nat, t <= z, Backed(H, t, n)
    PROVE  Backed(H, z, n)'
<1>1. CASE n = 0
  BY <1>1 DEF Backed
<1>2. CASE n # 0
  <2>1. PICK u \in DOMAIN ledger : u <= t /\ \E c \in Nat : c >= n /\ Chosen(u, c) /\ Agree(H, ledger[u], n)
    BY <1>2 DEF Backed
  <2>2. PICK c \in Nat : c >= n /\ Chosen(u, c) /\ Agree(H, ledger[u], n)
    BY <2>1
  <2>3. PICK Q \in SUBSET Member : Majority(Q) /\ \A j \in Q : Held(u, j, c)
    BY <2>2 DEF Chosen
  <2>4. /\ u \in DOMAIN ledger' /\ Len(ledger[u]) \in Nat /\ Len(ledger'[u]) \in Nat
        /\ Len(ledger[u]) <= Len(ledger'[u])
        /\ \A k \in 1 .. Len(ledger[u]) : ledger'[u][k] = ledger[u][k]
        /\ Agree(H, ledger'[u], n)
    BY <2>2, AgreeGrows
  <2>5. c \in 1 .. Len(ledger[u]) /\ ledger[u][c].term = u
    BY <2>2 DEF Chosen
  <2>6. c \in 1 .. Len(ledger'[u]) /\ ledger'[u][c].term = u
    BY <2>4, <2>5
  <2>7. \A j \in Q : Held(u, j, c)'
    BY <2>3, HeldGrows
  <2>8. Chosen(u, c)'
    BY <2>3, <2>4, <2>6, <2>7 DEF Chosen, Majority, quorum
  <2>9. u <= z
    BY <2>1 DEF LedgerInv
  <2> QED
    BY <2>2, <2>4, <2>8, <2>9 DEF Backed
<1> QED
  BY <1>1, <1>2

\* Committing fewer entries is committing them.
LEMMA BackedLess ==
    ASSUME NEW H, NEW t, NEW n \in Nat, NEW m \in Nat, m <= n, Backed(H, t, n)
    PROVE  Backed(H, t, m)
  BY DEF Backed, Agree

----------------------------------------------------------------------------
(* The drain keeps each part of the invariant.                             *)

\* The history of the member that moved is sound, and no entry is of a later term.
LEMMA MovedHistory ==
    ASSUME LogInv, NEW i \in Member, NEW s, Shape(s), Evolves(raft[i], s), Moved(i, s),
           NEW H, H = History(s)
    PROVE  /\ H \in Seq(Entry) /\ Len(H) = last_index(s) /\ Len(H) \in Nat
           /\ Sound(H, ledger') /\ \A k \in 1 .. Len(H) : H[k].term <= s.current_term /\ H[k].index = k
<1> DEFINE r == raft[i]
           G == History(r)
           v == s.current_term
<1>1. /\ MemberLog(i) /\ LedgerInv /\ Shape(r) /\ Sound(G, ledger)
      /\ \A k \in 1 .. Len(G) : G[k].term <= r.current_term
  BY DEF LogInv, MemberLog
<1>2. H \in Seq(Entry) /\ Len(H) = last_index(s) /\ Len(H) \in Nat
  BY HistoryAt
<1>3. G \in Seq(Entry) /\ Len(G) \in Nat
  BY <1>1, HistoryAt
<1>4. r.current_term \in Nat /\ v \in Nat /\ r.current_term <= v
  BY DEF Moved
<1> HIDE DEF G
<1>5. ASSUME NEW k \in 1 .. Len(G) PROVE G[k].term <= v /\ G[k].index = k
  <2>1. G[k] \in Entry /\ G[k].term \in DOMAIN ledger /\ Agree(G, ledger[G[k].term], k)
    BY <1>1, <1>3 DEF Sound
  <2>2. k \in 1 .. Len(ledger[G[k].term]) /\ ledger[G[k].term][k] = G[k]
    BY <1>1, <1>3, <2>1 DEF Agree, LedgerInv
  <2>3. G[k].index = k
    BY <1>1, <2>1, <2>2 DEF LedgerInv
  <2>4. G[k].term \in Nat /\ G[k].term <= r.current_term
    BY <1>1, <2>1 DEF Entry
  <2> QED
    BY <1>4, <2>3, <2>4
<1>6. CASE H = G
  BY <1>1, <1>2, <1>3, <1>5, <1>6, SoundKept
<1>7. CASE s.role = "Leader" /\ Appended(G, H, v)
  <2>1. PICK e \in Entry : e.term = v /\ e.index = Len(G) + 1 /\ H = Append(G, e)
    BY <1>7 DEF Appended
  <2>2. /\ Len(H) = Len(G) + 1 /\ H[Len(G) + 1] = e
        /\ \A k \in 1 .. Len(G) : H[k] = G[k]
    BY <1>3, <2>1
  <2>3. \A k \in 1 .. Len(H) : H[k].term <= v /\ H[k].index = k
    BY <1>3, <1>4, <1>5, <2>1, <2>2
  <2>4. Sound(G, ledger')
    BY <1>1, <1>3, SoundKept
  <2>5. v \in DOMAIN ledger' /\ ledger'[v] = H
    BY <1>7 DEF Moved
  <2>6. ASSUME NEW k \in 1 .. Len(H)
        PROVE  H[k].term \in DOMAIN ledger' /\ Agree(H, ledger'[H[k].term], k)
    <3>1. CASE k <= Len(G)
      <4>1. k \in 1 .. Len(G)
        BY <1>3, <3>1
      <4>2. G[k].term \in DOMAIN ledger' /\ Agree(G, ledger'[G[k].term], k)
        BY <2>4, <4>1 DEF Sound
      <4> QED
        BY <1>2, <1>3, <2>2, <4>1, <4>2 DEF Agree
    <3>2. CASE k = Len(G) + 1
      BY <1>2, <2>1, <2>2, <2>5, <3>2 DEF Agree
    <3> QED
      BY <1>3, <2>2, <3>1, <3>2
  <2>7. Sound(H, ledger')
    BY <2>6 DEF Sound
  <2> QED
    BY <1>2, <2>3, <2>7
<1>8. CASE v \in DOMAIN ledger /\ Agree(H, ledger[v], Len(H))
  <2>1. /\ Len(ledger[v]) \in Nat /\ Sound(ledger[v], ledger)
        /\ \A k \in 1 .. Len(ledger[v]) : ledger[v][k].term <= v /\ ledger[v][k].index = k
    BY <1>1, <1>8 DEF LedgerInv
  <2>2. Len(H) <= Len(ledger[v]) /\ \A k \in 1 .. Len(H) : H[k] = ledger[v][k]
    BY <1>8 DEF Agree
  <2>3. \A k \in 1 .. Len(H) : H[k].term <= v /\ H[k].index = k
    BY <1>2, <2>1, <2>2
  <2>4. ASSUME NEW k \in 1 .. Len(H)
        PROVE  H[k].term \in DOMAIN ledger /\ Agree(H, ledger[H[k].term], k)
    <3>1. k \in 1 .. Len(ledger[v]) /\ H[k] = ledger[v][k]
      BY <1>2, <2>1, <2>2
    <3>2. H[k].term \in DOMAIN ledger /\ Agree(ledger[v], ledger[H[k].term], k)
      BY <2>1, <3>1 DEF Sound
    <3> QED
      BY <1>2, <2>1, <2>2, <3>2 DEF Agree
  <2>5. Sound(H, ledger)
    BY <2>4 DEF Sound
  <2> QED
    BY <1>1, <1>2, <2>3, <2>5, SoundKept
<1> QED
  BY <1>6, <1>7, <1>8 DEF Evolves, G

\* The ledger.
LEMMA LedgerKept ==
    ASSUME LogInv, ElectionInv', NEW i \in Member, NEW s, Shape(s), Evolves(raft[i], s), Moved(i, s)
    PROVE  LedgerInv'
<1> DEFINE v == s.current_term
<1>1. LedgerInv /\ v \in Nat
  BY DEF LogInv, Moved
<1>2. ASSUME NEW t \in DOMAIN ledger'
      PROVE  /\ t \in Nat /\ ledger'[t] \in Seq(Entry) /\ Len(ledger'[t]) > 0
             /\ ledger'[t][Len(ledger'[t])].term = t
             /\ Sound(ledger'[t], ledger')
             /\ \A k \in 1 .. Len(ledger'[t]) : ledger'[t][k].term <= t /\ ledger'[t][k].index = k
  <2>1. CASE t \in DOMAIN ledger /\ ledger'[t] = ledger[t]
    <3>1. PICK H : H = ledger[t]
      OBVIOUS
    <3>2. /\ t \in Nat /\ H \in Seq(Entry) /\ Len(H) > 0 /\ H[Len(H)].term = t /\ Sound(H, ledger)
          /\ \A k \in 1 .. Len(H) : H[k].term <= t /\ H[k].index = k
      BY <1>1, <2>1, <3>1 DEF LedgerInv
    <3>3. Sound(H, ledger')
      BY <1>1, <3>2, SoundKept
    <3> QED
      BY <2>1, <3>1, <3>2, <3>3 DEF Sound
  <2>2. CASE s.role = "Leader" /\ t = v
    <3>1. PICK H : H = History(s)
      OBVIOUS
    <3>2. /\ H \in Seq(Entry) /\ Len(H) \in Nat /\ Sound(H, ledger')
          /\ \A k \in 1 .. Len(H) : H[k].term <= v /\ H[k].index = k
      BY <3>1, MovedHistory
    <3>3. ledger'[t] = H
      BY <2>2, <3>1 DEF Moved
    <3>4. Len(H) > 0 /\ H[Len(H)].term = t
      <4>1. CASE t \in DOMAIN ledger /\ ledger'[t] = ledger[t]
        BY <1>1, <3>3, <4>1 DEF LedgerInv
      <4>2. CASE \E G : G \in Seq(Entry) /\ Appended(G, H, t)
        <5>1. PICK G : G \in Seq(Entry) /\ Appended(G, H, t)
          BY <4>2
        <5>2. PICK e \in Entry : e.term = t /\ H = Append(G, e)
          BY <5>1 DEF Appended
        <5> QED
          BY <5>1, <5>2
      <4>3. History(raft[i]) \in Seq(Entry)
        BY HistoryAt DEF LogInv, MemberLog
      <4>4. t \in DOMAIN ledger => ledger[t] \in Seq(Entry)
        BY <1>1 DEF LedgerInv
      <4> QED
        BY <3>3, <4>1, <4>2, <4>3, <4>4 DEF Moved
    <3> QED
      BY <1>1, <2>2, <3>2, <3>3, <3>4 DEF Sound
  <2> QED
    BY <2>1, <2>2 DEF Moved
<1>3. ASSUME NEW t \in Nat PROVE t \in DOMAIN ledger' <=> \E l \in Member : <<t, l>> \in elected'
  <2>1. ASSUME t \in DOMAIN ledger' PROVE \E l \in Member : <<t, l>> \in elected'
    <3>1. CASE t \in DOMAIN ledger
      <4>1. PICK l \in Member : <<t, l>> \in elected
        BY <1>1, <3>1 DEF LedgerInv
      <4> QED
        BY <4>1 DEF Moved
    <3>2. CASE t = v /\ s.role = "Leader"
      BY <3>2 DEF Moved
    <3> QED
      BY <2>1, <3>1, <3>2 DEF Moved
  <2>2. ASSUME NEW l \in Member, <<t, l>> \in elected' PROVE t \in DOMAIN ledger'
    <3>1. CASE <<t, l>> \in elected
      BY <1>1, <3>1 DEF LedgerInv, Moved
    <3>2. CASE s.role = "Leader" /\ <<t, l>> = <<v, i>>
      <4>1. t = v
        BY <3>2
      <4> QED
        BY <3>2, <4>1 DEF Moved
    <3> QED
      BY <2>2, <3>1, <3>2 DEF Moved
  <2> QED
    BY <2>1, <2>2
<1>4. ASSUME NEW t \in Nat, NEW l \in Member, <<t, l>> \in elected' PROVE t <= raft'[l].current_term
  <2>1. /\ raft'[i].current_term = v /\ raft[i].current_term \in Nat /\ raft[i].current_term <= v
        /\ \A j \in Member : j # i => raft'[j] = raft[j]
    BY DEF Moved, Refolded
  <2>2. CASE <<t, l>> \in elected
    <3>1. t <= raft[l].current_term
      BY <1>1, <2>2 DEF LedgerInv
    <3> QED
      BY <1>1, <2>1, <3>1
  <2>3. CASE <<t, l>> = <<v, i>>
    <3>1. t = v /\ l = i
      BY <2>3
    <3> QED
      BY <1>1, <2>1, <3>1
  <2> QED
    BY <1>4, <2>2, <2>3 DEF Moved
<1> QED
  BY <1>2, <1>3, <1>4 DEF LedgerInv, Sound

\* What the member that moved has committed is committed.
LEMMA MovedCommit ==
    ASSUME LogInv, NEW i \in Member, NEW s, Shape(s), Moved(i, s), Commits(i, raft[i], s),
           NEW H, H = History(s)
    PROVE  Backed(H, s.current_term, s.commit_index)'
<1> DEFINE r == raft[i]
<1>1. PICK v : v = s.current_term
  OBVIOUS
<1>2. PICK c : c = s.commit_index
  OBVIOUS
<1>3. /\ LedgerInv /\ MemberLog(i) /\ v \in Nat /\ r.current_term \in Nat /\ r.current_term <= v
      /\ c \in Nat /\ c <= last_index(s) /\ r.commit_index \in Nat
  BY <1>1, <1>2 DEF LogInv, Moved, Shape, MemberLog
<1>4. H \in Seq(Entry) /\ Len(H) = last_index(s)
  BY HistoryAt
<1>5. CASE c = r.commit_index
  <2>1. PICK G : G = History(r)
    OBVIOUS
  <2>2. Backed(G, r.current_term, c) /\ Agree(H, G, c)
    BY <1>2, <1>3, <1>5, <2>1 DEF MemberLog, Commits
  <2>3. Backed(H, r.current_term, c)
    <3>1. \A u : Agree(G, ledger[u], c) => Agree(H, ledger[u], c)
      BY <1>3, <2>2 DEF Agree
    <3> QED
      BY <2>2, <3>1 DEF Backed
  <2>4. Backed(H, v, c)'
    BY <1>3, <2>3, BackedKept
  <2> QED
    BY <1>1, <1>2, <2>4
<1>6. CASE v \in DOMAIN ledger /\ Backed(ledger[v], v, c) /\ Agree(H, ledger[v], c)
  <2>1. Backed(H, v, c)
    <3>1. \A u : Agree(ledger[v], ledger[u], c) => Agree(H, ledger[u], c)
      BY <1>3, <1>6 DEF Agree
    <3> QED
      BY <1>6, <3>1 DEF Backed
  <2>2. Backed(H, v, c)'
    BY <1>3, <2>1, BackedKept
  <2> QED
    BY <1>1, <1>2, <2>2
<1>7. CASE /\ s.role = "Leader" /\ c > 0 /\ H[c].term = v
           /\ \E Q \in SUBSET Member : Majority(Q) /\ \A j \in Q : j = i \/ Acked(v, j, c)
  <2>1. PICK Q \in SUBSET Member : Majority(Q) /\ \A j \in Q : j = i \/ Acked(v, j, c)
    BY <1>7
  <2>2. v \in DOMAIN ledger' /\ ledger'[v] = H /\ <<v, i>> \in elected'
    BY <1>1, <1>7 DEF Moved
  <2>3. c \in 1 .. Len(ledger'[v]) /\ ledger'[v][c].term = v
    BY <1>3, <1>4, <1>7, <2>2
  <2>4. ASSUME NEW j \in Q PROVE Held(v, j, c)'
    <3>1. CASE j = i
      BY <2>2, <2>3, <3>1 DEF Held
    <3>2. CASE Acked(v, j, c)
      BY <3>2 DEF Held, Acked, Moved
    <3> QED
      BY <2>1, <3>1, <3>2
  <2>5. Chosen(v, c)'
    BY <2>1, <2>2, <2>3, <2>4 DEF Chosen, Majority, quorum
  <2>6. Agree(H, ledger'[v], c)
    BY <1>3, <1>4, <2>2 DEF Agree
  <2>7. Backed(H, v, c)'
    BY <1>3, <2>2, <2>5, <2>6 DEF Backed
  <2> QED
    BY <1>1, <1>2, <2>7
<1> QED
  BY <1>1, <1>2, <1>5, <1>6, <1>7 DEF Commits

\* Every member's log.
LEMMA MembersKept ==
    ASSUME ElectionInv, ElectionInv', LogInv, NEW i \in Member, NEW s, Shape(s), Struct(s),
           Evolves(raft[i], s), Commits(i, raft[i], s), Counts(i, s), Moved(i, s),
           \A x \in voted : x \in voted', s.voted_for # None => <<s.current_term, i, s.voted_for>> \in voted',
           NEW j \in Member
    PROVE  MemberLog(j)'
<1>1. LedgerInv /\ MemberLog(j) /\ MemberLog(i)
  BY DEF LogInv
<1>2. CASE j = i
  <2>1. PICK H : H = History(s)
    OBVIOUS
  <2>2. PICK c : c = raft'[i]
    OBVIOUS
  <2>3. /\ Shape(c) /\ History(c) = H /\ c.current_term = s.current_term /\ c.role = s.role
        /\ c.voted_for = s.voted_for /\ c.commit_index = s.commit_index /\ c.match_index = s.match_index
    BY <2>1, <2>2 DEF Moved, Refolded
  <2>4. Sound(H, ledger') /\ \A k \in 1 .. Len(H) : H[k].term <= c.current_term
    BY <2>1, <2>3, MovedHistory
  <2>5. Backed(H, c.current_term, c.commit_index)'
    BY <2>1, <2>3, MovedCommit
  <2>6. ASSUME c.role = "Leader"
        PROVE  /\ <<c.current_term, i>> \in elected' /\ ledger'[c.current_term] = H
               /\ \A p \in peers(i) : c.match_index[p] = 0 \/ Acked(c.current_term, p, c.match_index[p])'
    <3>1. <<c.current_term, i>> \in elected' /\ ledger'[c.current_term] = H
      BY <2>1, <2>3, <2>6 DEF Moved
    <3>2. \A p \in peers(i) : c.match_index[p] = 0 \/ Acked(c.current_term, p, c.match_index[p])
      BY <2>3, <2>6 DEF Counts
    <3>3. \A p \in peers(i) : Acked(c.current_term, p, c.match_index[p]) => Acked(c.current_term, p, c.match_index[p])'
      BY DEF Acked, Moved
    <3> QED
      BY <3>1, <3>2, <3>3
  <2>7. ASSUME c.role = "Candidate" PROVE c.current_term > 0 /\ <<c.current_term, i>> \notin elected'
    <3> DEFINE r == raft[i]
               v == c.current_term
    <3>1. v \in Nat /\ r.current_term \in Nat /\ r.current_term <= v
      BY <2>3 DEF Moved
    <3>2. v > r.current_term \/ (r.role = "Candidate" /\ v = r.current_term)
      <4>1. s.role = "Candidate" /\ s.role # "Leader" /\ s.role # "Follower" /\ v = s.current_term
        BY <2>3, <2>7
      <4> HIDE DEF r, v
      <4>2. Evolves(r, s)
        BY DEF r
      <4> QED
        BY <4>1, <4>2 DEF Evolves
    <3>3. <<v, i>> \notin elected
      <4>1. CASE v > r.current_term
        BY <1>1, <3>1, <4>1 DEF LedgerInv
      <4>2. CASE r.role = "Candidate" /\ v = r.current_term
        BY <1>1, <4>2 DEF MemberLog
      <4> QED
        BY <3>2, <4>1, <4>2
    <3>4. v > 0
      BY <1>1, <3>1, <3>2 DEF MemberLog
    <3> QED
      BY <2>3, <2>7, <3>3, <3>4 DEF Moved
  <2>8. c.voted_for # None => <<c.current_term, i, c.voted_for>> \in voted'
    BY <2>3
  <2> QED
    BY <1>2, <2>2, <2>3, <2>4, <2>5, <2>6, <2>7, <2>8 DEF MemberLog, peers
<1>3. CASE j # i
  <2>1. PICK r : r = raft[j]
    OBVIOUS
  <2>2. raft'[j] = r
    BY <1>3, <2>1 DEF Moved
  <2>3. PICK H : H = History(r)
    OBVIOUS
  <2>4. /\ Shape(r) /\ Sound(H, ledger) /\ \A k \in 1 .. Len(H) : H[k].term <= r.current_term
        /\ Backed(H, r.current_term, r.commit_index) /\ r.commit_index \in Nat
    BY <1>1, <2>1, <2>3 DEF MemberLog, Shape
  <2>5. r.current_term \in Nat
    BY <2>1 DEF ElectionInv, MemberInv, Struct
  <2>6. Sound(H, ledger') /\ Backed(H, r.current_term, r.commit_index)'
    <3>1. Len(H) \in Nat
      BY <2>3, <2>4, HistoryAt
    <3> QED
      BY <1>1, <2>4, <2>5, <3>1, SoundKept, BackedKept
  <2>7. ASSUME r.role = "Leader"
        PROVE  /\ <<r.current_term, j>> \in elected' /\ ledger'[r.current_term] = H
               /\ \A p \in peers(j) : r.match_index[p] = 0 \/ Acked(r.current_term, p, r.match_index[p])'
    <3> DEFINE v == r.current_term
    <3>1. /\ <<v, j>> \in elected /\ ledger[v] = H
          /\ \A p \in peers(j) : r.match_index[p] = 0 \/ Acked(v, p, r.match_index[p])
      BY <1>1, <2>1, <2>3, <2>7 DEF MemberLog
    <3>2. v \in DOMAIN ledger
      BY <1>1, <2>5, <3>1 DEF LedgerInv
    <3>3. <<v, j>> \in elected'
      BY <3>1 DEF Moved
    <3>4. ledger'[v] = ledger[v]
      <4> SUFFICES ASSUME ledger'[v] # ledger[v] PROVE FALSE
        OBVIOUS
      <4>1. <<v, i>> \in elected
        BY <3>2 DEF Moved
      <4>2. <<v, i>> \in elected'
        BY <4>1 DEF Moved
      <4> QED
        BY <1>3, <3>3, <4>2, LedgerOwner
    <3>5. \A p \in peers(j) : Acked(v, p, r.match_index[p]) => Acked(v, p, r.match_index[p])'
      BY DEF Acked, Moved
    <3> QED
      BY <3>1, <3>3, <3>4, <3>5
  <2>8. r.role = "Candidate" => r.current_term > 0 /\ <<r.current_term, j>> \notin elected'
    <3>1. r.role = "Candidate" => r.current_term > 0 /\ <<r.current_term, j>> \notin elected
      BY <1>1, <2>1 DEF MemberLog
    <3>2. <<r.current_term, j>> \in elected' => <<r.current_term, j>> \in elected
      BY <1>3 DEF Moved
    <3> QED
      BY <3>1, <3>2
  <2>9. r.voted_for # None => <<r.current_term, j, r.voted_for>> \in voted'
    BY <1>1, <2>1 DEF MemberLog
  <2> QED
    BY <2>2, <2>3, <2>4, <2>6, <2>7, <2>8, <2>9 DEF MemberLog, peers
<1> QED
  BY <1>2, <1>3

\* The history of the member that moved still agrees with what it agreed with, or a
\* later leader has overwritten that.
LEMMA MovedAgrees ==
    ASSUME LogInv, NEW i \in Member, NEW s, Shape(s), Evolves(raft[i], s), Moved(i, s),
           NEW u \in DOMAIN ledger, NEW n \in Nat, Agree(History(raft[i]), ledger[u], n), u <= s.current_term
    PROVE  Agree(History(s), ledger'[u], n) \/ Overwritten(ledger, u, n, s.current_term)
<1> DEFINE G == History(raft[i])
           H == History(s)
           v == s.current_term
<1>1. LedgerInv /\ u \in Nat /\ v \in Nat
  BY DEF LogInv, LedgerInv, Moved
<1>2. G \in Seq(Entry) /\ H \in Seq(Entry)
  BY HistoryAt DEF LogInv, MemberLog
<1>3. CASE H = G
  BY <1>1, <1>3, AgreeGrows
<1>4. CASE Appended(G, H, v)
  <2> HIDE DEF G, H
  <2>1. PICK e \in Entry : H = Append(G, e)
    BY <1>4 DEF Appended
  <2>2. Agree(H, ledger[u], n)
    <3>1. Agree(G, ledger[u], n)
      BY DEF G
    <3>2. Len(G) \in Nat /\ Len(H) = Len(G) + 1 /\ \A k \in 1 .. Len(G) : H[k] = G[k]
      BY <1>2, <2>1
    <3> QED
      BY <3>1, <3>2 DEF Agree
  <2>3. Agree(H, ledger'[u], n)
    BY <1>1, <2>2, AgreeGrows
  <2> QED
    BY <2>3 DEF H
<1>5. CASE v \in DOMAIN ledger /\ \A k \in Nat : Agree(G, ledger[v], k) => Agree(H, ledger[v], k)
  <2> HIDE DEF G, H
  <2>1. Agree(G, ledger[u], n)
    BY DEF G
  <2>2. CASE Agree(ledger[v], ledger[u], n)
    <3>1. Agree(G, ledger[v], n)
      BY <2>1, <2>2 DEF Agree
    <3>2. Agree(H, ledger[v], n)
      BY <1>5, <3>1
    <3>3. Agree(H, ledger[u], n)
      BY <2>2, <3>2 DEF Agree
    <3>4. Agree(H, ledger'[u], n)
      BY <1>1, <3>3, AgreeGrows
    <3> QED
      BY <3>4 DEF H
  <2>3. CASE ~Agree(ledger[v], ledger[u], n)
    <3>1. u # v
      <4> SUFFICES ASSUME u = v PROVE FALSE
        OBVIOUS
      <4>1. n <= Len(ledger[u])
        BY <2>1 DEF Agree
      <4> QED
        BY <2>3, <4>1 DEF Agree
    <3> QED
      BY <1>1, <1>5, <2>3, <3>1 DEF Overwritten
  <2> QED
    BY <2>2, <2>3
<1> QED
  BY <1>3, <1>4, <1>5 DEF Evolves

\* Acknowledgements.
LEMMA AcksKept ==
    ASSUME ElectionInv, ElectionInv', LogInv, NEW i \in Member, NEW s, Shape(s), Evolves(raft[i], s), Moved(i, s)
    PROVE  AckInv'
<1> DEFINE r == raft[i]
           v == s.current_term
<1>1. LedgerInv /\ AckInv
  BY DEF LogInv
<1>2. /\ v \in Nat /\ r.current_term \in Nat /\ r.current_term <= v
      /\ raft'[i].current_term = v /\ History(raft'[i]) = History(s)
      /\ \A j \in Member : j # i => raft'[j] = raft[j]
  BY DEF Moved, Refolded
<1>3. acked' \subseteq Nat \X Member \X Nat
  <2> SUFFICES ASSUME NEW x \in acked' PROVE x \in Nat \X Member \X Nat
    OBVIOUS
  <2> QED
    BY <1>1, <1>2 DEF Moved, AckInv
<1>4. ASSUME NEW u \in Nat, NEW j \in Member, NEW k \in Nat, <<u, j, k>> \in acked'
      PROVE  u \in DOMAIN ledger' /\ u <= raft'[j].current_term /\ k <= Len(ledger'[u])
  <2>1. CASE <<u, j, k>> \in acked
    <3>1. u \in DOMAIN ledger /\ u <= raft[j].current_term /\ k <= Len(ledger[u])
      BY <1>1, <2>1 DEF AckInv
    <3>2. u \in DOMAIN ledger' /\ Len(ledger[u]) \in Nat /\ Len(ledger'[u]) \in Nat /\ Len(ledger[u]) <= Len(ledger'[u])
      BY <1>1, <3>1, AgreeGrows
    <3>3. u <= raft'[j].current_term
      BY <1>2, <3>1
    <3> QED
      BY <3>1, <3>2, <3>3
  <2>2. ASSUME NEW x \in Nat, <<u, j, k>> = <<v, i, x>>, Confirms(s, v, x)
        PROVE  u \in DOMAIN ledger' /\ u <= raft'[j].current_term /\ k <= Len(ledger'[u])
    <3>1. u = v /\ j = i /\ k = x
      BY <2>2
    <3>2. u \in DOMAIN ledger /\ k <= Len(ledger[u])
      BY <2>2, <3>1 DEF Confirms, Agree
    <3>3. u \in DOMAIN ledger' /\ Len(ledger[u]) \in Nat /\ Len(ledger'[u]) \in Nat /\ Len(ledger[u]) <= Len(ledger'[u])
      BY <1>1, <3>2, AgreeGrows
    <3> QED
      BY <1>2, <3>1, <3>2, <3>3
  <2> QED
    BY <1>4, <2>1, <2>2 DEF Moved
<1>5. ASSUME NEW u \in DOMAIN ledger', NEW j \in Member, NEW n \in Nat, Held(u, j, n)'
      PROVE  Agree(History(raft'[j]), ledger'[u], n) \/ Overwritten(ledger', u, n, raft'[j].current_term)
  <2>1. u \in Nat
    BY <1>1, <1>2 DEF LedgerInv, Moved
  <2>2. ASSUME u \in DOMAIN ledger, Held(u, j, n)
        PROVE  Agree(History(raft'[j]), ledger'[u], n) \/ Overwritten(ledger', u, n, raft'[j].current_term)
    <3>1. raft[j].current_term \in Nat /\ raft'[j].current_term \in Nat /\ raft[j].current_term <= raft'[j].current_term
      BY <1>2 DEF ElectionInv, MemberInv, Struct
    <3>2. u <= raft[j].current_term
      BY <1>1, <2>1, <2>2 DEF Held, Acked, AckInv, LedgerInv
    <3>3. PICK z \in Nat : z = raft'[j].current_term
      BY <3>1
    <3>4. Overwritten(ledger, u, n, raft[j].current_term) => Overwritten(ledger', u, n, z)
      BY <1>1, <2>2, <3>1, <3>3, OverwrittenKept
    <3>5. Agree(History(raft[j]), ledger[u], n) \/ Overwritten(ledger, u, n, raft[j].current_term)
      BY <1>1, <2>2 DEF AckInv
    <3>6. CASE j # i /\ Agree(History(raft[j]), ledger[u], n)
      <4>1. raft'[j] = raft[j]
        BY <1>2, <3>6
      <4>2. Agree(History(raft[j]), ledger'[u], n)
        BY <1>1, <2>2, <3>6, AgreeGrows
      <4> QED
        BY <4>1, <4>2
    <3>7. CASE j = i /\ Agree(History(raft[j]), ledger[u], n)
      <4>1. u <= v
        BY <1>2, <2>1, <3>2, <3>7
      <4>2. Agree(History(s), ledger'[u], n) \/ Overwritten(ledger, u, n, v)
        BY <2>2, <3>7, <4>1, MovedAgrees
      <4>3. Overwritten(ledger, u, n, v) => Overwritten(ledger', u, n, z)
        BY <1>1, <1>2, <2>2, <3>3, <3>7, OverwrittenKept
      <4> QED
        BY <1>2, <3>3, <3>7, <4>2, <4>3
    <3> QED
      BY <3>3, <3>4, <3>5, <3>6, <3>7
  <2>3. ASSUME j = i, u = v, s.role = "Leader" => n <= Len(ledger'[u]),
               s.role # "Leader" => u \in DOMAIN ledger /\ \E k \in Nat : k >= n /\ Confirms(s, u, k)
        PROVE  Agree(History(raft'[j]), ledger'[u], n)
    <3>1. CASE s.role = "Leader"
      <4>1. ledger'[u] = History(s)
        BY <2>3, <3>1 DEF Moved
      <4> QED
        BY <1>2, <2>3, <3>1, <4>1 DEF Agree
    <3>2. CASE s.role # "Leader"
      <4>1. PICK k \in Nat : k >= n /\ Confirms(s, u, k)
        BY <2>3, <3>2
      <4>2. u \in DOMAIN ledger /\ Agree(History(s), ledger[u], k)
        BY <4>1 DEF Confirms
      <4>3. Agree(History(s), ledger[u], n)
        <5>1. Len(History(s)) \in Nat /\ Len(ledger[u]) \in Nat
          BY <1>1, <4>2, HistoryAt DEF LedgerInv
        <5> QED
          BY <4>1, <4>2, <5>1 DEF Agree
      <4>4. Agree(History(s), ledger'[u], n)
        BY <1>1, <4>2, <4>3, AgreeGrows
      <4> QED
        BY <1>2, <2>3, <4>4
    <3> QED
      BY <3>1, <3>2
  <2> QED
    BY <1>1, <1>5, <2>1, <2>2, <2>3, HeldBack
<1> QED
  BY <1>3, <1>4, <1>5 DEF AckInv

\* Whoever log_ok finds no shorter holds what the voter holds of an earlier leader's
\* own entries, unless a later leader has overwritten it.
LEMMA LogOkCarries ==
    ASSUME LogInv, NEW i \in Member, NEW c \in Member, NEW m, log_ok(raft[i], m),
           m.last_log_index = last_index(raft[c]), m.last_log_term = last_term(raft[c]),
           NEW u \in DOMAIN ledger, NEW n \in Nat \ {0}, Own(u, n), Agree(History(raft[i]), ledger[u], n)
    PROVE  Agree(History(raft[c]), ledger[u], n) \/ Overwritten(ledger, u, n, raft[c].current_term)
<1>1. PICK G : G = History(raft[i])
  OBVIOUS
<1>2. PICK H : H = History(raft[c])
  OBVIOUS
<1>3. /\ G \in Seq(Entry) /\ Len(G) = last_index(raft[i]) /\ Sound(G, ledger)
      /\ last_term(raft[i]) = IF Len(G) = 0 THEN 0 ELSE G[Len(G)].term
  <2>1. Shape(raft[i]) /\ Sound(G, ledger)
    BY <1>1 DEF LogInv, MemberLog
  <2>2. G \in Seq(Entry) /\ Len(G) = last_index(raft[i])
    BY <1>1, <2>1, HistoryAt
  <2>3. last_term(raft[i]) = IF last_index(raft[i]) = 0 THEN 0 ELSE G[last_index(raft[i])].term
    BY <1>1, <2>1, LastTerm
  <2> QED
    BY <2>1, <2>2, <2>3
<1>4. /\ H \in Seq(Entry) /\ Len(H) = last_index(raft[c]) /\ Sound(H, ledger)
      /\ last_term(raft[c]) = IF Len(H) = 0 THEN 0 ELSE H[Len(H)].term
      /\ \A k \in 1 .. Len(H) : H[k].term <= raft[c].current_term
  BY <1>2, HistoryAt, LastTerm DEF LogInv, MemberLog
<1>5. LedgerInv /\ u \in Nat /\ ledger[u] \in Seq(Entry)
  BY DEF LogInv, LedgerInv
<1>6. Len(G) \in Nat /\ Len(H) \in Nat /\ Len(ledger[u]) \in Nat
  BY <1>3, <1>4, <1>5
<1>7. n \in 1 .. Len(G) /\ n \in 1 .. Len(ledger[u]) /\ G[n] = ledger[u][n] /\ G[n].term = u
  BY <1>1, <1>6 DEF Agree, Own
<1> DEFINE t == G[Len(G)].term
           w == H[Len(H)].term
<1>8. t \in DOMAIN ledger /\ Agree(G, ledger[t], Len(G)) /\ t \in Nat \ {0}
  <2>1. Len(G) \in 1 .. Len(G)
    BY <1>6, <1>7
  <2>2. G[Len(G)] \in Entry
    BY <1>3, <2>1
  <2> QED
    BY <1>3, <2>1, <2>2 DEF Sound, Entry
<1>9. u <= t /\ u > 0
  <2>1. n \in 1 .. Len(ledger[t]) /\ ledger[t][n] = G[n]
    BY <1>5, <1>6, <1>7, <1>8 DEF Agree, LedgerInv
  <2>2. ledger[t][n].term <= t
    BY <1>5, <1>8, <2>1 DEF LedgerInv
  <2>3. G[n] \in Entry
    BY <1>3, <1>7
  <2> QED
    BY <1>7, <2>1, <2>2, <2>3 DEF Entry
<1>10. Len(H) > 0
  <2> SUFFICES ASSUME Len(H) = 0 PROVE FALSE
    BY <1>6
  <2> HIDE DEF t, w
  <2>1. last_term(raft[i]) = t /\ last_term(raft[c]) = 0
    BY <1>3, <1>4, <1>6, <1>7 DEF t
  <2> QED
    BY <1>8, <2>1 DEF log_ok
<1>11. /\ w \in DOMAIN ledger /\ Agree(H, ledger[w], Len(H)) /\ w \in Nat
       /\ w <= raft[c].current_term
  <2>1. Len(H) \in 1 .. Len(H)
    BY <1>6, <1>10
  <2>2. H[Len(H)] \in Entry
    BY <1>4, <2>1
  <2> QED
    BY <1>4, <2>1, <2>2 DEF Sound, Entry
<1>12. w > t \/ (w = t /\ Len(H) >= Len(G))
  <2>1. last_term(raft[i]) = t /\ last_term(raft[c]) = w
    BY <1>3, <1>4, <1>6, <1>7, <1>10
  <2> HIDE DEF t, w
  <2> QED
    BY <1>3, <1>4, <2>1 DEF log_ok
<1> HIDE DEF t, w
<1>13. CASE w = u
  <2>1. Len(H) >= n
    BY <1>6, <1>7, <1>8, <1>9, <1>11, <1>12, <1>13
  <2>2. Agree(H, ledger[u], n)
    BY <1>6, <1>11, <1>13, <2>1 DEF Agree
  <2> QED
    BY <1>2, <2>2
<1>14. CASE w # u
  <2>1. u < w
    BY <1>5, <1>8, <1>9, <1>11, <1>12, <1>14
  <2>2. CASE ~Agree(ledger[w], ledger[u], n)
    BY <1>11, <2>1, <2>2 DEF Overwritten
  <2>3. CASE Agree(ledger[w], ledger[u], n)
    <3>1. Len(H) >= n
      <4> SUFFICES ASSUME Len(H) < n PROVE FALSE
        BY <1>6
      <4> DEFINE k == Len(H)
      <4>1. k \in 1 .. n /\ k \in 1 .. Len(ledger[u]) /\ H[k] = ledger[w][k] /\ ledger[w][k] = ledger[u][k]
        BY <1>6, <1>7, <1>10, <1>11, <2>3 DEF Agree
      <4>2. ledger[u][k].term <= u
        BY <1>5, <4>1 DEF LedgerInv
      <4>3. H[k].term = w
        BY DEF w
      <4> QED
        BY <1>5, <1>11, <2>1, <4>1, <4>2, <4>3
    <3>2. Agree(H, ledger[u], n)
      BY <1>6, <1>11, <2>3, <3>1 DEF Agree
    <3> QED
      BY <1>2, <3>2
  <2> QED
    BY <2>2, <2>3
<1> QED
  BY <1>13, <1>14

\* Votes.
LEMMA BallotsKept ==
    ASSUME ElectionInv, ElectionInv', LogInv, NEW i \in Member, NEW s, Shape(s), Struct(s),
           Evolves(raft[i], s), Ballot(i, raft[i], s), Moved(i, s),
           \A x \in voted' : x \in voted \/ (s.voted_for # None /\ x = <<s.current_term, i, s.voted_for>>)
    PROVE  BallotInv'
<1> SUFFICES ASSUME NEW v \in Nat, NEW j \in Member, NEW c \in Member, <<v, j, c>> \in voted'
             PROVE  /\ v <= raft'[c].current_term
                    /\ raft'[c].role = "Candidate" /\ raft'[c].current_term = v =>
                         \A u \in DOMAIN ledger', n \in Nat \ {0} :
                            u < v /\ Own(u, n)' /\ Held(u, j, n)' =>
                               Agree(History(raft'[c]), ledger'[u], n) \/ Overwritten(ledger', u, n, v)
  BY DEF BallotInv
<1> DEFINE r == raft[i]
<1>1. LedgerInv /\ AckInv /\ BallotInv
  BY DEF LogInv
<1>2. /\ s.current_term \in Nat /\ r.current_term \in Nat /\ r.current_term <= s.current_term
      /\ raft'[i].current_term = s.current_term /\ History(raft'[i]) = History(s) /\ raft'[i].role = s.role
      /\ \A k \in Member : k # i => raft'[k] = raft[k]
  BY DEF Moved, Refolded
<1>3. s.role = "Candidate" =>
        /\ History(s) = History(r)
        /\ s.current_term > r.current_term \/ (r.role = "Candidate" /\ s.current_term = r.current_term)
  <2> HIDE DEF r
  <2>1. Evolves(r, s)
    BY DEF r
  <2> QED
    BY <2>1 DEF Evolves
<1> DEFINE new == v = s.current_term /\ j = i /\ c = s.voted_for /\ <<v, j, c>> \notin voted
<1>4. <<v, j, c>> \in voted \/ new
  <2>1. CASE s.voted_for # None /\ <<v, j, c>> = <<s.current_term, i, s.voted_for>>
    <3>1. v = s.current_term /\ j = i /\ c = s.voted_for
      BY <2>1
    <3> QED
      BY <3>1
  <2> QED
    BY <2>1
<1>5. ASSUME new, c # i
      PROVE  \E m \in msgs : /\ m.type = "RequestVote" /\ ~m.pre_vote /\ m.from = c
                             /\ m.term = v /\ log_ok(r, m)
  <2>1. s.voted_for # None
    BY <1>5, NoneAssumption
  <2> QED
    BY <1>5, <2>1 DEF Ballot
<1>6. v <= raft'[c].current_term
  <2>1. CASE <<v, j, c>> \in voted
    <3>1. v <= raft[c].current_term
      BY <1>1, <2>1 DEF BallotInv
    <3> QED
      BY <1>2, <3>1
  <2>2. CASE new /\ c = i
    BY <1>2, <2>2
  <2>3. CASE new /\ c # i
    <3>1. PICK m \in msgs : m.type = "RequestVote" /\ ~m.pre_vote /\ m.from = c /\ m.term = v
      BY <1>5, <2>3
    <3>2. MessageOK(m)
      BY DEF LogInv
    <3>3. v <= raft[c].current_term
      BY <3>1, <3>2 DEF MessageOK
    <3> QED
      BY <1>2, <2>3, <3>3
  <2> QED
    BY <1>4, <2>1, <2>2, <2>3
<1>7. ASSUME raft'[c].role = "Candidate", raft'[c].current_term = v,
             NEW u \in DOMAIN ledger', NEW n \in Nat \ {0}, u < v, Own(u, n)', Held(u, j, n)'
      PROVE  Agree(History(raft'[c]), ledger'[u], n) \/ Overwritten(ledger', u, n, v)
  <2>1. v <= raft'[j].current_term
    BY DEF ElectionInv, VotesInv
  <2>2. u \in Nat
    BY <1>1, <1>2 DEF LedgerInv, Moved
  <2>3. u \in DOMAIN ledger /\ Held(u, j, n)
    <3>1. ~(j = i /\ u = s.current_term)
      BY <1>2, <1>7, <2>1, <2>2
    <3> QED
      BY <1>1, <1>7, <2>2, <3>1, HeldBack
  <2>4. Own(u, n)
    BY <1>1, <1>7, <2>3, OwnBack
  <2>5. n \in Nat
    OBVIOUS
  <2>6. raft[c].current_term \in Nat /\ raft[j].current_term \in Nat
    BY DEF ElectionInv, MemberInv, Struct
  <2>7. SUFFICES Agree(History(raft'[c]), ledger[u], n) \/ Overwritten(ledger, u, n, v)
    BY <1>1, <2>3, <2>5, AgreeGrows, OverwrittenKept
  <2>8. CASE <<v, j, c>> \in voted
    <3>1. v <= raft[c].current_term
      BY <1>1, <2>8 DEF BallotInv
    <3>2. raft[c].role = "Candidate" /\ raft[c].current_term = v /\ History(raft'[c]) = History(raft[c])
      <4>1. CASE c # i
        BY <1>2, <1>7, <4>1
      <4>2. CASE c = i
        <5>1. s.role = "Candidate" /\ s.current_term = v
          BY <1>2, <1>7, <4>2
        <5>2. ~(s.current_term > r.current_term)
          BY <1>2, <3>1, <4>2, <5>1
        <5> QED
          BY <1>2, <1>3, <4>2, <5>1, <5>2
      <4> QED
        BY <4>1, <4>2
    <3>3. Agree(History(raft[c]), ledger[u], n) \/ Overwritten(ledger, u, n, v)
      BY <1>1, <1>7, <2>3, <2>4, <2>8, <3>2 DEF BallotInv
    <3> QED
      BY <3>2, <3>3
  <2>9. CASE new
    <3>1. Agree(History(r), ledger[u], n) \/ Overwritten(ledger, u, n, r.current_term)
      BY <1>1, <2>3, <2>5, <2>9 DEF AckInv
    <3>2. Overwritten(ledger, u, n, r.current_term) => Overwritten(ledger, u, n, v)
      <4> SUFFICES ASSUME Overwritten(ledger, u, n, r.current_term) PROVE Overwritten(ledger, u, n, v)
        OBVIOUS
      <4>1. PICK w \in DOMAIN ledger : u < w /\ w <= r.current_term /\ ~Agree(ledger[w], ledger[u], n)
        BY DEF Overwritten
      <4>2. w \in Nat
        BY <1>1 DEF LedgerInv
      <4>3. w <= v
        BY <1>2, <2>9, <4>1, <4>2
      <4> QED
        BY <4>1, <4>3 DEF Overwritten
    <3>3. CASE c = i
      <4>1. History(raft'[c]) = History(r)
        BY <1>2, <1>3, <1>7, <3>3
      <4> QED
        BY <3>1, <3>2, <4>1
    <3>4. CASE c # i
      <4>1. PICK m \in msgs : /\ m.type = "RequestVote" /\ ~m.pre_vote /\ m.from = c
                              /\ m.term = v /\ log_ok(r, m)
        BY <1>5, <2>9, <3>4
      <4>2. raft'[c] = raft[c]
        BY <1>2, <3>4
      <4>3. m.last_log_index = last_index(raft[c]) /\ m.last_log_term = last_term(raft[c])
        <5>1. MessageOK(m)
          BY DEF LogInv
        <5> QED
          BY <1>7, <4>1, <4>2, <5>1 DEF MessageOK
      <4>4. Agree(History(r), ledger[u], n) =>
              Agree(History(raft[c]), ledger[u], n) \/ Overwritten(ledger, u, n, raft[c].current_term)
        BY <2>3, <2>4, <4>1, <4>3, LogOkCarries
      <4> QED
        BY <1>7, <3>1, <3>2, <4>2, <4>4
    <3> QED
      BY <3>3, <3>4
  <2> QED
    BY <1>4, <2>8, <2>9
<1> QED
  BY <1>6, <1>7

\* Two majorities share a member.
LEMMA MajoritiesMeet ==
    ASSUME NEW P, NEW Q, Majority(P), Majority(Q)
    PROVE  \E j \in Member : j \in P /\ j \in Q
<1>1. IsFiniteSet(Member) /\ IsFiniteSet(P) /\ IsFiniteSet(Q)
  BY MemberAssumption, FS_Subset DEF Majority
<1>2. Cardinality(Member) \in Nat /\ Cardinality(P) \in Nat /\ Cardinality(Q) \in Nat
  BY <1>1, FS_CardinalityType
<1>3. Cardinality(P) + Cardinality(Q) > Cardinality(Member)
  BY <1>2 DEF quorum, Majority
<1>4. P \cap Q # {}
  BY <1>1, <1>3, FS_MajoritiesIntersect DEF Majority
<1> QED
  BY <1>4 DEF Majority

\* A new leader has what any earlier leader may still commit: one of its voters held it,
\* and no earlier leader can commit what all of them lack.
LEMMA SafeKept ==
    ASSUME ElectionInv, ElectionInv', LogInv, BallotInv', NEW i \in Member, NEW s, Shape(s),
           Evolves(raft[i], s), Moved(i, s),
           \A x \in voted' : x \in voted \/ (s.voted_for # None /\ x = <<s.current_term, i, s.voted_for>>)
    PROVE  SafeInv'
<1> SUFFICES ASSUME NEW u \in DOMAIN ledger', NEW v \in DOMAIN ledger', NEW n \in Nat \ {0},
                    u < v, Own(u, n)'
             PROVE  Agree(ledger'[v], ledger'[u], n) \/ Blocked(u, n)'
  BY DEF SafeInv
<1> DEFINE r == raft[i]
<1>1. LedgerInv /\ AckInv /\ BallotInv /\ SafeInv /\ n \in Nat
  BY DEF LogInv
<1>2. /\ s.current_term \in Nat /\ r.current_term \in Nat /\ r.current_term <= s.current_term
      /\ raft'[i].current_term = s.current_term
      /\ \A k \in Member : k # i => raft'[k] = raft[k]
  BY DEF Moved, Refolded
<1>3. u \in Nat /\ v \in Nat
  BY <1>1, <1>2 DEF LedgerInv, Moved
<1>4. ASSUME u \in DOMAIN ledger, Blocked(u, n) PROVE Blocked(u, n)'
  BY <1>1, <1>4, BlockedKept
<1>5. ASSUME u \in DOMAIN ledger, NEW w \in DOMAIN ledger, u < w, ~Agree(ledger[w], ledger[u], n)
      PROVE  Blocked(u, n)'
  <2>1. Own(u, n)
    BY <1>1, <1>5, OwnBack
  <2>2. Blocked(u, n)
    BY <1>1, <1>5, <2>1 DEF SafeInv
  <2> QED
    BY <1>4, <1>5, <2>2
<1>6. CASE u \in DOMAIN ledger /\ v \in DOMAIN ledger
  <2>1. CASE Agree(ledger[v], ledger[u], n)
    <3>1. Agree(ledger'[v], ledger[u], n)
      BY <1>1, <1>6, <2>1, AgreeGrows
    <3> QED
      BY <1>1, <1>6, <3>1, AgreeGrows
  <2> QED
    BY <1>5, <1>6, <2>1
<1>7. CASE u \in DOMAIN ledger /\ v \notin DOMAIN ledger
  <2>1. /\ s.role = "Leader" /\ v = s.current_term /\ <<v, i>> \in elected'
        /\ Appended(History(r), ledger'[v], v)
        /\ s.current_term = r.current_term => r.role = "Candidate"
    BY <1>7 DEF Moved
  <2>2. PICK Q \in SUBSET Member : Cardinality(Q) >= quorum /\ \A j \in Q : <<v, j, i>> \in voted'
    BY <1>3, <2>1 DEF ElectionInv, MajorityInv, quorum
  <2>3. \A j \in Q : raft'[j].current_term >= v
    BY <1>3, <2>2 DEF ElectionInv, VotesInv
  <2>4. \A j \in Member : raft'[j].current_term \in Nat
    BY <1>2 DEF ElectionInv, MemberInv, Struct
  <2>5. CASE \A j \in Q : ~Held(u, j, n)'
    <3>1. \A j \in Q : raft'[j].current_term > u
      BY <1>3, <2>3, <2>4
    <3> QED
      BY <2>2, <2>5, <3>1 DEF Blocked, Majority, quorum
  <2>6. ASSUME NEW j \in Q, Held(u, j, n)'
        PROVE  Agree(ledger'[v], ledger'[u], n) \/ Blocked(u, n)'
    <3>1. Held(u, j, n)
      BY <1>1, <1>3, <1>7, <2>1, <2>6, HeldBack
    <3>2. Own(u, n)
      BY <1>1, <1>7, OwnBack
    <3>3. Agree(History(r), ledger[u], n) \/ \E w \in DOMAIN ledger : u < w /\ ~Agree(ledger[w], ledger[u], n)
      <4>1. CASE j = i
        BY <1>1, <1>7, <3>1, <4>1 DEF AckInv, Overwritten
      <4>2. CASE j # i
        <5>1. <<v, j, i>> \in voted
          BY <2>2, <4>2
        <5>2. v <= r.current_term
          BY <1>1, <1>3, <5>1 DEF BallotInv
        <5>3. r.role = "Candidate" /\ r.current_term = v
          BY <1>2, <2>1, <5>2
        <5>4. Agree(History(r), ledger[u], n) \/ Overwritten(ledger, u, n, v)
          BY <1>1, <1>3, <1>7, <3>1, <3>2, <5>1, <5>3 DEF BallotInv
        <5> QED
          BY <5>4 DEF Overwritten
      <4> QED
        BY <4>1, <4>2
    <3>4. CASE Agree(History(r), ledger[u], n)
      <4>1. PICK G : G = History(r)
        OBVIOUS
      <4>2. G \in Seq(Entry)
        BY <4>1, HistoryAt DEF LogInv, MemberLog
      <4>3. PICK e \in Entry : ledger'[v] = Append(G, e)
        BY <2>1, <4>1 DEF Appended
      <4>4. Len(G) \in Nat /\ Len(ledger'[v]) = Len(G) + 1 /\ \A k \in 1 .. Len(G) : ledger'[v][k] = G[k]
        BY <4>2, <4>3
      <4>5. Agree(ledger'[v], ledger[u], n)
        BY <3>4, <4>1, <4>4 DEF Agree
      <4> QED
        BY <1>1, <1>7, <4>5, AgreeGrows
    <3> QED
      BY <1>5, <1>7, <3>3, <3>4
  <2> QED
    BY <2>5, <2>6
<1>8. CASE u \notin DOMAIN ledger /\ v \in DOMAIN ledger
  <2>1. u = s.current_term
    BY <1>8 DEF Moved
  <2>2. PICK l \in Member : <<v, l>> \in elected'
    BY <1>1, <1>3, <1>8 DEF LedgerInv, Moved
  <2>3. PICK Q \in SUBSET Member : Cardinality(Q) >= quorum /\ \A j \in Q : <<v, j, l>> \in voted'
    BY <1>3, <2>2 DEF ElectionInv, MajorityInv, quorum
  <2>4. ASSUME NEW j \in Q PROVE raft'[j].current_term > u /\ ~Held(u, j, n)'
    <3>1. raft'[j].current_term >= v /\ raft'[j].current_term \in Nat
      BY <1>2, <1>3, <2>3 DEF ElectionInv, VotesInv, MemberInv, Struct
    <3>2. raft'[j].current_term > u
      BY <1>3, <3>1
    <3>3. j # i
      BY <1>2, <2>1, <3>2
    <3> QED
      BY <1>1, <1>3, <1>8, <3>2, <3>3, HeldBack
  <2> QED
    BY <2>3, <2>4 DEF Blocked, Majority, quorum
<1>9. CASE u \notin DOMAIN ledger /\ v \notin DOMAIN ledger
  BY <1>2, <1>9 DEF Moved
<1> QED
  BY <1>6, <1>7, <1>8, <1>9

\* An append that is true of a log is true of a longer one.
LEMMA AppendOKGrows ==
    ASSUME NEW m, NEW H, NEW K, AppendOK(m, H), Len(H) \in Nat, Len(K) \in Nat, Len(H) <= Len(K),
           \A k \in 1 .. Len(H) : K[k] = H[k]
    PROVE  AppendOK(m, K)
<1> DEFINE prev == m.prev_log_index
           e == m.entries
<1>1. /\ prev \in Nat /\ e \in Seq(Entry) /\ prev + Len(e) <= Len(H) /\ Len(e) \in Nat
      /\ m.prev_log_term = (IF prev = 0 THEN 0 ELSE H[prev].term)
      /\ \A k \in 1 .. Len(e) : e[k] = H[prev + k]
      /\ m.leader_commit \in Nat /\ m.leader_commit <= Len(H)
  BY DEF AppendOK
<1> HIDE DEF prev, e
<1>2. prev + Len(e) <= Len(K) /\ m.leader_commit <= Len(K)
  BY <1>1
<1>3. prev # 0 => K[prev] = H[prev]
  BY <1>1
<1>4. \A k \in 1 .. Len(e) : e[k] = K[prev + k]
  BY <1>1
<1> QED
  BY <1>1, <1>2, <1>3, <1>4 DEF AppendOK, prev, e

\* Messages.
LEMMA MessagesKept ==
    ASSUME ElectionInv, ElectionInv', LogInv, NEW i \in Member, NEW res, LogGood(i, raft[i], res),
           Good(i, raft[i], res), Moved(i, res.st), NEW m, m \in msgs \/ m \in res.out,
           acked' = acked \cup Acks(i, res.out)
    PROVE  MessageOK(m)'
<1>1. PICK s : s = res.st
  OBVIOUS
<1>2. /\ LedgerInv /\ Shape(s) /\ Moved(i, s) /\ Evolves(raft[i], s) /\ MemberLog(i)
  BY <1>1 DEF LogInv, LogGood
<1>3. /\ s.current_term \in Nat /\ raft[i].current_term \in Nat /\ raft[i].current_term <= s.current_term
      /\ raft'[i].current_term = s.current_term /\ History(raft'[i]) = History(s)
      /\ raft'[i].role = s.role /\ Shape(raft'[i])
      /\ \A k \in Member : k # i => raft'[k] = raft[k]
  BY <1>2 DEF Moved, Refolded
<1>4. last_index(raft'[i]) = last_index(s) /\ last_term(raft'[i]) = last_term(s)
  <2>1. last_index(raft'[i]) = last_index(s)
    BY <1>2, <1>3, HistoryAt
  <2>2. /\ last_term(s) = IF last_index(s) = 0 THEN 0 ELSE History(s)[last_index(s)].term
        /\ last_term(raft'[i]) = IF last_index(raft'[i]) = 0 THEN 0
                                  ELSE History(raft'[i])[last_index(raft'[i])].term
    BY <1>2, <1>3, LastTerm
  <2> QED
    BY <1>3, <2>1, <2>2
<1>5. CASE m \in msgs
  <2>1. MessageOK(m) /\ m.from \in Member /\ m.term \in Nat
    BY <1>5 DEF LogInv, ElectionInv, BallotsInv, Envelope
  <2>2. ASSUME m.type = "AppendEntries"
        PROVE  /\ m.term \in DOMAIN ledger' /\ AppendOK(m, ledger'[m.term])
               /\ Backed(ledger[m.term], m.term, m.leader_commit)'
    <3>1. m.term \in DOMAIN ledger /\ AppendOK(m, ledger[m.term]) /\ Backed(ledger[m.term], m.term, m.leader_commit)
      BY <2>1, <2>2 DEF MessageOK
    <3>2. /\ m.term \in DOMAIN ledger' /\ Len(ledger[m.term]) \in Nat /\ Len(ledger'[m.term]) \in Nat
          /\ Len(ledger[m.term]) <= Len(ledger'[m.term])
          /\ \A k \in 1 .. Len(ledger[m.term]) : ledger'[m.term][k] = ledger[m.term][k]
      BY <1>2, <3>1, AgreeGrows
    <3>3. AppendOK(m, ledger'[m.term])
      BY <3>1, <3>2, AppendOKGrows
    <3>4. m.leader_commit \in Nat /\ m.leader_commit <= Len(ledger[m.term])
      BY <3>1 DEF AppendOK
    <3>5. PICK H : H = ledger[m.term]
      OBVIOUS
    <3>6. Backed(H, m.term, m.leader_commit)'
      BY <1>2, <2>1, <3>1, <3>4, <3>5, BackedKept
    <3>7. \A x : Agree(H, x, m.leader_commit) => Agree(ledger'[m.term], x, m.leader_commit)
      BY <3>2, <3>4, <3>5 DEF Agree
    <3>8. Backed(ledger[m.term], m.term, m.leader_commit)'
      BY <3>6, <3>7 DEF Backed
    <3> QED
      BY <3>2, <3>3, <3>8
  <2>3. ASSUME m.type = "InstallSnapshot"
        PROVE  /\ m.term \in DOMAIN ledger' /\ SnapshotOK(m, ledger'[m.term])
               /\ Backed(ledger[m.term], m.term, m.last_included_index)'
    <3>1. m.term \in DOMAIN ledger /\ SnapshotOK(m, ledger[m.term]) /\ Backed(ledger[m.term], m.term, m.last_included_index)
      BY <2>1, <2>3 DEF MessageOK
    <3>2. /\ m.term \in DOMAIN ledger' /\ Len(ledger[m.term]) \in Nat /\ Len(ledger'[m.term]) \in Nat
          /\ Len(ledger[m.term]) <= Len(ledger'[m.term])
          /\ \A k \in 1 .. Len(ledger[m.term]) : ledger'[m.term][k] = ledger[m.term][k]
      BY <1>2, <3>1, AgreeGrows
    <3>3. m.last_included_index \in Nat /\ m.last_included_index <= Len(ledger[m.term]) /\ m.last_included_index > 0
          /\ m.last_included_index = Len(m.data)
      BY <3>1 DEF SnapshotOK, Agree
    <3>4. SnapshotOK(m, ledger'[m.term])
      BY <3>1, <3>2, <3>3 DEF SnapshotOK, Agree
    <3>5. PICK H : H = ledger[m.term]
      OBVIOUS
    <3>6. Backed(H, m.term, m.last_included_index)'
      BY <1>2, <2>1, <3>1, <3>3, <3>5, BackedKept
    <3>7. \A x : Agree(H, x, m.last_included_index) => Agree(ledger'[m.term], x, m.last_included_index)
      BY <3>2, <3>3, <3>5 DEF Agree
    <3>8. Backed(ledger[m.term], m.term, m.last_included_index)'
      BY <3>6, <3>7 DEF Backed
    <3> QED
      BY <3>2, <3>4, <3>8
  <2>4. ASSUME m.type = "RequestVote", ~m.pre_vote
        PROVE  /\ m.term <= raft'[m.from].current_term
               /\ raft'[m.from].role = "Candidate" /\ raft'[m.from].current_term = m.term =>
                     m.last_log_index = last_index(raft'[m.from]) /\ m.last_log_term = last_term(raft'[m.from])
    <3>1. /\ m.term <= raft[m.from].current_term
          /\ raft[m.from].role = "Candidate" /\ raft[m.from].current_term = m.term =>
               m.last_log_index = last_index(raft[m.from]) /\ m.last_log_term = last_term(raft[m.from])
      BY <2>1, <2>4 DEF MessageOK
    <3>2. CASE m.from # i
      BY <1>3, <2>1, <3>1, <3>2
    <3>3. CASE m.from = i
      <4>1. m.term <= s.current_term
        BY <1>3, <2>1, <3>1, <3>3
      <4>2. ASSUME s.role = "Candidate", s.current_term = m.term
            PROVE  m.last_log_index = last_index(s) /\ m.last_log_term = last_term(s)
        <5> DEFINE r == raft[i]
        <5>1. /\ History(s) = History(r)
              /\ s.current_term > r.current_term \/ (r.role = "Candidate" /\ s.current_term = r.current_term)
          <6> HIDE DEF r
          <6>1. Evolves(r, s)
            BY <1>2 DEF r
          <6> QED
            BY <4>2, <6>1 DEF Evolves
        <5>2. r.role = "Candidate" /\ r.current_term = m.term
          BY <1>3, <2>1, <3>1, <3>3, <4>2, <5>1
        <5>3. m.last_log_index = last_index(r) /\ m.last_log_term = last_term(r)
          BY <3>1, <3>3, <5>2
        <5>4. Shape(r)
          BY <1>2 DEF MemberLog
        <5> HIDE DEF r
        <5>5. last_index(s) = last_index(r) /\ last_term(s) = last_term(r)
          BY <1>2, <5>1, <5>4, HistoryAt, LastTerm
        <5> QED
          BY <5>3, <5>5
      <4> QED
        BY <1>3, <1>4, <3>3, <4>1, <4>2
    <3> QED
      BY <3>2, <3>3
  <2>5. \A x \in acked : x \in acked'
    OBVIOUS
  <2> QED
    BY <2>1, <2>2, <2>3, <2>4, <2>5 DEF MessageOK
<1>6. CASE m \in res.out
  <2>1. Sends(s, m) /\ m.from = i
    BY <1>1, <1>6 DEF LogGood, Good
  <2>2. PICK H : H = History(s)
    OBVIOUS
  <2>3. s.role = "Leader" => s.current_term \in DOMAIN ledger' /\ ledger'[s.current_term] = H
    BY <1>2, <2>2 DEF Moved
  <2>4. PICK c : c = s.commit_index
    OBVIOUS
  <2>5. c \in Nat
    BY <1>2, <2>4 DEF Shape
  <2>6. Backed(H, s.current_term, c)'
    BY <1>1, <1>2, <2>2, <2>4, MovedCommit DEF LogGood
  <2>7. ASSUME NEW x \in Nat, x <= c PROVE Backed(H, s.current_term, x)'
    BY <2>5, <2>6, <2>7 DEF Backed, Agree
  <2>8. ASSUME m.type = "AppendEntries"
        PROVE  /\ m.term \in DOMAIN ledger' /\ AppendOK(m, ledger'[m.term])
               /\ Backed(ledger[m.term], m.term, m.leader_commit)'
    <3>1. s.role = "Leader" /\ m.term = s.current_term /\ AppendOK(m, H) /\ m.leader_commit <= c
      BY <2>1, <2>2, <2>4, <2>8 DEF Sends
    <3>2. m.leader_commit \in Nat
      BY <3>1 DEF AppendOK
    <3> QED
      BY <2>3, <2>7, <3>1, <3>2
  <2>9. ASSUME m.type = "InstallSnapshot"
        PROVE  /\ m.term \in DOMAIN ledger' /\ SnapshotOK(m, ledger'[m.term])
               /\ Backed(ledger[m.term], m.term, m.last_included_index)'
    <3>1. s.role = "Leader" /\ m.term = s.current_term /\ SnapshotOK(m, H) /\ m.last_included_index <= c
      BY <2>1, <2>2, <2>4, <2>9 DEF Sends
    <3>2. m.last_included_index \in Nat
      BY <3>1 DEF SnapshotOK
    <3> QED
      BY <2>3, <2>7, <3>1, <3>2
  <2>10. ASSUME m.type = "AppendEntriesResp"
         PROVE  m.match_index \in Nat /\ (m.success => <<m.term, m.from, m.match_index>> \in acked')
    BY <1>6, <2>1, <2>10 DEF Sends, Acks
  <2>11. ASSUME m.type = "InstallSnapshotResp"
         PROVE  m.last_included_index \in Nat /\ (m.success => <<m.term, m.from, m.last_included_index>> \in acked')
    BY <1>6, <2>1, <2>11 DEF Sends, Acks
  <2>12. ASSUME m.type = "RequestVote", ~m.pre_vote
         PROVE  /\ m.term <= raft'[m.from].current_term
                /\ raft'[m.from].role = "Candidate" /\ raft'[m.from].current_term = m.term =>
                      m.last_log_index = last_index(raft'[m.from]) /\ m.last_log_term = last_term(raft'[m.from])
    <3>1. m.term = s.current_term /\ (s.role = "Candidate" => m.last_log_index = last_index(s) /\ m.last_log_term = last_term(s))
      BY <2>1, <2>12 DEF Sends
    <3> QED
      BY <1>3, <1>4, <2>1, <3>1
  <2> QED
    BY <2>8, <2>9, <2>10, <2>11, <2>12 DEF MessageOK
<1> QED
  BY <1>5, <1>6

\* The drain of a result that is good for elections and for the log keeps LogInv.
LEMMA PerformKeepsLog ==
    ASSUME ElectionInv, ElectionInv', LogInv, NEW i \in Member, NEW received, NEW res,
           Good(i, raft[i], res), LogGood(i, raft[i], res), Perform(i, received, res)
    PROVE  LogInv'
<1>1. PICK s : s = res.st
  OBVIOUS
<1>2. /\ Moved(i, s) /\ Shape(s) /\ Struct(s) /\ Evolves(raft[i], s) /\ Commits(i, raft[i], s)
      /\ Counts(i, s) /\ Ballot(i, raft[i], s)
  BY <1>1, PerformMoves DEF LogGood, Good
<1>3. /\ \A x \in voted : x \in voted'
      /\ s.voted_for # None => <<s.current_term, i, s.voted_for>> \in voted'
      /\ \A x \in voted' : x \in voted \/ (s.voted_for # None /\ x = <<s.current_term, i, s.voted_for>>)
      /\ acked' = acked \cup Acks(i, res.out)
      /\ \A m \in msgs' : m \in msgs \/ m \in res.out
  BY <1>1 DEF Perform, Network
<1>4. LedgerInv' /\ AckInv' /\ BallotInv'
  BY <1>2, <1>3, LedgerKept, AcksKept, BallotsKept
<1>5. SafeInv'
  BY <1>2, <1>3, <1>4, SafeKept
<1>6. \A j \in Member : MemberLog(j)'
  BY <1>2, <1>3, MembersKept
<1>7. \A m \in msgs' : MessageOK(m)'
  BY <1>1, <1>2, <1>3, MessagesKept
<1> QED
  BY <1>4, <1>5, <1>6, <1>7 DEF LogInv

=============================================================================
