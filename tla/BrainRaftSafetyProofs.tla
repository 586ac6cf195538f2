------------------------ MODULE BrainRaftSafetyProofs -----------------------
(***************************************************************************)
(* Every handler of BrainRaft leaves a LogGood result, so LogInv is        *)
(* inductive; what it implies of the members is the engine's safety, and   *)
(* that they implement ReplicatedLog.  For any group, any number of terms, *)
(* commands and messages in flight, and any compaction threshold.          *)
(***************************************************************************)
EXTENDS BrainRaftLogProofs

\* s has r's log and commit index.
LogSame(r, s) ==
    /\ s.log = r.log /\ s.base_index = r.base_index /\ s.base_term = r.base_term
    /\ s.snapshot = r.snapshot /\ s.commit_index = r.commit_index

\* The log fields determine everything the log is read through.
LEMMA LogSameReads ==
    ASSUME NEW r, NEW s, LogSame(r, s)
    PROVE  /\ History(s) = History(r) /\ last_index(s) = last_index(r) /\ last_term(s) = last_term(r)
           /\ \A n : term_at(s, n) = term_at(r, n)
           /\ \A n : in_log(s, n) = in_log(r, n)
           /\ s.commit_index = r.commit_index
  BY DEF LogSame, History, last_index, last_term, term_at, in_log

\* A struct that keeps the log is well shaped when its volatile fields are.
LEMMA LogSameShape ==
    ASSUME NEW r, Shape(r), NEW s, LogSame(r, s),
           s.leader_id \in Member \cup {None}, s.acked_since_check \subseteq Member,
           s.next_index \in [Member -> Nat \ {0}], s.match_index \in [Member -> Nat],
           s.snapshot_inflight \in [Member -> Nat],
           s.role = "Leader" => \A p \in Member : /\ s.next_index[p] <= last_index(r) + 1
                                                  /\ s.match_index[p] <= last_index(r)
                                                  /\ s.snapshot_inflight[p] <= r.base_index
    PROVE  Shape(s)
  BY LogSameReads DEF Shape, LogSame

\* A result that keeps the log is good for it when the role, the vote and the messages are.
LEMMA KeepGood ==
    ASSUME NEW i \in Member, MemberLog(i), NEW res, Shape(res.st), LogSame(raft[i], res.st),
           res.st.role = "Leader" => /\ raft[i].role = "Leader"
                                     /\ res.st.current_term = raft[i].current_term
                                     /\ res.st.match_index = raft[i].match_index,
           res.st.role = "Candidate" =>
              res.st.current_term > raft[i].current_term
                 \/ (raft[i].role = "Candidate" /\ res.st.current_term = raft[i].current_term),
           Ballot(i, raft[i], res.st),
           \A m \in res.out : Sends(res.st, m)
    PROVE  LogGood(i, raft[i], res)
<1> DEFINE r == raft[i]
           s == res.st
<1>1. History(s) = History(r) /\ s.commit_index = r.commit_index
  BY LogSameReads
<1>2. Shape(r) /\ r.commit_index \in Nat /\ r.commit_index <= last_index(r)
  BY DEF MemberLog, Shape
<1>3. Len(History(r)) = last_index(r)
  BY <1>2, HistoryAt
<1>4. Evolves(r, s)
  <2> HIDE DEF r, s
  <2> QED
    BY <1>1 DEF Evolves, r, s
<1>5. Commits(i, r, s)
  BY <1>1, <1>2, <1>3 DEF Commits, Agree
<1>6. Counts(i, s)
  BY DEF Counts, MemberLog
<1> QED
  BY <1>4, <1>5, <1>6 DEF LogGood

\* An unchanged vote of an unchanged term is on record.
LEMMA OldBallot ==
    ASSUME NEW i \in Member, MemberLog(i), NEW s, s.voted_for = None \/
           (s.voted_for = raft[i].voted_for /\ s.current_term = raft[i].current_term)
    PROVE  Ballot(i, raft[i], s)
  BY DEF Ballot, MemberLog

----------------------------------------------------------------------------
(* Sending.                                                                *)

\* s is the leader r with more recorded as in flight.
Sent(r, s) ==
    /\ Struct(s) /\ Shape(s) /\ LogSame(r, s)
    /\ s.current_term = r.current_term /\ s.role = r.role /\ s.voted_for = r.voted_for
    /\ s.match_index = r.match_index

\* A leader sends true appends and snapshots.
LEMMA SendLog ==
    ASSUME NEW i \in Member, NEW r, Struct(r), Shape(r), r.role = "Leader", NEW ps \in SUBSET Member
    PROVE  LET a == send_append(i, r, ps) IN Sent(r, a.st) /\ \A m \in a.out : Sends(a.st, m)
<1> DEFINE a == send_append(i, r, ps)
           shipped == {p \in ps : behind(r, p) /\ r.snapshot # <<>>}
           f == [p \in Member |-> IF p \in shipped THEN r.base_index ELSE r.snapshot_inflight[p]]
           s == [r EXCEPT !.snapshot_inflight = f]
           H == History(r)
<1>1. a.st = s /\ a.out = {InstallSnapshot(i, r, p) : p \in shipped}
                              \cup {AppendEntries(i, r, p) : p \in {q \in ps : ~behind(r, q)}}
  BY DEF send_append, Result
<1>2. /\ H \in Seq(Entry) /\ Len(H) = last_index(r) /\ r.base_index \in Nat /\ last_index(r) \in Nat
      /\ \A k \in 1 .. r.base_index : H[k] = r.snapshot[k]
      /\ Len(r.log) \in Nat
      /\ \A k \in 1 .. Len(r.log) : H[r.base_index + k] = r.log[k]
  BY HistoryAt
<1>3. /\ s.log = r.log /\ s.base_index = r.base_index /\ s.base_term = r.base_term
      /\ s.snapshot = r.snapshot /\ s.commit_index = r.commit_index /\ s.leader_id = r.leader_id
      /\ s.acked_since_check = r.acked_since_check /\ s.next_index = r.next_index
      /\ s.match_index = r.match_index /\ s.snapshot_inflight = f
      /\ s.current_term = r.current_term /\ s.role = r.role /\ s.voted_for = r.voted_for
  BY DEF Struct, Fields
<1>4. Struct(s)
  BY <1>1, SendSame DEF Same
<1> HIDE DEF s, H, a
<1>5. f \in [Member -> Nat] /\ \A p \in Member : f[p] <= r.base_index
  <2>1. \A p \in Member : r.snapshot_inflight[p] \in Nat /\ r.snapshot_inflight[p] <= r.base_index
    BY DEF Shape
  <2> QED
    BY <1>2, <2>1
<1> HIDE DEF f
<1>6. LogSame(r, s)
  BY <1>3 DEF LogSame
<1>7. Shape(s)
  <2>1. /\ r.leader_id \in Member \cup {None} /\ r.acked_since_check \subseteq Member
        /\ r.next_index \in [Member -> Nat \ {0}] /\ r.match_index \in [Member -> Nat]
        /\ \A p \in Member : r.next_index[p] <= last_index(r) + 1 /\ r.match_index[p] <= last_index(r)
    BY DEF Shape
  <2> QED
    BY <1>3, <1>5, <1>6, <2>1, LogSameShape
<1>8. Sent(r, s) /\ History(s) = H /\ s.commit_index = r.commit_index
  BY <1>3, <1>4, <1>6, <1>7, LogSameReads DEF Sent, H
<1>9. ASSUME NEW p \in shipped PROVE Sends(s, InstallSnapshot(i, r, p))
  <2> DEFINE m == InstallSnapshot(i, r, p)
  <2>1. /\ m.type = "InstallSnapshot" /\ m.term = r.current_term /\ m.data = r.snapshot
        /\ m.last_included_index = r.base_index /\ m.last_included_term = r.base_term
    BY DEF InstallSnapshot
  <2> HIDE DEF m
  <2>2. r.snapshot \in Seq(Entry) /\ r.snapshot # <<>> /\ r.base_index = Len(r.snapshot)
    BY DEF Shape
  <2>3. Len(r.snapshot) > 0
    BY <2>2
  <2>4. r.base_term = H[r.base_index].term /\ r.base_index <= last_index(r) /\ r.base_index <= r.commit_index
    <3>1. /\ r.base_term = IF r.base_index = 0 THEN 0 ELSE r.snapshot[r.base_index].term
          /\ r.base_index <= r.commit_index
      BY DEF Shape
    <3>2. r.base_index \in 1 .. r.base_index /\ r.base_index # 0
      BY <1>2, <2>2, <2>3
    <3>3. last_index(r) = r.base_index + Len(r.log)
      BY DEF last_index
    <3> QED
      BY <1>2, <3>1, <3>2, <3>3
  <2>5. SnapshotOK(m, H)
    BY <1>2, <2>1, <2>2, <2>3, <2>4 DEF SnapshotOK, Agree
  <2>6. Sends(s, m)
    BY <1>3, <1>8, <2>1, <2>4, <2>5 DEF Sends
  <2> QED
    BY <2>6 DEF m
<1>10. ASSUME NEW p \in ps, ~behind(r, p) PROVE Sends(s, AppendEntries(i, r, p))
  <2> DEFINE m == AppendEntries(i, r, p)
             prev == r.next_index[p] - 1
             e == IF in_log(r, prev + 1) THEN SubSeq(r.log, prev + 1 - r.base_index, Len(r.log)) ELSE <<>>
  <2>1. /\ m.type = "AppendEntries" /\ m.term = r.current_term /\ m.prev_log_index = prev
        /\ m.prev_log_term = term_at(r, prev) /\ m.entries = e /\ m.leader_commit = r.commit_index
    BY DEF AppendEntries
  <2> HIDE DEF m, e
  <2>2. /\ prev \in Nat /\ r.base_index <= prev /\ prev <= last_index(r)
    <3>1. r.next_index[p] \in Nat \ {0} /\ r.next_index[p] <= last_index(r) + 1
      BY DEF Shape
    <3>2. ~(r.next_index[p] <= r.base_index)
      BY <1>10 DEF behind
    <3> QED
      BY <1>2, <3>1, <3>2
  <2> HIDE DEF prev
  <2>3. term_at(r, prev) = IF prev = 0 THEN 0 ELSE H[prev].term
    BY <2>2, TermAt DEF H
  <2>4. r.log \in Seq(Entry) /\ last_index(r) = r.base_index + Len(r.log)
    BY DEF Shape, last_index
  <2>5. e \in Seq(Entry) /\ prev + Len(e) = last_index(r) /\ \A k \in 1 .. Len(e) : e[k] = H[prev + k]
    <3>1. CASE prev = last_index(r)
      <4>1. ~in_log(r, prev + 1)
        BY <1>2, <3>1 DEF in_log
      <4>2. e = <<>>
        BY <4>1 DEF e
      <4> QED
        BY <1>2, <3>1, <4>2
    <3>2. CASE prev # last_index(r)
      <4> DEFINE d == prev + 1 - r.base_index
                 z == Len(r.log)
                 b == r.log
      <4>1. in_log(r, prev + 1)
        BY <1>2, <2>2, <3>2 DEF in_log
      <4>2. e = SubSeq(b, d, z)
        BY <4>1 DEF e
      <4>3. d \in Nat \ {0} /\ z \in Nat /\ z <= Len(b) /\ d <= z + 1 /\ b \in Seq(Entry)
        BY <1>2, <2>2, <2>4
      <4>4. /\ d + r.base_index = prev + 1 /\ z = Len(r.log) /\ last_index(r) = r.base_index + z
            /\ r.base_index \in Nat /\ prev \in Nat
        BY <1>2, <2>2, <2>4
      <4> HIDE DEF d, z, b
      <4>5. /\ SubSeq(b, d, z) \in Seq(Entry) /\ Len(SubSeq(b, d, z)) = z + 1 - d
            /\ \A k \in 1 .. z + 1 - d : SubSeq(b, d, z)[k] = b[d + k - 1]
        BY <4>3, SubSeqAt
      <4>6. prev + (z + 1 - d) = last_index(r) /\ z + 1 - d \in Nat
        BY SMTT(30), <4>3, <4>4
      <4>7. ASSUME NEW k \in 1 .. z + 1 - d PROVE e[k] = H[prev + k]
        <5>1. k \in Nat /\ 1 <= k /\ k <= z + 1 - d
          BY <4>6
        <5>2. d + k - 1 \in 1 .. Len(r.log) /\ r.base_index + (d + k - 1) = prev + k
          BY SMTT(30), <4>3, <4>4, <5>1
        <5>3. b[d + k - 1] = H[r.base_index + (d + k - 1)]
          BY <1>2, <5>2 DEF b
        <5> QED
          BY <4>2, <4>5, <5>2, <5>3
      <4> QED
        BY <4>2, <4>5, <4>6, <4>7
    <3> QED
      BY <3>1, <3>2
  <2>6. r.commit_index \in Nat /\ r.commit_index <= last_index(r) /\ r.commit_index <= r.commit_index
    BY DEF Shape
  <2>7. AppendOK(m, H)
    BY <1>2, <2>1, <2>2, <2>3, <2>5, <2>6 DEF AppendOK
  <2>8. Sends(s, m)
    BY <1>3, <1>8, <2>1, <2>6, <2>7 DEF Sends
  <2> QED
    BY <2>8 DEF m
<1>11. ASSUME NEW m \in a.out PROVE Sends(s, m)
  <2>1. CASE \E p \in shipped : m = InstallSnapshot(i, r, p)
    BY <1>9, <2>1
  <2>2. CASE \E p \in ps : ~behind(r, p) /\ m = AppendEntries(i, r, p)
    BY <1>10, <2>2
  <2> QED
    BY <1>1, <1>11, <2>1, <2>2
<1> QED
  BY <1>1, <1>8, <1>11 DEF a

\* So does a broadcast.
LEMMA BroadcastLog ==
    ASSUME NEW i \in Member, NEW r, Struct(r), Shape(r), r.role = "Leader"
    PROVE  LET a == broadcast_append(i, r) IN Sent(r, a.st) /\ \A m \in a.out : Sends(a.st, m)
<1>1. peers(i) \in SUBSET Member
  BY DEF peers
<1> QED
  BY <1>1, SendLog DEF broadcast_append

----------------------------------------------------------------------------
(* Elections.                                                              *)

\* s is the candidate q, or q made leader with a no-op of its term at the end of its log.
Won(q, s) ==
    \/ s = q
    \/ /\ Struct(s) /\ Shape(s) /\ s.role = "Leader"
       /\ Appended(History(q), History(s), q.current_term)
       /\ s.current_term = q.current_term /\ s.voted_for = q.voted_for
       /\ s.commit_index = q.commit_index
       /\ \A p \in Member : s.match_index[p] = 0

\* A well-shaped struct keeps its shape when an entry is appended to the log.
LEMMA AppendShape ==
    ASSUME NEW r, Struct(r), Shape(r), NEW e \in Entry, e.index = last_index(r) + 1, NEW s, Struct(s),
           s.log = Append(r.log, e), s.base_index = r.base_index, s.base_term = r.base_term,
           s.snapshot = r.snapshot, s.commit_index = r.commit_index,
           s.leader_id \in Member \cup {None}, s.acked_since_check \subseteq Member,
           s.next_index \in [Member -> Nat \ {0}], s.match_index \in [Member -> Nat],
           s.snapshot_inflight \in [Member -> Nat],
           \A p \in Member : /\ s.next_index[p] <= last_index(r) + 1
                             /\ s.match_index[p] <= last_index(r)
                             /\ s.snapshot_inflight[p] <= r.base_index
    PROVE  /\ Shape(s) /\ Appended(History(r), History(s), e.term)
           /\ last_index(s) = last_index(r) + 1
<1> DEFINE n == last_index(r)
<1>1. r.log \in Seq(Entry) /\ r.snapshot \in Seq(Entry) /\ r.base_index = Len(r.snapshot)
  BY DEF Shape
<1>2. s.log \in Seq(Entry) /\ Len(s.log) = Len(r.log) + 1
  BY <1>1
<1>3. r.base_index \in Nat /\ Len(r.log) \in Nat /\ n = r.base_index + Len(r.log) /\ n \in Nat
  BY HistoryAt DEF last_index
<1>4. last_index(s) = n + 1
  BY <1>2, <1>3 DEF last_index
<1> HIDE DEF n
<1>5. \A p \in Member : /\ s.next_index[p] <= last_index(s) + 1 /\ s.match_index[p] <= last_index(s)
                        /\ s.snapshot_inflight[p] <= s.base_index
  <2> SUFFICES ASSUME NEW p \in Member
               PROVE  /\ s.next_index[p] <= last_index(s) + 1 /\ s.match_index[p] <= last_index(s)
                      /\ s.snapshot_inflight[p] <= s.base_index
    OBVIOUS
  <2>1. s.next_index[p] \in Nat /\ s.match_index[p] \in Nat /\ s.next_index[p] <= n + 1 /\ s.match_index[p] <= n
    BY DEF n
  <2> QED
    BY <1>3, <1>4, <2>1
<1>6. s.commit_index \in Nat /\ s.base_index <= s.commit_index /\ s.commit_index <= last_index(s)
  <2>1. r.commit_index \in Nat /\ r.base_index <= r.commit_index /\ r.commit_index <= n
    BY DEF Shape, n
  <2> QED
    BY <1>3, <1>4, <2>1
<1>7. s.base_term = IF s.base_index = 0 THEN 0 ELSE s.snapshot[s.base_index].term
  BY DEF Shape
<1>8. Shape(s)
  BY <1>1, <1>2, <1>5, <1>6, <1>7 DEF Shape
<1>9. History(s) = Append(History(r), e)
  <2> DEFINE a == r.snapshot
             b == r.log
  <2>1. a \in Seq(Entry) /\ b \in Seq(Entry)
    BY <1>1
  <2>2. History(s) = a \o Append(b, e) /\ History(r) = a \o b
    BY DEF History
  <2> HIDE DEF a, b
  <2>3. a \o Append(b, e) = Append(a \o b, e)
    BY SMTT(30), <2>1
  <2> QED
    BY <2>2, <2>3
<1>10. Len(History(r)) = n
  BY HistoryAt DEF n
<1> QED
  BY <1>4, <1>8, <1>9, <1>10 DEF Appended, n

\* Counting votes leaves the candidate or makes it leader.
LEMMA WinLog ==
    ASSUME NEW i \in Member, NEW q, Struct(q), Shape(q), q.current_term > 0
    PROVE  LET a == maybe_win_election(i, q) IN
           /\ Won(q, a.st)
           /\ \A m \in a.out : Sends(a.st, m) /\ m.type # "RequestVote"
           /\ a.st = q => a.out = {} \/ q.role = "Leader"
<1> DEFINE a == maybe_win_election(i, q)
           noop == [term |-> q.current_term, index |-> last_index(q) + 1, command |-> None]
           s == [q EXCEPT !.role = "Leader",
                          !.leader_id = i,
                          !.next_index = [p \in Member |-> last_index(q) + 1],
                          !.match_index = [p \in Member |-> 0],
                          !.snapshot_inflight = [p \in Member |-> 0],
                          !.acked_since_check = {},
                          !.log = Append(@, noop)]
<1>1. CASE q.role = "Candidate" /\ Cardinality(q.votes) >= quorum
  <2>1. a = broadcast_append(i, s)
    BY <1>1 DEF maybe_win_election, become_leader
  <2>2. /\ Struct(s) /\ s.role = "Leader" /\ s.current_term = q.current_term
        /\ s.voted_for = q.voted_for
    BY DEF Struct, Fields, Roles
  <2>3. /\ s.log = Append(q.log, noop) /\ s.base_index = q.base_index /\ s.base_term = q.base_term
        /\ s.snapshot = q.snapshot /\ s.commit_index = q.commit_index
        /\ s.leader_id = i /\ s.acked_since_check = {}
        /\ s.next_index = [p \in Member |-> last_index(q) + 1]
        /\ s.match_index = [p \in Member |-> 0]
        /\ s.snapshot_inflight = [p \in Member |-> 0]
    BY DEF Struct, Fields
  <2> HIDE DEF s
  <2>4. last_index(q) \in Nat /\ q.base_index \in Nat /\ q.current_term \in Nat
    BY HistoryAt DEF Struct
  <2>5. noop \in Entry /\ noop.term = q.current_term /\ noop.index = last_index(q) + 1
    BY <2>4 DEF Entry
  <2> HIDE DEF noop
  <2>6. /\ Shape(s) /\ Appended(History(q), History(s), q.current_term)
    <3>1. /\ s.leader_id \in Member \cup {None} /\ s.acked_since_check \subseteq Member
          /\ s.next_index \in [Member -> Nat \ {0}] /\ s.match_index \in [Member -> Nat]
          /\ s.snapshot_inflight \in [Member -> Nat]
          /\ \A p \in Member : /\ s.next_index[p] <= last_index(q) + 1
                               /\ s.match_index[p] <= last_index(q)
                               /\ s.snapshot_inflight[p] <= q.base_index
      BY <2>3, <2>4
    <3>2. /\ Shape(s) /\ Appended(History(q), History(s), noop.term)
      BY <2>2, <2>3, <2>5, <3>1, AppendShape
    <3> QED
      BY <2>5, <3>2
  <2>7. Sent(s, a.st) /\ \A m \in a.out : Sends(a.st, m)
    BY <2>1, <2>2, <2>6, BroadcastLog
  <2>8. \A m \in a.out : m.type # "RequestVote"
    BY <2>1 DEF broadcast_append, send_append, Result, InstallSnapshot, AppendEntries
  <2>9. \A p \in Member : s.match_index[p] = 0
    BY <2>3
  <2> HIDE DEF a
  <2>10. History(a.st) = History(s) /\ a.st.role = "Leader"
    BY <2>2, <2>7, LogSameReads DEF Sent
  <2>11. Won(q, a.st)
    BY <2>2, <2>3, <2>6, <2>7, <2>9, <2>10 DEF Won, Sent, LogSame
  <2>12. a.st # q
    BY <1>1, <2>10
  <2> QED
    BY <2>7, <2>8, <2>11, <2>12 DEF a
<1>2. CASE ~(q.role = "Candidate" /\ Cardinality(q.votes) >= quorum)
  BY <1>2 DEF maybe_win_election, Nothing, Result, Won
<1> QED
  BY <1>1, <1>2

\* r's log in a newer term, with the member's own vote: a candidacy, won or not.
Candidacy(i, r, res) ==
    /\ res.st.current_term = r.current_term + 1 /\ res.st.voted_for = i
    /\ \/ res.st.role = "Candidate" /\ Shape(res.st) /\ LogSame(r, res.st)
       \/ \E q : LogSame(r, q) /\ q.current_term = r.current_term + 1 /\ q.role = "Candidate"
                 /\ Won(q, res.st) /\ res.st.role = "Leader"
    /\ \A m \in res.out : Sends(res.st, m)

\* An election opens a new term over the same log.
LEMMA ElectionLog ==
    ASSUME NEW i \in Member, NEW r, Struct(r), Shape(r), r.role = "PreCandidate"
    PROVE  Candidacy(i, r, start_election(i, r))
<1> DEFINE cand == [r EXCEPT !.current_term = @ + 1,
                             !.voted_for = i,
                             !.role = "Candidate",
                             !.leader_id = None,
                             !.votes = {i}]
           won == maybe_win_election(i, cand)
           requests == RequestVotes(i, cand, cand.current_term, FALSE)
           res == start_election(i, r)
<1>1. r.current_term \in Nat
  BY DEF Struct
<1>2. /\ cand.current_term = r.current_term + 1 /\ cand.voted_for = i
      /\ cand.role = "Candidate" /\ cand.votes = {i} /\ cand.leader_id = None
      /\ LogSame(r, cand) /\ cand.acked_since_check = r.acked_since_check
      /\ cand.next_index = r.next_index /\ cand.match_index = r.match_index
      /\ cand.snapshot_inflight = r.snapshot_inflight
  BY DEF Struct, Fields, LogSame
<1>3. cand = [f \in Fields |-> cand[f]]
  BY DEF Struct, Fields
<1>4. res.st = won.st /\ res.out = requests \cup won.out
  BY DEF start_election, Result
<1> HIDE DEF cand, res
<1>5. Struct(cand)
  <2>1. cand.current_term \in Nat /\ {i} \subseteq Member
    BY <1>1, <1>2
  <2> QED
    BY <1>2, <1>3, <2>1 DEF Struct, Roles
<1>6. Shape(cand)
  <2>1. /\ r.acked_since_check \subseteq Member
        /\ r.next_index \in [Member -> Nat \ {0}] /\ r.match_index \in [Member -> Nat]
        /\ r.snapshot_inflight \in [Member -> Nat]
    BY DEF Shape
  <2> QED
    BY <1>2, <2>1, LogSameShape
<1>7. cand.current_term > 0
  BY <1>1, <1>2
<1>8. /\ Won(cand, won.st)
      /\ \A m \in won.out : Sends(won.st, m)
  BY <1>5, <1>6, <1>7, WinLog
<1> HIDE DEF won
<1>9. res.st.current_term = r.current_term + 1 /\ res.st.voted_for = i
  BY <1>2, <1>4, <1>8 DEF Won
<1>10. ASSUME NEW m \in requests PROVE Sends(res.st, m)
  <2>1. /\ m.type = "RequestVote" /\ m.term = cand.current_term
        /\ m.last_log_index = last_index(cand) /\ m.last_log_term = last_term(cand)
    BY <1>10 DEF RequestVotes
  <2>2. res.st.role = "Candidate" => res.st = cand
    BY <1>4, <1>8 DEF Won
  <2> QED
    BY <1>2, <1>9, <2>1, <2>2 DEF Sends
<1>11. \A m \in res.out : Sends(res.st, m)
  BY <1>4, <1>8, <1>10
<1>12. \/ res.st.role = "Candidate" /\ Shape(res.st) /\ LogSame(r, res.st)
       \/ \E q : LogSame(r, q) /\ q.current_term = r.current_term + 1 /\ q.role = "Candidate"
                 /\ Won(q, res.st) /\ res.st.role = "Leader"
  <2>1. CASE won.st = cand
    BY <1>2, <1>4, <1>6, <2>1
  <2>2. CASE won.st # cand
    <3>1. won.st.role = "Leader"
      BY <1>8, <2>2 DEF Won
    <3> QED
      BY <1>2, <1>4, <1>8, <3>1
  <2> QED
    BY <2>1, <2>2
<1> QED
  BY <1>9, <1>11, <1>12 DEF Candidacy, res

\* A candidate that wins over the log it had is good for it.
LEMMA LeadGood ==
    ASSUME NEW i \in Member, MemberLog(i), Struct(raft[i]), NEW q, LogSame(raft[i], q), q.role = "Candidate",
           q.current_term > raft[i].current_term
              \/ (raft[i].role = "Candidate" /\ q.current_term = raft[i].current_term),
           NEW res, Won(q, res.st), res.st.role = "Leader",
           Ballot(i, raft[i], res.st), \A m \in res.out : Sends(res.st, m)
    PROVE  LogGood(i, raft[i], res)
<1> DEFINE r == raft[i]
           s == res.st
<1>1. History(q) = History(r) /\ q.commit_index = r.commit_index
  BY LogSameReads
<1>2. /\ Struct(s) /\ Shape(s) /\ Appended(History(r), History(s), q.current_term)
      /\ s.current_term = q.current_term /\ s.commit_index = r.commit_index
      /\ \A p \in Member : s.match_index[p] = 0
  BY <1>1 DEF Won
<1>3. Shape(r) /\ r.commit_index \in Nat /\ r.commit_index <= last_index(r)
  BY DEF MemberLog, Shape
<1> HIDE DEF r, s
<1>4. Evolves(r, s)
  BY <1>2 DEF Evolves, r, s
<1>5. Agree(History(s), History(r), r.commit_index)
  <2> DEFINE G == History(r)
             H == History(s)
  <2>1. G \in Seq(Entry) /\ Len(G) = last_index(r)
    BY <1>3, HistoryAt
  <2>2. PICK e \in Entry : H = Append(G, e)
    BY <1>2 DEF Appended
  <2> HIDE DEF G, H
  <2>3. Len(G) \in Nat /\ Len(H) = Len(G) + 1 /\ \A k \in 1 .. Len(G) : H[k] = G[k]
    BY <2>1, <2>2
  <2>4. Agree(H, G, r.commit_index)
    BY <1>3, <2>1, <2>3 DEF Agree
  <2> QED
    BY <2>4 DEF G, H
<1>6. Commits(i, r, s)
  BY <1>2, <1>3, <1>5 DEF Commits
<1>7. Counts(i, s)
  BY <1>2 DEF Counts, peers
<1> QED
  BY <1>2, <1>4, <1>6, <1>7 DEF LogGood, r, s

\* So is a candidacy.
LEMMA CandidacyGood ==
    ASSUME NEW i \in Member, MemberLog(i), Struct(raft[i]), NEW r, LogSame(raft[i], r),
           r.current_term = raft[i].current_term, NEW res, Candidacy(i, r, res)
    PROVE  LogGood(i, raft[i], res)
<1>1. raft[i].current_term \in Nat
  BY DEF Struct
<1>2. /\ res.st.current_term > raft[i].current_term /\ res.st.voted_for = i
      /\ \A m \in res.out : Sends(res.st, m)
  BY <1>1 DEF Candidacy
<1>3. Ballot(i, raft[i], res.st)
  BY <1>2 DEF Ballot
<1>4. CASE res.st.role = "Candidate" /\ Shape(res.st) /\ LogSame(r, res.st)
  <2>1. LogSame(raft[i], res.st)
    BY <1>4 DEF LogSame
  <2> QED
    BY <1>2, <1>3, <1>4, <2>1, KeepGood
<1>5. ASSUME NEW q, LogSame(r, q), q.current_term = r.current_term + 1, q.role = "Candidate",
             Won(q, res.st), res.st.role = "Leader"
      PROVE  LogGood(i, raft[i], res)
  <2>1. LogSame(raft[i], q)
    BY <1>5 DEF LogSame
  <2>2. q.current_term > raft[i].current_term
    BY <1>1, <1>5
  <2> QED
    BY <1>2, <1>3, <1>5, <2>1, <2>2, LeadGood
<1> QED
  BY <1>4, <1>5 DEF Candidacy

\* Counting pre-votes leaves the member or starts an election.
LEMMA PreElectionLog ==
    ASSUME NEW i \in Member, NEW r, Struct(r), Shape(r), r.role = "PreCandidate"
    PROVE  \/ maybe_win_pre_election(i, r) = Nothing(r)
           \/ Candidacy(i, r, maybe_win_pre_election(i, r))
  BY ElectionLog DEF maybe_win_pre_election

\* The election timeout.
LEMMA TimeoutLog ==
    ASSUME NEW i \in Member, Struct(raft[i]), MemberLog(i)
    PROVE  LogGood(i, raft[i], start_pre_election(i, raft[i]))
<1> DEFINE r == raft[i]
           pre == [r EXCEPT !.role = "PreCandidate", !.votes = {i}]
           won == maybe_win_pre_election(i, pre)
           requests == RequestVotes(i, pre, r.current_term + 1, TRUE)
           res == start_pre_election(i, r)
<1>1. Shape(r)
  BY DEF MemberLog
<1>2. /\ Struct(pre) /\ pre.role = "PreCandidate"
      /\ pre.current_term = r.current_term /\ pre.voted_for = r.voted_for
  BY DEF Struct, Fields, Roles
<1>3. /\ LogSame(r, pre) /\ pre.leader_id = r.leader_id /\ pre.acked_since_check = r.acked_since_check
      /\ pre.next_index = r.next_index /\ pre.match_index = r.match_index
      /\ pre.snapshot_inflight = r.snapshot_inflight
  BY DEF Struct, Fields, LogSame
<1>4. res.st = won.st /\ res.out = requests \cup won.out
  BY DEF start_pre_election, Result
<1>5. \A m \in requests : m.type = "RequestVote" /\ m.pre_vote = TRUE
  BY DEF RequestVotes
<1> HIDE DEF pre, res, requests
<1>6. Shape(pre)
  <2>1. /\ r.acked_since_check \subseteq Member /\ r.leader_id \in Member \cup {None}
        /\ r.next_index \in [Member -> Nat \ {0}] /\ r.match_index \in [Member -> Nat]
        /\ r.snapshot_inflight \in [Member -> Nat]
    BY <1>1 DEF Shape
  <2> QED
    BY <1>1, <1>2, <1>3, <2>1, LogSameShape
<1>7. \A m \in requests : Sends(res.st, m)
  BY <1>5 DEF Sends
<1>8. CASE won = Nothing(pre)
  <2>1. res.st = pre /\ won.out = {}
    BY <1>4, <1>8 DEF Nothing, Result
  <2>2. Ballot(i, r, pre)
    BY <1>2, OldBallot
  <2> HIDE DEF won
  <2>3. LogGood(i, r, res)
    BY <1>2, <1>3, <1>4, <1>6, <1>7, <2>1, <2>2, KeepGood
  <2> QED
    BY <2>3 DEF res
<1>9. CASE Candidacy(i, pre, won)
  <2> HIDE DEF won
  <2>1. Candidacy(i, pre, res)
    BY <1>4, <1>7, <1>9 DEF Candidacy
  <2>2. LogGood(i, r, res)
    BY <1>2, <1>3, <2>1, CandidacyGood
  <2> QED
    BY <2>2 DEF res
<1> QED
  BY <1>2, <1>6, <1>8, <1>9, PreElectionLog

\* Stepping down keeps the log.
LEMMA FollowerLog ==
    ASSUME NEW r, Struct(r), Shape(r), NEW t \in Nat, NEW l \in Member \cup {None}
    PROVE  LET s == become_follower(r, t, l) IN
           /\ Struct(s) /\ Shape(s) /\ LogSame(r, s) /\ s.role = "Follower" /\ s.leader_id = l
           /\ s.current_term = MaxOf(t, r.current_term)
           /\ s.voted_for = IF t > r.current_term THEN None ELSE r.voted_for
<1> DEFINE s == become_follower(r, t, l)
<1>1. Demoted(r, t, s)
  BY FollowerDemoted
<1>2. /\ LogSame(r, s) /\ s.leader_id = l /\ s.acked_since_check = r.acked_since_check
      /\ s.next_index = r.next_index /\ s.match_index = r.match_index
      /\ s.snapshot_inflight = [p \in Member |-> 0]
  BY DEF become_follower, Struct, Fields, LogSame
<1> HIDE DEF s
<1>3. Shape(s)
  <2>1. /\ r.acked_since_check \subseteq Member
        /\ r.next_index \in [Member -> Nat \ {0}] /\ r.match_index \in [Member -> Nat]
    BY DEF Shape
  <2>2. s.role # "Leader" /\ s.snapshot_inflight \in [Member -> Nat]
    BY <1>1, <1>2 DEF Demoted
  <2> QED
    BY <1>2, <2>1, <2>2, LogSameShape
<1> QED
  BY <1>1, <1>2, <1>3 DEF Demoted, s

\* A result that steps down with the log it had is good, when its messages are.
LEMMA FollowGood ==
    ASSUME NEW i \in Member, Struct(raft[i]), MemberLog(i), NEW t \in Nat, NEW l \in Member \cup {None},
           NEW res, res.st = become_follower(raft[i], t, l), \A m \in res.out : Sends(res.st, m)
    PROVE  LogGood(i, raft[i], res)
<1> DEFINE r == raft[i]
           s == res.st
<1>1. /\ Struct(s) /\ Shape(s) /\ LogSame(r, s) /\ s.role = "Follower"
      /\ s.current_term = MaxOf(t, r.current_term)
      /\ s.voted_for = IF t > r.current_term THEN None ELSE r.voted_for
  <2>1. Shape(r)
    BY DEF MemberLog
  <2> QED
    BY <2>1, FollowerLog
<1>2. r.current_term \in Nat
  BY DEF Struct
<1>3. Ballot(i, r, s)
  BY <1>1, <1>2, OldBallot DEF MaxOf
<1> QED
  BY <1>1, <1>3, KeepGood

\* A result that is the member's own struct is good, when its messages are.
LEMMA StayGood ==
    ASSUME NEW i \in Member, MemberLog(i), NEW res, res.st = raft[i], \A m \in res.out : Sends(res.st, m)
    PROVE  LogGood(i, raft[i], res)
<1>1. LogSame(raft[i], res.st) /\ Shape(res.st)
  BY DEF LogSame, MemberLog
<1>2. Ballot(i, raft[i], res.st)
  BY OldBallot
<1> QED
  BY <1>1, <1>2, KeepGood

----------------------------------------------------------------------------
(* Votes.                                                                  *)

\* A member grants its vote to a candidate with as much log, and keeps its own.
LEMMA RequestVoteLog ==
    ASSUME ElectionInv, LogInv, NEW m \in msgs, NEW quiet, m.type = "RequestVote"
    PROVE  LogGood(m.to, raft[m.to], handle_request_vote(m.to, raft[m.to], m, quiet))
<1> DEFINE i == m.to
           r == raft[m.to]
           newer == ~m.pre_vote /\ m.term > r.current_term
           s == IF newer THEN become_follower(r, m.term, None) ELSE r
           granted == m.term > 0 /\ (IF m.pre_vote THEN grants_pre_vote(s, m, quiet) ELSE grants_vote(s, m))
           t == IF granted /\ ~m.pre_vote THEN [s EXCEPT !.voted_for = m.from] ELSE s
           resp == RequestVoteResp(i, m.from, s.current_term, granted, m.pre_vote)
           res == handle_request_vote(i, r, m, quiet)
<1>1. i \in Member /\ m.from \in Member /\ m.term \in Nat /\ Struct(r) /\ MemberLog(i) /\ Shape(r)
  BY DEF ElectionInv, BallotsInv, Envelope, MemberInv, LogInv, MemberLog
<1>2. res.st = t /\ res.out = {resp}
  BY DEF handle_request_vote, Result
<1>3. resp.type = "RequestVoteResp"
  BY DEF RequestVoteResp
<1>4. /\ Struct(s) /\ Shape(s) /\ LogSame(r, s)
      /\ newer => s.role = "Follower" /\ s.voted_for = None
      /\ ~newer => s = r
  <2>1. CASE newer
    <3>1. s = become_follower(r, m.term, None)
      BY <2>1
    <3> QED
      BY <1>1, <2>1, <3>1, FollowerLog
  <2>2. CASE ~newer
    BY <1>1, <2>2 DEF LogSame
  <2> QED
    BY <2>1, <2>2
<1> HIDE DEF s, res
<1>5. /\ LogSame(s, t) /\ t.role = s.role /\ t.current_term = s.current_term
      /\ t.match_index = s.match_index /\ t.leader_id = s.leader_id /\ t.next_index = s.next_index
      /\ t.acked_since_check = s.acked_since_check /\ t.snapshot_inflight = s.snapshot_inflight
      /\ (granted /\ ~m.pre_vote) => t.voted_for = m.from
      /\ ~(granted /\ ~m.pre_vote) => t = s
  BY <1>4 DEF Struct, Fields, LogSame
<1> HIDE DEF t
<1>6. Shape(t)
  <2>1. /\ s.leader_id \in Member \cup {None} /\ s.acked_since_check \subseteq Member
        /\ s.next_index \in [Member -> Nat \ {0}] /\ s.match_index \in [Member -> Nat]
        /\ s.snapshot_inflight \in [Member -> Nat]
        /\ s.role = "Leader" => \A p \in Member : /\ s.next_index[p] <= last_index(s) + 1
                                                  /\ s.match_index[p] <= last_index(s)
                                                  /\ s.snapshot_inflight[p] <= s.base_index
    BY <1>4 DEF Shape
  <2> QED
    BY <1>4, <1>5, <2>1, LogSameShape
<1>7. LogSame(r, t)
  BY <1>4, <1>5 DEF LogSame
<1>8. Ballot(i, r, t)
  <2>1. CASE granted /\ ~m.pre_vote
    <3>1. m.term = s.current_term /\ log_ok(s, m)
      BY <2>1 DEF grants_vote
    <3>2. last_index(s) = last_index(r) /\ last_term(s) = last_term(r)
      BY <1>4, LogSameReads
    <3>3. log_ok(r, m)
      BY <3>1, <3>2 DEF log_ok
    <3> QED
      BY <1>5, <2>1, <3>1, <3>3 DEF Ballot
  <2>2. CASE ~(granted /\ ~m.pre_vote)
    BY <1>1, <1>4, <1>5, <2>2, OldBallot
  <2> QED
    BY <2>1, <2>2
<1>9. /\ t.role = "Leader" => r.role = "Leader" /\ t.current_term = r.current_term /\ t.match_index = r.match_index
      /\ t.role = "Candidate" => r.role = "Candidate" /\ t.current_term = r.current_term
  BY <1>4, <1>5
<1>10. Sends(t, resp)
  BY <1>3 DEF Sends
<1>11. LogGood(i, r, res)
  BY <1>1, <1>2, <1>6, <1>7, <1>8, <1>9, <1>10, KeepGood
<1> QED
  BY <1>11 DEF res

\* A tallied vote may make a leader.
LEMMA VoteRespLog ==
    ASSUME ElectionInv, LogInv, NEW m \in msgs
    PROVE  LogGood(m.to, raft[m.to], handle_vote_resp(m.to, raft[m.to], m))
<1> DEFINE i == m.to
           r == raft[m.to]
           s == [r EXCEPT !.votes = @ \cup {m.from}]
           res == handle_vote_resp(i, r, m)
           pre == m.granted /\ m.pre_vote /\ r.role = "PreCandidate"
           vote == m.granted /\ ~m.pre_vote /\ r.role = "Candidate" /\ m.term = r.current_term
<1>1. i \in Member /\ m.from \in Member /\ m.term \in Nat /\ Struct(r) /\ MemberLog(i) /\ Shape(r)
  BY DEF ElectionInv, BallotsInv, Envelope, MemberInv, LogInv, MemberLog
<1>2. /\ s.role = r.role /\ s.current_term = r.current_term /\ s.voted_for = r.voted_for
      /\ s.votes = r.votes \cup {m.from}
      /\ s.match_index = r.match_index /\ s.leader_id = r.leader_id /\ s.next_index = r.next_index
      /\ s.acked_since_check = r.acked_since_check /\ s.snapshot_inflight = r.snapshot_inflight
      /\ LogSame(r, s)
  BY <1>1 DEF Struct, Fields, LogSame
<1>3. s = [f \in Fields |-> s[f]]
  BY <1>1 DEF Struct, Fields
<1>4. CASE m.term > r.current_term
  <2>1. res = Nothing(become_follower(r, m.term, None))
    BY <1>4 DEF handle_vote_resp
  <2>2. res.st = become_follower(r, m.term, None) /\ res.out = {}
    BY <2>1 DEF Nothing, Result
  <2> QED
    BY <1>1, <2>2, FollowGood
<1>5. CASE ~(m.term > r.current_term) /\ pre
  <2>1. res = maybe_win_pre_election(i, s)
    BY <1>5 DEF handle_vote_resp
  <2> HIDE DEF s
  <2>2. Struct(s) /\ Shape(s)
    <3>1. Struct(s)
      BY <1>1, <1>2, <1>3 DEF Struct
    <3>2. /\ r.leader_id \in Member \cup {None} /\ r.acked_since_check \subseteq Member
          /\ r.next_index \in [Member -> Nat \ {0}] /\ r.match_index \in [Member -> Nat]
          /\ r.snapshot_inflight \in [Member -> Nat] /\ s.role # "Leader"
      BY <1>1, <1>2, <1>5 DEF Shape
    <3> QED
      BY <1>1, <1>2, <3>1, <3>2, LogSameShape
  <2>3. res = Nothing(s) \/ Candidacy(i, s, res)
    BY <1>1, <1>2, <1>5, <2>1, <2>2, PreElectionLog
  <2>4. CASE res = Nothing(s)
    <3>1. res.st = s /\ res.out = {}
      BY <2>4 DEF Nothing, Result
    <3>2. Ballot(i, r, s)
      BY <1>1, <1>2, OldBallot
    <3> HIDE DEF res
    <3>3. LogGood(i, r, res)
      BY <1>1, <1>2, <1>5, <2>2, <3>1, <3>2, KeepGood
    <3> QED
      BY <3>3 DEF res
  <2>5. CASE Candidacy(i, s, res)
    BY <1>1, <1>2, <2>5, CandidacyGood
  <2> QED
    BY <2>3, <2>4, <2>5
<1>6. CASE ~(m.term > r.current_term) /\ vote
  <2>1. res = maybe_win_election(i, s)
    BY <1>6 DEF handle_vote_resp
  <2> HIDE DEF s
  <2>2. Struct(s) /\ Shape(s)
    <3>1. Struct(s)
      BY <1>1, <1>2, <1>3 DEF Struct
    <3>2. /\ r.leader_id \in Member \cup {None} /\ r.acked_since_check \subseteq Member
          /\ r.next_index \in [Member -> Nat \ {0}] /\ r.match_index \in [Member -> Nat]
          /\ r.snapshot_inflight \in [Member -> Nat] /\ s.role # "Leader"
      BY <1>1, <1>2, <1>6 DEF Shape
    <3> QED
      BY <1>1, <1>2, <3>1, <3>2, LogSameShape
  <2>3. s.current_term > 0
    BY <1>1, <1>2, <1>6 DEF MemberLog
  <2>4. Won(s, res.st) /\ \A x \in res.out : Sends(res.st, x)
    BY <1>1, <2>1, <2>2, <2>3, WinLog
  <2>5. Ballot(i, r, res.st)
    <3>1. res.st.voted_for = r.voted_for /\ res.st.current_term = r.current_term
      BY <1>2, <2>4 DEF Won
    <3> QED
      BY <1>1, <3>1, OldBallot
  <2> HIDE DEF res
  <2>6. CASE res.st = s
    <3>1. LogGood(i, r, res)
      BY <1>1, <1>2, <1>6, <2>2, <2>4, <2>5, <2>6, KeepGood
    <3> QED
      BY <3>1 DEF res
  <2>7. CASE res.st # s
    <3>1. res.st.role = "Leader"
      BY <2>4, <2>7 DEF Won
    <3>2. LogGood(i, r, res)
      BY <1>1, <1>2, <1>6, <2>4, <2>5, <3>1, LeadGood
    <3> QED
      BY <3>2 DEF res
  <2> QED
    BY <2>6, <2>7
<1>7. CASE ~(m.term > r.current_term) /\ ~pre /\ ~vote
  <2>1. res = Nothing(r)
    BY <1>7 DEF handle_vote_resp
  <2>2. res.st = r /\ res.out = {}
    BY <2>1 DEF Nothing, Result
  <2> QED
    BY <1>1, <2>2, StayGood
<1> QED
  BY <1>4, <1>5, <1>6, <1>7

----------------------------------------------------------------------------
(* A leader counts.                                                        *)

\* s is the leader r, as counted after an acknowledgement or a proposal.
Counted(i, r, s) ==
    /\ Struct(s) /\ Shape(s) /\ s.role = "Leader" /\ History(s) = History(r)
    /\ s.current_term = r.current_term /\ s.voted_for = r.voted_for
    /\ Counts(i, s) /\ s.commit_index >= r.commit_index
    /\ \/ s.commit_index = r.commit_index
       \/ /\ s.commit_index > 0
          /\ History(s)[s.commit_index].term = s.current_term
          /\ \E Q \in SUBSET Member :
                Majority(Q) /\ \A j \in Q : j = i \/ Acked(s.current_term, j, s.commit_index)

\* maybe_advance_commit commits only what a majority has acknowledged in this term.
LEMMA AdvanceLog ==
    ASSUME NEW i \in Member, NEW r, Struct(r), Shape(r), r.role = "Leader", Counts(i, r)
    PROVE  Counted(i, r, maybe_advance_commit(i, r))
<1> DEFINE C == committable(i, r)
           n == Max(C)
           s == maybe_advance_commit(i, r)
           H == History(r)
<1>1. /\ r.commit_index \in Nat /\ r.base_index \in Nat /\ last_index(r) \in Nat
      /\ r.base_index <= r.commit_index /\ r.commit_index <= last_index(r) /\ Len(H) = last_index(r)
  BY HistoryAt DEF Shape
<1>2. /\ s.log = r.log /\ s.base_index = r.base_index /\ s.base_term = r.base_term
      /\ s.snapshot = r.snapshot /\ s.leader_id = r.leader_id
      /\ s.acked_since_check = r.acked_since_check /\ s.next_index = r.next_index
      /\ s.match_index = r.match_index /\ s.snapshot_inflight = r.snapshot_inflight
      /\ s.current_term = r.current_term /\ s.role = r.role /\ s.voted_for = r.voted_for
      /\ s.commit_index = IF C = {} THEN r.commit_index ELSE n
  BY DEF maybe_advance_commit, Struct, Fields
<1>3. Struct(s)
  BY DEF maybe_advance_commit, Struct, Fields
<1> HIDE DEF s
<1>4. History(s) = H /\ last_index(s) = last_index(r)
  BY <1>2 DEF History, last_index
<1>5. Counts(i, s)
  BY <1>2 DEF Counts
<1>6. CASE C = {}
  <2>1. Shape(s)
    BY <1>2, <1>4, <1>6 DEF Shape
  <2> QED
    BY <1>1, <1>2, <1>3, <1>4, <1>5, <1>6, <2>1 DEF Counted, s
<1>7. CASE C # {}
  <2>1. C \in SUBSET Nat /\ \A x \in C : x <= last_index(r)
    BY <1>1 DEF committable
  <2>2. n \in C
    BY <1>1, <1>7, <2>1, GreatestOf
  <2>3. /\ n \in r.commit_index + 1 .. last_index(r) /\ term_at(r, n) = r.current_term
        /\ Cardinality({p \in peers(i) : r.match_index[p] >= n}) + 1 >= quorum
    BY <2>2 DEF committable
  <2> HIDE DEF n, C
  <2>4. n \in Nat /\ n > r.commit_index /\ n <= last_index(r) /\ n > 0 /\ r.base_index <= n
    BY <1>1, <2>3
  <2>5. Shape(s)
    BY <1>1, <1>2, <1>4, <1>7, <2>4 DEF Shape
  <2>6. H[n].term = r.current_term
    BY <2>3, <2>4, TermAt DEF H
  <2> DEFINE P == {p \in peers(i) : r.match_index[p] >= n}
             Q == P \cup {i}
  <2>7. Majority(Q)
    <3>1. P \subseteq Member /\ i \notin P
      BY DEF peers
    <3>2. IsFiniteSet(P)
      BY <3>1, MemberAssumption, FS_Subset
    <3>3. Cardinality(P) + 1 >= quorum
      BY <2>3
    <3> HIDE DEF P
    <3>4. Cardinality(Q) = Cardinality(P) + 1
      BY <3>1, <3>2, FS_AddElement
    <3> QED
      BY <3>1, <3>3, <3>4 DEF Majority
  <2>8. ASSUME NEW j \in Q PROVE j = i \/ Acked(r.current_term, j, n)
    <3>1. CASE j \in P
      <4>1. j \in peers(i) /\ j \in Member /\ r.match_index[j] >= n
        BY <3>1 DEF peers
      <4>2. r.match_index[j] \in Nat
        BY <4>1 DEF Shape
      <4>3. r.match_index[j] # 0
        BY <2>4, <4>1, <4>2
      <4>4. Acked(r.current_term, j, r.match_index[j])
        BY <4>1, <4>3 DEF Counts
      <4> QED
        BY <2>4, <4>1, <4>2, <4>4 DEF Acked
    <3> QED
      BY <2>8, <3>1
  <2>9. Q \in SUBSET Member
    BY DEF peers
  <2> HIDE DEF P, Q, H
  <2>10. s.commit_index = n
    BY <1>2, <1>7
  <2>11. s.commit_index >= r.commit_index /\ s.commit_index > 0
    BY <1>1, <2>4, <2>10
  <2>12. History(s)[s.commit_index].term = s.current_term
    BY <1>2, <1>4, <2>6, <2>10
  <2>13. \E W \in SUBSET Member : Majority(W) /\ \A j \in W : j = i \/ Acked(s.current_term, j, s.commit_index)
    BY <1>2, <2>7, <2>8, <2>9, <2>10
  <2>14. Counted(i, r, s)
    BY <1>2, <1>3, <1>4, <1>5, <2>5, <2>11, <2>12, <2>13 DEF Counted, H
  <2> QED
    BY <2>14 DEF s
<1> QED
  BY <1>6, <1>7


\* A leader that keeps its log or appends to it, and commits by counting, is good.
LEMMA LeaderGood ==
    ASSUME NEW i \in Member, MemberLog(i), Struct(raft[i]), raft[i].role = "Leader",
           NEW q, History(q) = History(raft[i])
                     \/ Appended(History(raft[i]), History(q), raft[i].current_term),
           q.current_term = raft[i].current_term, q.voted_for = raft[i].voted_for,
           q.commit_index = raft[i].commit_index,
           NEW t, Counted(i, q, t), NEW res, res.st = t \/ Sent(t, res.st),
           \A m \in res.out : Sends(res.st, m)
    PROVE  LogGood(i, raft[i], res)
<1> DEFINE r == raft[i]
           s == res.st
<1>1. /\ Shape(s) /\ s.role = "Leader" /\ History(s) = History(q) /\ s.commit_index = t.commit_index
      /\ s.current_term = r.current_term /\ s.voted_for = r.voted_for /\ s.match_index = t.match_index
  <2>1. CASE s = t
    BY <2>1 DEF Counted
  <2>2. CASE Sent(t, s)
    <3>1. History(s) = History(t) /\ s.commit_index = t.commit_index
      BY <2>2, LogSameReads DEF Sent
    <3> QED
      BY <2>2, <3>1 DEF Sent, Counted
  <2> QED
    BY <2>1, <2>2
<1>2. Shape(r) /\ r.commit_index \in Nat /\ r.commit_index <= last_index(r)
  BY DEF MemberLog, Shape
<1>3. /\ s.commit_index >= r.commit_index
      /\ \/ s.commit_index = r.commit_index
         \/ /\ s.commit_index > 0
            /\ History(s)[s.commit_index].term = s.current_term
            /\ \E Q \in SUBSET Member :
                Majority(Q) /\ \A j \in Q : j = i \/ Acked(s.current_term, j, s.commit_index)
  BY <1>1 DEF Counted
<1>4. Ballot(i, r, s)
  BY <1>1, OldBallot
<1>5. Counts(i, s)
  BY <1>1 DEF Counts, Counted
<1>6. Agree(History(s), History(r), r.commit_index)
  <2> DEFINE G == History(r)
             H == History(s)
  <2>1. G \in Seq(Entry) /\ Len(G) = last_index(r)
    BY <1>2, HistoryAt
  <2>2. H = G \/ \E e \in Entry : H = Append(G, e)
    BY <1>1 DEF Appended
  <2> HIDE DEF G, H
  <2>3. Len(G) \in Nat /\ Len(H) >= Len(G) /\ Len(H) \in Nat /\ \A k \in 1 .. Len(G) : H[k] = G[k]
    BY <2>1, <2>2
  <2>4. Agree(H, G, r.commit_index)
    BY <1>2, <2>1, <2>3 DEF Agree
  <2> QED
    BY <2>4 DEF G, H
<1> HIDE DEF r, s
<1>7. Evolves(r, s)
  <2>1. CASE History(q) = History(r)
    BY <1>1, <2>1 DEF Evolves, r
  <2>2. CASE Appended(History(r), History(q), r.current_term)
    BY <1>1, <2>2 DEF Evolves, r
  <2> QED
    BY <2>1, <2>2 DEF r
<1>8. Commits(i, r, s)
  BY <1>1, <1>3, <1>6 DEF Commits
<1> QED
  BY <1>1, <1>4, <1>5, <1>7, <1>8 DEF LogGood, r, s

\* Recording an acknowledgement, and the commit it may bring.
LEMMA AcknowledgeLog ==
    ASSUME NEW i \in Member, MemberLog(i), Struct(raft[i]), raft[i].role = "Leader",
           NEW q, Struct(q), Shape(q), LogSame(raft[i], q), q.role = "Leader",
           q.current_term = raft[i].current_term, q.voted_for = raft[i].voted_for,
           q.match_index = raft[i].match_index,
           NEW p \in Member, NEW n \in Nat, n <= last_index(q), Acked(q.current_term, p, n)
    PROVE  LogGood(i, raft[i], acknowledge(i, q, p, n))
<1> DEFINE r == raft[i]
           matched == MaxOf(n, q.match_index[p])
           s == [q EXCEPT !.match_index[p] = matched, !.next_index[p] = matched + 1]
           t == maybe_advance_commit(i, s)
           res == acknowledge(i, q, p, n)
<1>1. /\ LogSame(q, s) /\ s.role = q.role /\ s.current_term = q.current_term /\ s.voted_for = q.voted_for
      /\ s.leader_id = q.leader_id /\ s.acked_since_check = q.acked_since_check
      /\ s.snapshot_inflight = q.snapshot_inflight
      /\ s.match_index = [q.match_index EXCEPT ![p] = matched]
      /\ s.next_index = [q.next_index EXCEPT ![p] = matched + 1]
  BY DEF Struct, Fields, LogSame
<1>2. Struct(s)
  BY DEF Struct, Fields
<1>3. res = IF t.commit_index > s.commit_index THEN broadcast_append(i, t) ELSE Nothing(t)
  BY DEF acknowledge
<1> HIDE DEF s, res
<1>4. /\ q.leader_id \in Member \cup {None} /\ q.acked_since_check \subseteq Member
      /\ q.next_index \in [Member -> Nat \ {0}] /\ q.match_index \in [Member -> Nat]
      /\ q.snapshot_inflight \in [Member -> Nat]
      /\ \A x \in Member : /\ q.next_index[x] <= last_index(q) + 1
                           /\ q.match_index[x] <= last_index(q)
                           /\ q.snapshot_inflight[x] <= q.base_index
  BY DEF Shape
<1>5. last_index(q) \in Nat
  BY HistoryAt
<1>6. matched \in Nat /\ matched <= last_index(q) /\ matched + 1 <= last_index(q) + 1
  BY <1>4, <1>5 DEF MaxOf
<1>7. matched = 0 \/ Acked(q.current_term, p, matched) \/ matched = q.match_index[p]
  BY DEF MaxOf
<1> HIDE DEF matched
<1>8. Shape(s)
  <2>1. s.match_index \in [Member -> Nat] /\ s.next_index \in [Member -> Nat \ {0}]
    BY <1>1, <1>4, <1>6
  <2>2. \A x \in Member : s.next_index[x] <= last_index(q) + 1 /\ s.match_index[x] <= last_index(q)
    BY <1>1, <1>4, <1>6
  <2> QED
    BY <1>1, <1>4, <2>1, <2>2, LogSameShape
<1>9. Counts(i, s)
  <2>1. \A x \in peers(i) : q.match_index[x] = 0 \/ Acked(q.current_term, x, q.match_index[x])
    BY DEF MemberLog
  <2>2. ASSUME NEW x \in peers(i) PROVE s.match_index[x] = 0 \/ Acked(s.current_term, x, s.match_index[x])
    <3>1. x \in Member
      BY DEF peers
    <3>2. CASE x = p
      BY <1>1, <1>4, <1>7, <2>1, <3>1, <3>2
    <3>3. CASE x # p
      BY <1>1, <1>4, <2>1, <3>1, <3>3
    <3> QED
      BY <3>2, <3>3
  <2> QED
    BY <2>2 DEF Counts
<1>10. Counted(i, s, t)
  BY <1>1, <1>2, <1>8, <1>9, AdvanceLog
<1>11. History(s) = History(r) /\ s.commit_index = r.commit_index
  <2>1. LogSame(r, s)
    BY <1>1 DEF LogSame
  <2> QED
    BY <2>1, LogSameReads
<1> HIDE DEF t
<1>12. (res.st = t \/ Sent(t, res.st)) /\ \A m \in res.out : Sends(res.st, m)
  <2>1. CASE t.commit_index > s.commit_index
    <3>1. res = broadcast_append(i, t)
      BY <1>3, <2>1
    <3> QED
      BY <1>10, <3>1, BroadcastLog DEF Counted
  <2>2. CASE ~(t.commit_index > s.commit_index)
    BY <1>3, <2>2 DEF Nothing, Result
  <2> QED
    BY <2>1, <2>2
<1>13. LogGood(i, r, res)
  BY <1>1, <1>10, <1>11, <1>12, LeaderGood
<1> QED
  BY <1>13 DEF res

\* A rewind lowers one next index, never below 1, and sends at most one true append.
LEMMA RewindLog ==
    ASSUME NEW i \in Member, MemberLog(i), Struct(raft[i]), raft[i].role = "Leader",
           NEW q, Struct(q), Shape(q), LogSame(raft[i], q), q.role = "Leader",
           q.current_term = raft[i].current_term, q.voted_for = raft[i].voted_for,
           q.match_index = raft[i].match_index,
           NEW p \in Member, NEW hint \in Nat
    PROVE  LogGood(i, raft[i], rewind(i, q, p, hint))
<1> DEFINE r == raft[i]
           previous == q.next_index[p]
           next == MinOf(hint + 1, MaxOf(previous - 1, 1))
           s == [q EXCEPT !.next_index[p] = next]
           res == rewind(i, q, p, hint)
<1>1. /\ LogSame(q, s) /\ s.role = q.role /\ s.current_term = q.current_term /\ s.voted_for = q.voted_for
      /\ s.leader_id = q.leader_id /\ s.acked_since_check = q.acked_since_check
      /\ s.snapshot_inflight = q.snapshot_inflight
      /\ s.match_index = q.match_index
      /\ s.next_index = [q.next_index EXCEPT ![p] = next]
  BY DEF Struct, Fields, LogSame
<1>2. Struct(s)
  BY DEF Struct, Fields
<1>3. res = IF next < previous THEN send_append(i, s, {p}) ELSE Nothing(q)
  BY DEF rewind
<1> HIDE DEF s, res
<1>4. CASE next < previous
  <2>1. /\ q.leader_id \in Member \cup {None} /\ q.acked_since_check \subseteq Member
        /\ q.next_index \in [Member -> Nat \ {0}] /\ q.match_index \in [Member -> Nat]
        /\ q.snapshot_inflight \in [Member -> Nat]
        /\ \A x \in Member : /\ q.next_index[x] <= last_index(q) + 1
                             /\ q.match_index[x] <= last_index(q)
                             /\ q.snapshot_inflight[x] <= q.base_index
    BY DEF Shape
  <2>2. last_index(q) \in Nat
    BY HistoryAt
  <2>3. next \in Nat \ {0}
    BY <2>1 DEF MinOf, MaxOf
  <2>4. next <= last_index(q) + 1
    <3>1. previous \in Nat /\ previous <= last_index(q) + 1
      BY <2>1
    <3> HIDE DEF next, previous
    <3> QED
      BY <1>4, <2>2, <2>3, <3>1
  <2> HIDE DEF next
  <2>5. s.next_index \in [Member -> Nat \ {0}] /\ \A x \in Member : s.next_index[x] <= last_index(q) + 1
    BY <1>1, <2>1, <2>3, <2>4
  <2>6. Shape(s)
    BY <1>1, <2>1, <2>5, LogSameShape
  <2>7. Sent(s, res.st) /\ \A m \in res.out : Sends(res.st, m)
    BY <1>1, <1>2, <1>3, <1>4, <2>6, SendLog
  <2>8. LogSame(r, res.st) /\ Shape(res.st) /\ res.st.match_index = r.match_index
        /\ res.st.current_term = r.current_term /\ res.st.voted_for = r.voted_for /\ res.st.role = "Leader"
    BY <1>1, <2>7 DEF Sent, LogSame
  <2>9. Ballot(i, r, res.st)
    BY <2>8, OldBallot
  <2>10. LogGood(i, r, res)
    BY <2>7, <2>8, <2>9, KeepGood
  <2> QED
    BY <2>10 DEF res
<1>5. CASE ~(next < previous)
  <2>1. res.st = q /\ res.out = {}
    BY <1>3, <1>5 DEF Nothing, Result
  <2>2. Ballot(i, r, q)
    BY OldBallot
  <2>3. LogGood(i, r, res)
    BY <2>1, <2>2, KeepGood
  <2> QED
    BY <2>3 DEF res
<1> QED
  BY <1>4, <1>5

\* Hearing from a peer changes acked_since_check only.
LEMMA HeardShape ==
    ASSUME NEW r, Struct(r), Shape(r), NEW p \in Member
    PROVE  LET s == [r EXCEPT !.acked_since_check = @ \cup {p}] IN
           /\ Struct(s) /\ Shape(s) /\ LogSame(r, s) /\ s.role = r.role
           /\ s.current_term = r.current_term /\ s.voted_for = r.voted_for
           /\ s.match_index = r.match_index /\ s.next_index = r.next_index
           /\ s.snapshot_inflight = r.snapshot_inflight
<1> DEFINE s == [r EXCEPT !.acked_since_check = @ \cup {p}]
<1>1. /\ LogSame(r, s) /\ s.role = r.role /\ s.current_term = r.current_term /\ s.voted_for = r.voted_for
      /\ s.leader_id = r.leader_id /\ s.acked_since_check = r.acked_since_check \cup {p}
      /\ s.match_index = r.match_index /\ s.next_index = r.next_index
      /\ s.snapshot_inflight = r.snapshot_inflight
  BY DEF Struct, Fields, LogSame
<1>2. Struct(s)
  BY DEF Struct, Fields
<1> HIDE DEF s
<1>3. /\ r.leader_id \in Member \cup {None} /\ r.acked_since_check \cup {p} \subseteq Member
      /\ r.next_index \in [Member -> Nat \ {0}] /\ r.match_index \in [Member -> Nat]
      /\ r.snapshot_inflight \in [Member -> Nat]
      /\ r.role = "Leader" => \A x \in Member : /\ r.next_index[x] <= last_index(r) + 1
                                                /\ r.match_index[x] <= last_index(r)
                                                /\ r.snapshot_inflight[x] <= r.base_index
  BY DEF Shape
<1>4. Shape(s)
  BY <1>1, <1>3, LogSameShape
<1> QED
  BY <1>1, <1>2, <1>4 DEF s

\* An answer to an append counts what its sender acknowledged, or rewinds.
LEMMA AppendRespLog ==
    ASSUME ElectionInv, LogInv, NEW m \in msgs, m.type = "AppendEntriesResp"
    PROVE  LogGood(m.to, raft[m.to], handle_append_resp(m.to, raft[m.to], m))
<1> DEFINE i == m.to
           r == raft[m.to]
           s == [r EXCEPT !.acked_since_check = @ \cup {m.from}]
           n == MinOf(m.match_index, last_index(s))
           res == handle_append_resp(i, r, m)
<1>1. i \in Member /\ m.from \in Member /\ m.term \in Nat /\ Struct(r) /\ MemberLog(i) /\ Shape(r)
  BY DEF ElectionInv, BallotsInv, Envelope, MemberInv, LogInv, MemberLog
<1>2. /\ Struct(s) /\ Shape(s) /\ LogSame(r, s) /\ s.role = r.role
      /\ s.current_term = r.current_term /\ s.voted_for = r.voted_for
      /\ s.match_index = r.match_index
  BY <1>1, HeardShape
<1>3. MessageOK(m)
  BY DEF LogInv
<1>4. CASE m.term > r.current_term
  <2>1. res.st = become_follower(r, m.term, None) /\ res.out = {}
    BY <1>4 DEF handle_append_resp, Nothing, Result
  <2> QED
    BY <1>1, <2>1, FollowGood
<1>5. CASE ~(m.term > r.current_term) /\ (r.role # "Leader" \/ m.term # r.current_term)
  <2>1. res.st = r /\ res.out = {}
    BY <1>5 DEF handle_append_resp, Nothing, Result
  <2> QED
    BY <1>1, <2>1, StayGood
<1>6. CASE r.role = "Leader" /\ m.term = r.current_term /\ m.success
  <2>1. ~(m.term > r.current_term)
    BY <1>1, <1>6
  <2>2. res = acknowledge(i, s, m.from, n)
    BY <1>6, <2>1 DEF handle_append_resp
  <2>3. m.match_index \in Nat /\ <<m.term, m.from, m.match_index>> \in acked
    BY <1>3, <1>6 DEF MessageOK
  <2> HIDE DEF s, res
  <2>4. last_index(s) \in Nat
    BY <1>2, HistoryAt
  <2>5. n \in Nat /\ n <= last_index(s) /\ n <= m.match_index
    BY <2>3, <2>4 DEF MinOf
  <2> HIDE DEF n
  <2>6. Acked(s.current_term, m.from, n)
    BY <1>2, <1>6, <2>3, <2>5 DEF Acked
  <2>7. LogGood(i, r, res)
    BY <1>1, <1>2, <1>6, <2>2, <2>5, <2>6, AcknowledgeLog
  <2> QED
    BY <2>7 DEF res
<1>7. CASE r.role = "Leader" /\ m.term = r.current_term /\ ~m.success
  <2>1. ~(m.term > r.current_term)
    BY <1>1, <1>7
  <2>2. res = rewind(i, s, m.from, m.match_index)
    BY <1>7, <2>1 DEF handle_append_resp
  <2>3. m.match_index \in Nat
    BY <1>3, <1>7 DEF MessageOK
  <2> HIDE DEF s, res
  <2>4. LogGood(i, r, res)
    BY <1>1, <1>2, <1>7, <2>2, <2>3, RewindLog
  <2> QED
    BY <2>4 DEF res
<1> QED
  BY <1>4, <1>5, <1>6, <1>7

\* An answer to a snapshot counts no more than the snapshot that was sent.
LEMMA InstallRespLog ==
    ASSUME ElectionInv, LogInv, NEW m \in msgs, m.type = "InstallSnapshotResp"
    PROVE  LogGood(m.to, raft[m.to], handle_install_snapshot_resp(m.to, raft[m.to], m))
<1> DEFINE i == m.to
           r == raft[m.to]
           s == [r EXCEPT !.acked_since_check = @ \cup {m.from}]
           t == [s EXCEPT !.snapshot_inflight[m.from] = 0]
           sent == r.snapshot_inflight[m.from]
           n == MinOf(m.last_included_index, sent)
           res == handle_install_snapshot_resp(i, r, m)
<1>1. i \in Member /\ m.from \in Member /\ m.term \in Nat /\ Struct(r) /\ MemberLog(i) /\ Shape(r)
  BY DEF ElectionInv, BallotsInv, Envelope, MemberInv, LogInv, MemberLog
<1>2. /\ Struct(s) /\ Shape(s) /\ LogSame(r, s) /\ s.role = r.role
      /\ s.current_term = r.current_term /\ s.voted_for = r.voted_for
      /\ s.match_index = r.match_index /\ s.snapshot_inflight = r.snapshot_inflight
  BY <1>1, HeardShape
<1>3. MessageOK(m)
  BY DEF LogInv
<1>4. CASE m.term > r.current_term
  <2>1. res.st = become_follower(r, m.term, None) /\ res.out = {}
    BY <1>4 DEF handle_install_snapshot_resp, Nothing, Result
  <2> QED
    BY <1>1, <2>1, FollowGood
<1>5. CASE ~(m.term > r.current_term) /\ (r.role # "Leader" \/ m.term # r.current_term)
  <2>1. res.st = r /\ res.out = {}
    BY <1>5 DEF handle_install_snapshot_resp, Nothing, Result
  <2> QED
    BY <1>1, <2>1, StayGood
<1>6. CASE r.role = "Leader" /\ m.term = r.current_term /\ m.success
  <2>1. ~(m.term > r.current_term)
    BY <1>1, <1>6
  <2>2. res = acknowledge(i, t, m.from, n)
    BY <1>6, <2>1 DEF handle_install_snapshot_resp
  <2>3. m.last_included_index \in Nat /\ <<m.term, m.from, m.last_included_index>> \in acked
    BY <1>3, <1>6 DEF MessageOK
  <2> HIDE DEF s, res
  <2>4. /\ LogSame(s, t) /\ t.role = s.role /\ t.current_term = s.current_term /\ t.voted_for = s.voted_for
        /\ t.leader_id = s.leader_id /\ t.acked_since_check = s.acked_since_check
        /\ t.match_index = s.match_index /\ t.next_index = s.next_index
        /\ t.snapshot_inflight = [s.snapshot_inflight EXCEPT ![m.from] = 0]
    BY <1>2 DEF Struct, Fields, LogSame
  <2>5. Struct(t)
    BY <1>2 DEF Struct, Fields
  <2> HIDE DEF t
  <2>6. /\ s.leader_id \in Member \cup {None} /\ s.acked_since_check \subseteq Member
        /\ s.next_index \in [Member -> Nat \ {0}] /\ s.match_index \in [Member -> Nat]
        /\ s.snapshot_inflight \in [Member -> Nat]
        /\ \A x \in Member : /\ s.next_index[x] <= last_index(s) + 1
                             /\ s.match_index[x] <= last_index(s)
                             /\ s.snapshot_inflight[x] <= s.base_index
    BY <1>2, <1>6 DEF Shape
  <2>7. last_index(s) \in Nat /\ s.base_index \in Nat /\ s.base_index <= last_index(s)
    BY <1>2, HistoryAt DEF last_index
  <2>8. /\ t.snapshot_inflight \in [Member -> Nat]
        /\ \A x \in Member : t.snapshot_inflight[x] <= s.base_index
    <3>1. t.snapshot_inflight \in [Member -> Nat]
      <4> DEFINE f == s.snapshot_inflight
      <4>1. f \in [Member -> Nat] /\ t.snapshot_inflight = [f EXCEPT ![m.from] = 0]
        BY <2>4, <2>6
      <4> HIDE DEF f
      <4> QED
        BY <1>1, <4>1
    <3>2. \A x \in Member : t.snapshot_inflight[x] = 0 \/ t.snapshot_inflight[x] = s.snapshot_inflight[x]
      BY <2>4, <2>6
    <3>3. 0 <= s.base_index
      BY <2>7
    <3> QED
      BY <2>6, <3>1, <3>2, <3>3
  <2>9. Shape(t)
    BY <1>2, <2>4, <2>6, <2>8, LogSameShape
  <2>10. LogSame(r, t) /\ last_index(t) = last_index(s)
    BY <1>2, <2>4, LogSameReads DEF LogSame
  <2>11. n \in Nat /\ n <= last_index(t) /\ n <= m.last_included_index
    <3>1. sent \in Nat /\ sent <= s.base_index
      BY <1>1, <1>2, <2>6
    <3> HIDE DEF sent
    <3>2. n \in Nat /\ n <= sent /\ n <= m.last_included_index
      BY <2>3, <3>1 DEF MinOf
    <3> HIDE DEF n
    <3> QED
      BY <2>7, <2>10, <3>1, <3>2
  <2> HIDE DEF n
  <2>12. Acked(t.current_term, m.from, n)
    BY <1>2, <1>6, <2>3, <2>4, <2>11 DEF Acked
  <2>13. LogGood(i, r, res)
    BY <1>1, <1>2, <1>6, <2>2, <2>4, <2>5, <2>9, <2>10, <2>11, <2>12, AcknowledgeLog
  <2> QED
    BY <2>13 DEF res
<1>7. CASE r.role = "Leader" /\ m.term = r.current_term /\ ~m.success
  <2>1. ~(m.term > r.current_term)
    BY <1>1, <1>7
  <2>2. res.st = s /\ res.out = {}
    BY <1>7, <2>1 DEF handle_install_snapshot_resp, Nothing, Result
  <2> HIDE DEF s, res
  <2>3. Ballot(i, r, s)
    BY <1>1, <1>2, OldBallot
  <2>4. LogGood(i, r, res)
    BY <1>1, <1>2, <1>7, <2>2, <2>3, KeepGood
  <2> QED
    BY <2>4 DEF res
<1> QED
  BY <1>4, <1>5, <1>6, <1>7

\* A heartbeat sends true appends.
LEMMA HeartbeatLog ==
    ASSUME ElectionInv, LogInv, NEW i \in Member, raft[i].role = "Leader"
    PROVE  LogGood(i, raft[i], broadcast_append(i, raft[i]))
<1> DEFINE r == raft[i]
           res == broadcast_append(i, r)
<1>1. Struct(r) /\ MemberLog(i) /\ Shape(r)
  BY DEF ElectionInv, MemberInv, LogInv, MemberLog
<1>2. Sent(r, res.st) /\ \A m \in res.out : Sends(res.st, m)
  BY <1>1, BroadcastLog
<1> HIDE DEF res
<1>3. Ballot(i, r, res.st)
  BY <1>1, <1>2, OldBallot DEF Sent
<1>4. LogGood(i, r, res)
  BY <1>1, <1>2, <1>3, KeepGood DEF Sent
<1> QED
  BY <1>4 DEF res

\* A check of the quorum keeps the log.
LEMMA CheckLog ==
    ASSUME ElectionInv, LogInv, NEW i \in Member, raft[i].role = "Leader"
    PROVE  LET r == raft[i]
               s == [r EXCEPT !.acked_since_check = {}]
           IN  LogGood(i, r, Nothing(IF Cardinality(r.acked_since_check) + 1 < quorum
                                     THEN become_follower(s, s.current_term, None) ELSE s))
<1> DEFINE r == raft[i]
           s == [r EXCEPT !.acked_since_check = {}]
           f == become_follower(s, s.current_term, None)
           t == IF Cardinality(r.acked_since_check) + 1 < quorum THEN f ELSE s
<1>1. Struct(r) /\ MemberLog(i) /\ Shape(r) /\ r.current_term \in Nat
  BY DEF ElectionInv, MemberInv, LogInv, MemberLog, Struct
<1>2. /\ LogSame(r, s) /\ s.role = r.role /\ s.current_term = r.current_term /\ s.voted_for = r.voted_for
      /\ s.leader_id = r.leader_id /\ s.acked_since_check = {}
      /\ s.match_index = r.match_index /\ s.next_index = r.next_index
      /\ s.snapshot_inflight = r.snapshot_inflight
  BY <1>1 DEF Struct, Fields, LogSame
<1>3. Struct(s)
  BY <1>1 DEF Struct, Fields
<1> HIDE DEF s
<1>4. Shape(s)
  <2>1. /\ r.leader_id \in Member \cup {None}
        /\ r.next_index \in [Member -> Nat \ {0}] /\ r.match_index \in [Member -> Nat]
        /\ r.snapshot_inflight \in [Member -> Nat]
        /\ \A x \in Member : /\ r.next_index[x] <= last_index(r) + 1
                             /\ r.match_index[x] <= last_index(r)
                             /\ r.snapshot_inflight[x] <= r.base_index
    BY <1>1 DEF Shape
  <2> QED
    BY <1>1, <1>2, <2>1, LogSameShape
<1>5. /\ Shape(f) /\ LogSame(s, f) /\ f.role = "Follower" /\ f.current_term = s.current_term
      /\ f.voted_for = s.voted_for
  <2>1. MaxOf(s.current_term, s.current_term) = s.current_term /\ ~(s.current_term > s.current_term)
    BY <1>1, <1>2 DEF MaxOf
  <2> QED
    BY <1>1, <1>2, <1>3, <1>4, <2>1, FollowerLog
<1> HIDE DEF f
<1>6. /\ Shape(t) /\ LogSame(r, t) /\ t.voted_for = r.voted_for /\ t.current_term = r.current_term
      /\ t.role # "Candidate" /\ (t.role = "Leader" => t.match_index = r.match_index)
  BY <1>2, <1>4, <1>5 DEF LogSame
<1> HIDE DEF t
<1>7. Ballot(i, r, t)
  BY <1>1, <1>6, OldBallot
<1>8. Nothing(t).st = t /\ Nothing(t).out = {}
  BY DEF Nothing, Result
<1>9. LogGood(i, r, Nothing(t))
  BY <1>1, <1>6, <1>7, <1>8, KeepGood
<1> QED
  BY <1>9 DEF t, f, s

\* A proposal appends an entry of the leader's own term.
LEMMA ProposeLog ==
    ASSUME ElectionInv, LogInv, NEW i \in Member, raft[i].role = "Leader", NEW c \in Command
    PROVE  LET r == raft[i]
               entry == [term |-> r.current_term, index |-> last_index(r) + 1, command |-> c]
           IN  LogGood(i, r, broadcast_append(i, maybe_advance_commit(i, [r EXCEPT !.log = Append(@, entry)])))
<1> DEFINE r == raft[i]
           entry == [term |-> r.current_term, index |-> last_index(r) + 1, command |-> c]
           q == [r EXCEPT !.log = Append(@, entry)]
           t == maybe_advance_commit(i, q)
           res == broadcast_append(i, t)
<1>1. Struct(r) /\ MemberLog(i) /\ Shape(r) /\ r.current_term \in Nat
  BY DEF ElectionInv, MemberInv, LogInv, MemberLog, Struct
<1>2. r.current_term > 0
  <2> DEFINE G == ledger[r.current_term]
  <2>1. r.current_term \in DOMAIN ledger
    BY <1>1 DEF MemberLog, LogInv, LedgerInv
  <2>2. G \in Seq(Entry) /\ Len(G) > 0 /\ G[Len(G)].term = r.current_term
    BY <2>1 DEF LogInv, LedgerInv
  <2> HIDE DEF G
  <2>3. G[Len(G)] \in Entry
    BY <2>2
  <2>4. G[Len(G)].term \in Nat \ {0}
    BY <2>3 DEF Entry
  <2> QED
    BY <2>2, <2>4
<1>3. /\ q.log = Append(r.log, entry) /\ q.base_index = r.base_index /\ q.base_term = r.base_term
      /\ q.snapshot = r.snapshot /\ q.commit_index = r.commit_index
      /\ q.role = r.role /\ q.current_term = r.current_term /\ q.voted_for = r.voted_for
      /\ q.leader_id = r.leader_id /\ q.acked_since_check = r.acked_since_check
      /\ q.match_index = r.match_index /\ q.next_index = r.next_index
      /\ q.snapshot_inflight = r.snapshot_inflight
  BY <1>1 DEF Struct, Fields
<1>4. Struct(q)
  BY <1>1 DEF Struct, Fields
<1> HIDE DEF q
<1>5. last_index(r) \in Nat
  BY <1>1, HistoryAt
<1>6. entry \in Entry /\ entry.term = r.current_term /\ entry.index = last_index(r) + 1
  BY <1>1, <1>2, <1>5 DEF Entry
<1> HIDE DEF entry
<1>7. Shape(q) /\ Appended(History(r), History(q), entry.term)
  <2>1. /\ r.leader_id \in Member \cup {None} /\ r.acked_since_check \subseteq Member
        /\ r.next_index \in [Member -> Nat \ {0}] /\ r.match_index \in [Member -> Nat]
        /\ r.snapshot_inflight \in [Member -> Nat]
        /\ \A x \in Member : /\ r.next_index[x] <= last_index(r) + 1
                             /\ r.match_index[x] <= last_index(r)
                             /\ r.snapshot_inflight[x] <= r.base_index
    BY <1>1 DEF Shape
  <2> QED
    BY <1>1, <1>3, <1>4, <1>6, <2>1, AppendShape
<1>8. Counts(i, q)
  <2>1. \A p \in peers(i) : r.match_index[p] = 0 \/ Acked(r.current_term, p, r.match_index[p])
    BY <1>1 DEF MemberLog
  <2> QED
    BY <1>3, <2>1 DEF Counts
<1>9. Counted(i, q, t)
  BY <1>3, <1>4, <1>7, <1>8, AdvanceLog
<1> HIDE DEF t
<1>10. Sent(t, res.st) /\ \A m \in res.out : Sends(res.st, m)
  BY <1>9, BroadcastLog DEF Counted
<1> HIDE DEF res
<1>11. LogGood(i, r, res)
  BY <1>1, <1>3, <1>6, <1>7, <1>9, <1>10, LeaderGood
<1> QED
  BY <1>11 DEF res, t, q, entry

----------------------------------------------------------------------------
(* A follower takes a leader's entries.                                    *)

\* Two histories of the ledger with an entry of the same index and term agree up to it.
LEMMA SoundAgree ==
    ASSUME NEW H, NEW G, Sound(H, ledger), Sound(G, ledger), NEW n \in Nat \ {0},
           Len(H) \in Nat, Len(G) \in Nat, n <= Len(H), n <= Len(G), H[n].term = G[n].term
    PROVE  Agree(H, G, n)
<1>1. n \in 1 .. Len(H) /\ n \in 1 .. Len(G)
  OBVIOUS
<1>2. Agree(H, ledger[H[n].term], n) /\ Agree(G, ledger[G[n].term], n)
  BY <1>1 DEF Sound
<1> QED
  BY <1>2 DEF Agree

\* Agreement is about a prefix.
LEMMA AgreeLess ==
    ASSUME NEW a, NEW b, NEW n \in Nat, NEW k \in Nat, k <= n, Len(a) \in Nat, Len(b) \in Nat, Agree(a, b, n)
    PROVE  Agree(a, b, k)
  BY DEF Agree

\* What the entries of a true append are, and where they contradict s.
LEMMA EntriesAt ==
    ASSUME NEW s, Shape(s), NEW G \in Seq(Entry), NEW m, AppendOK(m, G),
           \A k \in 1 .. Len(G) : G[k].index = k
    PROVE  /\ m.entries \in Seq(Entry) /\ DOMAIN m.entries = 1 .. Len(m.entries) /\ Len(m.entries) \in Nat
           /\ Len(G) \in Nat
           /\ \A k \in 1 .. Len(m.entries) :
                /\ m.prev_log_index + k \in Nat \ {0} /\ m.prev_log_index + k <= Len(G)
                /\ m.entries[k] = G[m.prev_log_index + k] /\ m.entries[k].index = m.prev_log_index + k
                /\ m.entries[k].term \in Nat \ {0}
                /\ k \in conflicts(s, m) <=>
                     /\ m.prev_log_index + k <= last_index(s)
                     /\ m.prev_log_index + k < s.base_index
                           \/ History(s)[m.prev_log_index + k].term # G[m.prev_log_index + k].term
<1> DEFINE prev == m.prev_log_index
           H == History(s)
<1>1. /\ prev \in Nat /\ m.entries \in Seq(Entry) /\ prev + Len(m.entries) <= Len(G)
      /\ \A k \in 1 .. Len(m.entries) : m.entries[k] = G[prev + k]
  BY DEF AppendOK
<1>2. Len(m.entries) \in Nat /\ DOMAIN m.entries = 1 .. Len(m.entries) /\ Len(G) \in Nat
  BY <1>1
<1>3. s.base_index \in Nat /\ last_index(s) \in Nat
  BY HistoryAt
<1> HIDE DEF prev
<1>4. ASSUME NEW k \in 1 .. Len(m.entries)
      PROVE  /\ prev + k \in Nat \ {0} /\ prev + k <= Len(G)
             /\ m.entries[k] = G[prev + k] /\ m.entries[k].index = prev + k
             /\ m.entries[k].term \in Nat \ {0}
             /\ k \in conflicts(s, m) <=>
                  /\ prev + k <= last_index(s)
                  /\ prev + k < s.base_index \/ H[prev + k].term # G[prev + k].term
  <2>1. prev + k \in Nat \ {0} /\ prev + k <= Len(G) /\ prev + k \in 1 .. Len(G)
    BY <1>1, <1>2
  <2>2. m.entries[k] = G[prev + k] /\ m.entries[k].index = prev + k
    BY <1>1, <2>1
  <2>3. m.entries[k] \in Entry
    BY <1>1, <1>2
  <2>4. m.entries[k].term \in Nat \ {0}
    BY <2>3 DEF Entry
  <2>5. k \in conflicts(s, m) <=> prev + k <= last_index(s) /\ term_at(s, prev + k) # G[prev + k].term
    BY <1>2, <2>2 DEF conflicts
  <2>6. term_at(s, prev + k) = IF s.base_index <= prev + k /\ 0 < prev + k /\ prev + k <= last_index(s)
                               THEN H[prev + k].term ELSE 0
    BY <2>1, TermAt
  <2>7. 0 < prev + k /\ (s.base_index <= prev + k <=> ~(prev + k < s.base_index))
    BY <1>3, <2>1
  <2> HIDE DEF H
  <2> QED
    BY <2>1, <2>2, <2>4, <2>5, <2>6, <2>7
<1> QED
  BY <1>1, <1>2, <1>4 DEF prev

\* What the splice of a true append makes of the history, and of the commit index.
Spliced(s, m, G, t) ==
    LET H == History(s)
        K == History(t)
        c == m.prev_log_index + Len(m.entries)
    IN  /\ Shape(t)
        /\ K = H \/ (K \in Seq(Entry) /\ Len(K) = c)
        /\ Agree(K, G, c)
        /\ \A n \in Nat : Agree(H, G, n) => Agree(K, G, n)
        /\ Agree(K, H, s.commit_index)
        /\ t.commit_index >= s.commit_index
        /\ t.commit_index = s.commit_index \/ (t.commit_index <= m.leader_commit /\ t.commit_index <= c)

\* The commit index a splice leaves.
LEMMA SpliceCommit ==
    ASSUME NEW a \in Nat, NEW b \in Nat, NEW d \in Nat, NEW x, x = MaxOf(MinOf(a, b), d)
    PROVE  x \in Nat /\ x >= d /\ (x = d \/ (x <= a /\ x <= b))
  BY DEF MaxOf, MinOf

\* Positions in a history of base + d old entries followed by entries f to n of a request.
LEMMA SpliceSizes ==
    ASSUME NEW base \in Nat, NEW prev \in Nat, NEW n \in Nat, NEW f \in Nat, NEW d \in Nat,
           f >= 1, f <= n, base + d = prev + f - 1
    PROVE  /\ base + (d + (n + 1 - f)) = prev + n
           /\ \A k \in Nat : base < k /\ k <= base + d =>
                 k - base \in 1 .. d /\ base + (k - base) = k /\ k \in 1 .. prev + (f - 1)
           /\ \A k \in Nat : base + d < k /\ k <= prev + n =>
                 /\ k - base - d \in 1 .. n + 1 - f /\ base + (d + (k - base - d)) = k
                 /\ d + (k - base - d) \in 1 .. d + (n + 1 - f)
                 /\ f + (k - base - d) - 1 \in 1 .. n /\ prev + (f + (k - base - d) - 1) = k
  OBVIOUS

\* The splice keeps what agreed, drops nothing committed, and ends in the leader's log.
LEMMA SpliceLog ==
    ASSUME NEW s, Struct(s), Shape(s), s.role = "Follower", NEW m, NEW G \in Seq(Entry), AppendOK(m, G),
           \A k \in 1 .. Len(G) : G[k].index = k,
           Sound(History(s), ledger), Sound(G, ledger),
           m.prev_log_index <= last_index(s), prev_matches(s, m), ~refuses(s, m)
    PROVE  Spliced(s, m, G, splice(s, m))
<1> DEFINE H == History(s)
           prev == m.prev_log_index
           e == m.entries
           c == prev + Len(e)
           t == splice(s, m)
           K == History(t)
           base == s.base_index
           last == last_index(s)
           C == conflicts(s, m)
           tail == {k \in DOMAIN m.entries : m.entries[k].index > last_index(s)} \cup C
           kf == Min(tail)
<1>1. /\ H \in Seq(Entry) /\ Len(H) = last /\ base \in Nat /\ last \in Nat /\ Len(s.log) \in Nat
      /\ \A k \in 1 .. base : H[k] = s.snapshot[k]
      /\ \A k \in 1 .. Len(s.log) : H[base + k] = s.log[k]
      /\ s.log \in Seq(Entry) /\ s.snapshot \in Seq(Entry) /\ base = Len(s.snapshot)
      /\ last = base + Len(s.log)
      /\ s.commit_index \in Nat /\ base <= s.commit_index /\ s.commit_index <= last
  BY HistoryAt DEF Shape, last_index
<1>2. /\ prev \in Nat /\ c \in Nat /\ c <= Len(G) /\ Len(e) \in Nat /\ Len(G) \in Nat
      /\ m.prev_log_term = (IF prev = 0 THEN 0 ELSE G[prev].term)
      /\ m.leader_commit \in Nat
  BY DEF AppendOK
<1>3. /\ e \in Seq(Entry) /\ DOMAIN e = 1 .. Len(e)
      /\ \A k \in 1 .. Len(e) :
           /\ prev + k \in Nat \ {0} /\ prev + k <= Len(G)
           /\ e[k] = G[prev + k] /\ e[k].index = prev + k /\ e[k].term \in Nat \ {0}
           /\ k \in C <=> prev + k <= last /\ (prev + k < base \/ H[prev + k].term # G[prev + k].term)
  BY EntriesAt
<1>4. /\ t.log = spliced_log(s, m) /\ t.base_index = base /\ t.base_term = s.base_term
      /\ t.snapshot = s.snapshot
      /\ t.commit_index = MaxOf(MinOf(m.leader_commit, confirmed(s, m)), s.commit_index)
      /\ t.role = s.role /\ t.leader_id = s.leader_id /\ t.acked_since_check = s.acked_since_check
      /\ t.next_index = s.next_index /\ t.match_index = s.match_index
      /\ t.snapshot_inflight = s.snapshot_inflight
  BY DEF splice, Struct, Fields
<1>5. confirmed(s, m) = c
  BY DEF confirmed
<1>6. C \in SUBSET Nat /\ tail \in SUBSET (1 .. Len(e)) /\ tail \in SUBSET Nat
  BY <1>2, <1>3 DEF conflicts
<1>7. \A k \in 1 .. Len(e) : k \in tail <=> prev + k > last \/ k \in C
  BY <1>3
<1>8. ASSUME NEW k \in C PROVE prev + k > s.commit_index
  <2>1. Min(C) \in C /\ Min(C) <= k
    BY <1>6, LeastOf
  <2>2. ~(m.entries[Min(C)].index <= s.commit_index)
    BY <2>1 DEF refuses
  <2>3. C \subseteq 1 .. Len(e)
    BY <1>3 DEF conflicts
  <2> HIDE DEF C
  <2>4. Min(C) \in Nat /\ k \in Nat /\ ~(prev + Min(C) <= s.commit_index)
    BY <1>3, <1>6, <2>1, <2>2, <2>3
  <2> QED
    BY <1>1, <1>2, <2>1, <2>4
<1> HIDE DEF t, C, H, prev, e, c, last, base, tail
<1>9. /\ base \in Nat /\ last \in Nat /\ prev \in Nat /\ c \in Nat /\ Len(e) \in Nat
        /\ Len(G) \in Nat /\ Len(H) \in Nat /\ Len(s.log) \in Nat /\ s.commit_index \in Nat
        /\ Len(H) = last /\ last = base + Len(s.log) /\ base <= s.commit_index /\ s.commit_index <= last
        /\ c = prev + Len(e) /\ c <= Len(G) /\ prev <= Len(G) /\ prev <= last /\ m.leader_commit \in Nat
  <2>1. c = prev + Len(e)
    BY DEF c
  <2>2. prev <= last
    BY DEF prev, last
  <2>3. Len(H) \in Nat
    BY <1>1
  <2>4. prev <= Len(G)
    BY <1>2, <2>1
  <2> QED
    BY <1>1, <1>2, <2>1, <2>2, <2>3, <2>4
<1>10. Agree(H, G, prev)
  <2>1. CASE prev = 0
    BY <1>9, <2>1 DEF Agree
  <2>2. CASE prev # 0
    <3>1. term_at(s, prev) = G[prev].term
      BY <1>2, <2>2 DEF prev_matches, prev
    <3>2. G[prev] \in Entry
      BY <1>9, <2>2
    <3>3. G[prev].term # 0
      BY <3>2 DEF Entry
    <3>4. term_at(s, prev) = IF base <= prev /\ 0 < prev /\ prev <= last THEN H[prev].term ELSE 0
      BY <1>9, TermAt DEF base, last, H
    <3>5. H[prev].term = G[prev].term
      BY <3>1, <3>3, <3>4
    <3>6. prev \in Nat \ {0} /\ prev <= Len(H) /\ prev <= Len(G) /\ Len(H) \in Nat
      BY <1>9, <2>2
    <3> QED
      BY <1>9, <3>5, <3>6, SoundAgree DEF H
  <2> QED
    BY <2>1, <2>2
\* Below the first entry of the tail everything agrees.
<1>11. ASSUME NEW n \in Nat, n <= Len(e), \A k \in 1 .. n : k \notin tail
       PROVE  Agree(H, G, prev + n) /\ prev + n <= last
  <2>1. CASE n = 0
    <3>1. prev + n = prev
      BY <1>9, <2>1
    <3> QED
      BY <1>9, <1>10, <3>1
  <2>2. CASE n # 0
    <3>1. n \in 1 .. n /\ n \in 1 .. Len(e)
      BY <1>9, <1>11, <2>2
    <3>2. ~(prev + n > last) /\ n \notin C
      BY <1>7, <1>11, <3>1
    <3>3. prev + n \in Nat \ {0} /\ prev + n <= Len(G)
      BY <1>3, <3>1
    <3>4. prev + n <= last
      BY <1>9, <3>2, <3>3
    <3>5. H[prev + n].term = G[prev + n].term
      BY <1>3, <3>1, <3>2, <3>4
    <3> QED
      BY <1>9, <3>3, <3>4, <3>5, SoundAgree DEF H
  <2> QED
    BY <2>1, <2>2
<1>12. t.commit_index \in Nat /\ t.commit_index >= s.commit_index
       /\ (t.commit_index = s.commit_index \/ (t.commit_index <= m.leader_commit /\ t.commit_index <= c))
  BY <1>9, <1>4, <1>5, SpliceCommit
<1>13. t.log \in Seq(Entry) /\ t.commit_index <= last_index(t) => Shape(t)
  <2>1. last_index(t) = base + Len(t.log)
    BY <1>4 DEF last_index, base
  <2>2. base <= t.commit_index
    BY <1>9, <1>12
  <2> QED
    BY <1>4, <1>12, <2>2 DEF Shape, base
<1>14. CASE tail = {}
  <2>1. t.log = s.log
    BY <1>4, <1>14 DEF spliced_log, tail, C
  <2>2. K = H /\ last_index(t) = last
    BY <1>4, <2>1 DEF History, last_index, H, last, base
  <2>3. Agree(H, G, c) /\ c <= last
    BY <1>9, <1>11, <1>14
  <2>4. t.commit_index <= last_index(t)
    BY <1>9, <1>12, <2>2, <2>3
  <2>5. Shape(t)
    BY <1>1, <1>13, <2>1, <2>4
  <2>6. Agree(H, H, s.commit_index)
    BY <1>1 DEF Agree
  <2> HIDE DEF K
  <2> QED
    BY <1>12, <2>2, <2>3, <2>5, <2>6 DEF Spliced, H, K, c, prev, e, t
<1>15. CASE tail # {}
  <2>1. kf \in tail /\ \A x \in tail : kf <= x
    BY <1>6, <1>15, LeastOf
  <2> HIDE DEF kf
  <2>2. kf \in 1 .. Len(e) /\ kf \in Nat /\ kf >= 1 /\ kf <= Len(e)
    BY <1>9, <1>6, <2>1
  <2>3. t.log = SubSeq(s.log, 1, m.entries[kf].index - 1 - s.base_index) \o SubSeq(m.entries, kf, Len(m.entries))
    BY <1>4, <1>15 DEF spliced_log, tail, C, kf
  <2>4. e[kf].index = prev + kf
    BY <1>3, <2>2
  <2> DEFINE d == prev + kf - 1 - base
             x == SubSeq(s.log, 1, d)
             y == SubSeq(e, kf, Len(e))
  <2>5. ASSUME NEW k \in 1 .. kf - 1 PROVE k \notin tail
    <3>1. k \in Nat /\ ~(kf <= k)
      BY <2>2
    <3> QED
      BY <2>1, <3>1
  <2>6. Agree(H, G, prev + (kf - 1)) /\ prev + (kf - 1) <= last
    <3>1. kf - 1 \in Nat /\ kf - 1 <= Len(e)
      BY <1>9, <2>2
    <3> QED
      BY <1>11, <2>5, <3>1
  <2>7. prev + kf > s.commit_index
    <3>1. CASE kf \in C
      BY <1>8, <3>1
    <3>2. CASE prev + kf > last
      BY <1>9, <2>2, <3>2
    <3> QED
      BY <1>7, <2>1, <2>2, <3>1, <3>2
  <2>8. d \in Nat /\ base + d = prev + kf - 1 /\ d <= Len(s.log) /\ s.commit_index <= base + d
    BY <1>9, <2>2, <2>6, <2>7
  <2>9. LET n == Len(e)  f == kf IN
          /\ base + (d + (n + 1 - f)) = prev + n
          /\ \A k \in Nat : base < k /\ k <= base + d =>
                k - base \in 1 .. d /\ base + (k - base) = k /\ k \in 1 .. prev + (f - 1)
          /\ \A k \in Nat : base + d < k /\ k <= prev + n =>
                /\ k - base - d \in 1 .. n + 1 - f /\ base + (d + (k - base - d)) = k
                /\ d + (k - base - d) \in 1 .. d + (n + 1 - f)
                /\ f + (k - base - d) - 1 \in 1 .. n /\ prev + (f + (k - base - d) - 1) = k
    <3> HIDE DEF d, x, y, K
    <3>1. base \in Nat /\ prev \in Nat /\ Len(e) \in Nat
      BY <1>9
    <3>2. kf \in Nat /\ kf >= 1 /\ kf <= Len(e)
      BY <2>2
    <3>3. d \in Nat /\ base + d = prev + kf - 1
      BY <2>8
    <3> QED
      BY <3>1, <3>2, <3>3, SpliceSizes
  <2>10. t.log = x \o y
    <3>1. prev + kf - 1 - base = d
      BY DEF d
    <3> HIDE DEF d
    <3>2. e[kf].index - 1 - base = d
      <4> HIDE DEF d, x, y, K
      <4>1. e[kf].index - 1 - base = prev + kf - 1 - base
        BY <1>9, <2>2, <2>4
      <4> QED
        BY <3>1, <4>1
    <3> QED
      BY <2>3, <3>2 DEF e, base
  <2> HIDE DEF d
  <2>11. /\ x \in Seq(Entry) /\ Len(x) = d
         /\ \A k \in 1 .. d : x[k] = s.log[k]
    <3>1. /\ x \in Seq(Entry) /\ Len(x) = d + 1 - 1
          /\ \A k \in 1 .. d + 1 - 1 : x[k] = s.log[1 + k - 1]
      BY <1>1, <2>8, SubSeqAt
    <3>2. d + 1 - 1 = d /\ \A k \in 1 .. d : 1 + k - 1 = k
      BY <2>8
    <3> HIDE DEF x
    <3> QED
      BY <3>1, <3>2
  <2>12. /\ y \in Seq(Entry) /\ Len(y) \in Nat /\ Len(y) = Len(e) + 1 - kf
         /\ \A k \in 1 .. Len(e) + 1 - kf : y[k] = e[kf + k - 1]
    <3>1. kf \in Nat \ {0} /\ kf <= Len(e) + 1 /\ Len(e) <= Len(e) /\ Len(e) \in Nat /\ e \in Seq(Entry)
      BY <1>9, <1>3, <2>2
    <3>2. /\ y \in Seq(Entry) /\ Len(y) = Len(e) + 1 - kf
          /\ \A k \in 1 .. Len(e) + 1 - kf : y[k] = e[kf + k - 1]
      BY <3>1, SubSeqAt
    <3> QED
      BY <3>2
  <2> HIDE DEF x, y
  <2>13. /\ t.log \in Seq(Entry) /\ Len(t.log) = d + Len(y)
         /\ \A k \in 1 .. d : t.log[k] = x[k]
         /\ \A k \in 1 .. Len(y) : t.log[d + k] = y[k]
    <3>1. /\ x \o y \in Seq(Entry) /\ Len(x \o y) = Len(x) + Len(y)
          /\ \A k \in 1 .. Len(x) : (x \o y)[k] = x[k]
          /\ \A k \in 1 .. Len(y) : (x \o y)[Len(x) + k] = y[k]
      <4>1. x \in Seq(Entry) /\ y \in Seq(Entry)
        BY <2>11, <2>12
      <4> QED
        BY <4>1, ConcatAt
    <3> QED
      BY <2>10, <2>11, <3>1
  <2>14. /\ K \in Seq(Entry) /\ Len(K) = base + Len(t.log)
         /\ \A k \in 1 .. base : K[k] = s.snapshot[k]
         /\ \A k \in 1 .. Len(t.log) : K[base + k] = t.log[k]
    <3>1. K = s.snapshot \o t.log
      BY <1>4 DEF History
    <3> DEFINE a == s.snapshot
               b == t.log
    <3>2. a \in Seq(Entry) /\ b \in Seq(Entry) /\ Len(a) = base
      BY <1>1, <2>13
    <3> HIDE DEF a, b, K
    <3>3. /\ a \o b \in Seq(Entry) /\ Len(a \o b) = Len(a) + Len(b)
          /\ \A k \in 1 .. Len(a) : (a \o b)[k] = a[k]
          /\ \A k \in 1 .. Len(b) : (a \o b)[Len(a) + k] = b[k]
      BY <3>2, ConcatAt
    <3> QED
      BY <3>1, <3>2, <3>3 DEF a, b
  <2> HIDE DEF K
  <2>15. Len(K) = c /\ last_index(t) = c
    <3>1. last_index(t) = base + Len(t.log)
      BY <1>4 DEF last_index, base
    <3>2. base + (d + (Len(e) + 1 - kf)) = c
      BY <1>9, <2>9
    <3> QED
      BY <2>12, <2>13, <2>14, <3>1, <3>2
  <2>16. ASSUME NEW k \in 1 .. c PROVE K[k] = G[k]
    <3>1. CASE k <= base
      <4>1. k \in 1 .. base /\ k \in 1 .. prev + (kf - 1)
        BY <1>9, <2>2, <2>8, <3>1
      <4>2. K[k] = H[k]
        BY <1>1, <2>14, <4>1
      <4> QED
        BY <2>6, <4>1, <4>2 DEF Agree
    <3>2. CASE base < k /\ k <= base + d
      <4> DEFINE j == k - base
      <4>1. j \in 1 .. d /\ j \in 1 .. Len(t.log) /\ j \in 1 .. Len(s.log) /\ base + j = k
            /\ k \in 1 .. prev + (kf - 1)
        <5>1. j \in 1 .. d /\ base + j = k /\ k \in 1 .. prev + (kf - 1)
          <6>1. k \in Nat
            BY <1>9
          <6> QED
            BY <2>9, <3>2, <6>1
        <5> HIDE DEF j
        <5>2. Len(y) \in Nat /\ Len(t.log) = d + Len(y)
          BY <2>12, <2>13
        <5>3. 1 <= j /\ j <= d /\ j \in Nat
          BY <2>8, <5>1
        <5>4. d <= Len(t.log) /\ d <= Len(s.log) /\ Len(t.log) \in Nat
          BY <2>8, <5>2
        <5>5. j \in 1 .. Len(t.log)
          BY <2>8, <5>3, <5>4
        <5>6. j \in 1 .. Len(s.log)
          BY <1>9, <2>8, <5>3, <5>4
        <5> QED
          BY <5>1, <5>5, <5>6
      <4> HIDE DEF j
      <4>2. K[k] = t.log[j] /\ t.log[j] = x[j] /\ x[j] = s.log[j] /\ H[k] = s.log[j]
        BY <1>1, <2>11, <2>13, <2>14, <4>1
      <4> QED
        BY <2>6, <4>1, <4>2 DEF Agree
    <3>3. CASE base + d < k
      <4> DEFINE j == k - base - d
      <4>1. k \in Nat /\ k <= c /\ c = prev + Len(e)
        BY <1>9
      <4>2. Len(y) \in Nat /\ Len(y) = Len(e) + 1 - kf /\ Len(t.log) = d + Len(y)
        BY <2>12, <2>13
      <4>3. /\ j \in 1 .. Len(y) /\ j \in 1 .. Len(e) + 1 - kf /\ d + j \in 1 .. Len(t.log)
            /\ base + (d + j) = k
            /\ kf + j - 1 \in 1 .. Len(e) /\ prev + (kf + j - 1) = k
        BY <2>9, <3>3, <4>1, <4>2
      <4> HIDE DEF j
      <4>4. K[k] = t.log[d + j] /\ t.log[d + j] = y[j] /\ y[j] = e[kf + j - 1]
        BY <2>12, <2>13, <2>14, <4>3
      <4>5. e[kf + j - 1] = G[k]
        BY <1>3, <4>3
      <4> QED
        BY <4>4, <4>5
    <3>4. k \in Nat /\ base + d \in Nat /\ base \in Nat
      BY <1>9, <2>8
    <3> QED
      BY <3>1, <3>2, <3>3, <3>4
  <2>17. Agree(K, G, c)
    BY <1>9, <2>15, <2>16 DEF Agree
  <2>18. s.commit_index <= c /\ prev + kf <= c /\ base + d <= c
    BY <1>9, <2>2, <2>8
  <2>19. Agree(K, H, s.commit_index)
    <3>1. Agree(H, G, s.commit_index)
      <4>1. prev + (kf - 1) \in Nat /\ s.commit_index <= prev + (kf - 1)
        BY SMTT(30), <1>9, <2>2, <2>7
      <4> QED
        BY <1>9, <2>6, <4>1, AgreeLess
    <3>2. Agree(K, G, s.commit_index)
      BY <1>9, <2>15, <2>17, <2>18, AgreeLess
    <3> QED
      BY <3>1, <3>2 DEF Agree
  <2>20. ASSUME NEW n \in Nat, Agree(H, G, n) PROVE Agree(K, G, n)
    <3>1. n < prev + kf
      <4>1. n <= last
        BY <1>9, <2>20 DEF Agree
      <4>2. CASE prev + kf > last
        BY <1>9, <2>2, <4>1, <4>2
      <4>3. CASE kf \in C
        <5>1. H[prev + kf].term # G[prev + kf].term
          <6>1. ~(prev + kf < base)
            BY <1>9, <2>2, <2>7
          <6> QED
            BY <1>3, <2>2, <4>3, <6>1
        <5>2. ~(prev + kf \in 1 .. n)
          BY <2>20, <5>1 DEF Agree
        <5> QED
          BY <1>9, <2>2, <5>2
      <4> QED
        BY <1>7, <2>1, <2>2, <4>2, <4>3
    <3>2. n <= c
      BY <1>9, <2>2, <2>18, <3>1
    <3> QED
      BY <1>9, <2>14, <2>15, <2>17, <3>2, AgreeLess
  <2>21. t.commit_index <= last_index(t)
    BY <1>9, <1>12, <2>15, <2>18
  <2>22. Shape(t)
    BY <1>13, <2>13, <2>21
  <2> QED
    BY <1>12, <2>14, <2>15, <2>17, <2>19, <2>20, <2>22 DEF Spliced, H, K, c, prev, e, t
<1> QED
  BY <1>14, <1>15

\* A message that only answers with an index, and confirms nothing, is good to send.
LEMMA RefusalSends ==
    ASSUME NEW s, NEW i, NEW p, NEW t, NEW n \in Nat
    PROVE  /\ Sends(s, AppendEntriesResp(i, p, t, FALSE, n))
           /\ Sends(s, InstallSnapshotResp(i, p, t, FALSE, n))
  BY DEF Sends, AppendEntriesResp, InstallSnapshotResp

\* A follower whose history has become the leader's, as far as the leader sent it, is good.
LEMMA TakenGood ==
    ASSUME NEW i \in Member, MemberLog(i), Struct(raft[i]), LedgerInv, NEW v \in DOMAIN ledger,
           v >= raft[i].current_term,
           NEW t, Shape(t), t.role = "Follower", t.current_term = v,
           t.voted_for = IF v > raft[i].current_term THEN None ELSE raft[i].voted_for,
           \/ History(t) = History(raft[i])
           \/ /\ History(t) \in Seq(Entry) /\ Agree(History(t), ledger[v], Len(History(t)))
              /\ \A n \in Nat : Agree(History(raft[i]), ledger[v], n) => Agree(History(t), ledger[v], n),
           Agree(History(t), History(raft[i]), raft[i].commit_index),
           t.commit_index >= raft[i].commit_index,
           \/ t.commit_index = raft[i].commit_index
           \/ Backed(ledger[v], v, t.commit_index) /\ Agree(History(t), ledger[v], t.commit_index),
           NEW res, res.st = t, \A m \in res.out : Sends(t, m)
    PROVE  LogGood(i, raft[i], res)
<1>1. Evolves(raft[i], t)
  <2> DEFINE r == raft[i]
  <2> HIDE DEF r
  <2> QED
    BY DEF Evolves, r
<1>2. Commits(i, raft[i], t)
  BY DEF Commits
<1>3. Counts(i, t)
  BY DEF Counts
<1>4. Ballot(i, raft[i], t)
  <2>1. raft[i].current_term \in Nat /\ v \in Nat
    BY DEF Struct, LedgerInv
  <2> QED
    BY <2>1, OldBallot
<1> QED
  BY <1>1, <1>2, <1>3, <1>4 DEF LogGood

\* The answer of handle_append.
Answer(i, m, s, success, n) == Result(s, {AppendEntriesResp(i, m.from, s.current_term, success, n)})

\* Its struct, and its message when it confirms nothing.
LEMMA AnswerIs ==
    ASSUME NEW i, NEW m, NEW s, NEW success, NEW n
    PROVE  /\ Answer(i, m, s, success, n).st = s
           /\ Answer(i, m, s, success, n).out = {AppendEntriesResp(i, m.from, s.current_term, success, n)}
           /\ n \in Nat /\ success = FALSE => \A x \in Answer(i, m, s, success, n).out : Sends(s, x)
  BY RefusalSends DEF Answer, Result

\* An append is refused, or makes the follower's log the leader's through what it sent.
LEMMA AppendLog ==
    ASSUME ElectionInv, LogInv, NEW m \in msgs, m.type = "AppendEntries"
    PROVE  LogGood(m.to, raft[m.to], handle_append(m.to, raft[m.to], m))
<1> DEFINE i == m.to
           r == raft[m.to]
           s == become_follower(r, m.term, m.from)
           u == become_follower(r, m.term, None)
           t == splice(s, m)
           G == ledger[m.term]
           H == History(r)
           K == History(t)
           c == m.prev_log_index + Len(m.entries)
           res == handle_append(i, r, m)
<1>1. i \in Member /\ m.from \in Member /\ m.term \in Nat /\ Struct(r) /\ MemberLog(i) /\ Shape(r)
      /\ r.current_term \in Nat
  BY DEF ElectionInv, BallotsInv, Envelope, MemberInv, LogInv, MemberLog, Struct
<1>2. /\ m.term \in DOMAIN ledger /\ AppendOK(m, G) /\ Backed(G, m.term, m.leader_commit)
      /\ LedgerInv
  BY DEF LogInv, MessageOK
<1>3. /\ m.prev_log_index \in Nat /\ m.leader_commit \in Nat /\ m.entries \in Seq(Entry)
      /\ Len(m.entries) \in Nat /\ c \in Nat
  BY <1>2 DEF AppendOK
<1>4. /\ Struct(s) /\ Shape(s) /\ LogSame(r, s) /\ s.role = "Follower"
      /\ s.current_term = MaxOf(m.term, r.current_term)
      /\ s.voted_for = IF m.term > r.current_term THEN None ELSE r.voted_for
  <2>1. m.from \in Member \cup {None} /\ m.term \in Nat /\ Struct(r) /\ Shape(r)
    BY <1>1
  <2> HIDE DEF r
  <2> QED
    BY <2>1, FollowerLog
<1>5. Shape(u)
  BY <1>1, FollowerLog
<1>6. Struct(r)
  BY <1>1
<1>7. CASE m.term < r.current_term
  <2>1. res = Answer(i, m, r, FALSE, 0)
    BY <1>7 DEF handle_append, Answer
  <2> HIDE DEF res
  <2>2. \A x \in res.out : Sends(r, x)
    BY <2>1, AnswerIs
  <2>3. res.st = r
    BY <2>1 DEF Answer, Result
  <2>4. LogGood(i, r, res)
    BY <1>1, <2>2, <2>3, StayGood
  <2> QED
    BY <2>4 DEF res
<1>8. CASE m.term >= r.current_term /\ ~entries_are_contiguous(m)
  <2> DEFINE x == IF m.term > r.current_term THEN u ELSE r
  <2>1. ~(m.term < r.current_term)
    BY <1>1, <1>8
  <2>2. res = Answer(i, m, x, FALSE, last_index(x))
    BY <1>8, <2>1 DEF handle_append, Answer
  <2> HIDE DEF res
  <2>3. x = u \/ x = r
    OBVIOUS
  <2> HIDE DEF x, u
  <2>4. last_index(x) \in Nat
    BY <1>1, <1>5, <2>3, HistoryAt
  <2>5. res.st = x /\ \A y \in res.out : Sends(x, y)
    <3>1. res.st = x
      BY <2>2 DEF Answer, Result
    <3> QED
      BY <2>2, <2>4, <3>1, AnswerIs
  <2>6. CASE x = u
    <3>1. LogGood(i, r, res)
      BY <1>1, <2>5, <2>6, FollowGood DEF u
    <3> QED
      BY <3>1 DEF res
  <2>7. CASE x = r
    <3>1. LogGood(i, r, res)
      BY <1>1, <2>5, <2>7, StayGood
    <3> QED
      BY <3>1 DEF res
  <2> QED
    BY <2>3, <2>6, <2>7
<1>9. CASE /\ m.term >= r.current_term /\ entries_are_contiguous(m)
           /\ m.prev_log_index > last_index(s) \/ ~prev_matches(s, m)
  <2>1. ~(m.term < r.current_term)
    BY <1>1, <1>9
  <2>2. PICK n : res = Answer(i, m, s, FALSE, n) /\ (n = last_index(s) \/ (n = m.prev_log_index - 1 /\ ~prev_matches(s, m)))
    BY <1>9, <2>1 DEF handle_append, Answer
  <2> HIDE DEF res
  <2>3. n \in Nat
    <3>1. CASE n = last_index(s)
      BY <1>4, <3>1, HistoryAt
    <3>2. CASE n = m.prev_log_index - 1 /\ ~prev_matches(s, m)
      <4>1. m.prev_log_index # 0
        BY <3>2 DEF prev_matches
      <4> QED
        BY <1>3, <3>2, <4>1
    <3> QED
      BY <2>2, <3>1, <3>2
  <2>4. res.st = s /\ \A y \in res.out : Sends(s, y)
    <3> HIDE DEF s
    <3>1. res.st = s
      BY <2>2 DEF Answer, Result
    <3> QED
      BY <2>2, <2>3, <3>1, AnswerIs
  <2>5. LogGood(i, r, res)
    BY <1>1, <2>4, FollowGood
  <2> QED
    BY <2>5 DEF res
<1>10. CASE /\ m.term >= r.current_term /\ entries_are_contiguous(m)
            /\ ~(m.prev_log_index > last_index(s)) /\ prev_matches(s, m)
  <2>1. ~(m.term < r.current_term)
    BY <1>1, <1>10
  <2>2. res = Answer(i, m, t, ~refuses(s, m), confirmed(s, m))
    BY <1>10, <2>1 DEF handle_append, Answer
  <2> HIDE DEF res
  <2>3. /\ G \in Seq(Entry) /\ Len(G) \in Nat
        /\ \A k \in 1 .. Len(G) : G[k].index = k
        /\ Sound(G, ledger)
    BY <1>2 DEF LedgerInv
  <2>4. History(s) = H /\ last_index(s) = last_index(r) /\ s.commit_index = r.commit_index
        /\ Sound(H, ledger) /\ last_index(s) \in Nat
    BY <1>1, <1>4, LogSameReads, HistoryAt DEF MemberLog
  <2>5. s.current_term = m.term
    BY <1>1, <1>4, <1>10 DEF MaxOf
  <2>6. t.role = "Follower" /\ t.current_term = m.term /\ t.voted_for = s.voted_for
    BY <1>4, <2>5 DEF splice, Struct, Fields
  <2>7. CASE refuses(s, m)
    <3>1. t = s
      <4>1. t = [s EXCEPT !.log = s.log, !.commit_index = s.commit_index]
        BY <2>7 DEF splice, spliced_log
      <4> HIDE DEF s, t
      <4> QED
        BY <1>4, <4>1 DEF Struct, Fields
    <3>2. confirmed(s, m) \in Nat
      <4> DEFINE C == conflicts(s, m)
      <4>1. C # {} /\ confirmed(s, m) = m.prev_log_index + (Min(C) - 1)
        BY <2>7 DEF refuses, confirmed
      <4>2. C \in SUBSET Nat /\ \A k \in C : k >= 1
        BY <1>3 DEF conflicts
      <4> HIDE DEF C
      <4>3. Min(C) \in Nat /\ Min(C) >= 1
        BY <4>1, <4>2, LeastOf
      <4> QED
        BY <1>3, <4>1, <4>3
    <3>3. res.st = s /\ \A y \in res.out : Sends(s, y)
      <4> HIDE DEF s, t
      <4> DEFINE n == confirmed(s, m)
      <4>1. res = Answer(i, m, s, FALSE, n) /\ n \in Nat
        BY <2>2, <2>7, <3>1, <3>2
      <4> HIDE DEF n
      <4>2. res.st = s
        BY <4>1 DEF Answer, Result
      <4> QED
        BY <4>1, <4>2, AnswerIs
    <3>4. LogGood(i, r, res)
      BY <1>1, <3>3, FollowGood
    <3> QED
      BY <3>4 DEF res
  <2>8. CASE ~refuses(s, m)
    <3>1. m.prev_log_index <= last_index(s)
      BY <1>3, <1>10, <2>4
    <3> HIDE DEF s
    <3>2. Spliced(s, m, G, t)
      <4> HIDE DEF t, G
      <4>1. Spliced(s, m, G, splice(s, m))
        BY <1>2, <1>4, <1>10, <2>3, <2>4, <2>8, <3>1, SpliceLog DEF G
      <4> QED
        BY <4>1 DEF t
    <3> HIDE DEF t, c, H, K
    <3>3. /\ Shape(t)
          /\ K = H \/ (K \in Seq(Entry) /\ Len(K) = c)
          /\ Agree(K, G, c)
          /\ \A n \in Nat : Agree(H, G, n) => Agree(K, G, n)
          /\ Agree(K, H, r.commit_index)
          /\ t.commit_index >= r.commit_index
          /\ t.commit_index = r.commit_index \/ (t.commit_index <= m.leader_commit /\ t.commit_index <= c)
      BY <2>4, <3>2 DEF Spliced, K, c
    <3>4. confirmed(s, m) = c
      BY <2>8 DEF confirmed, c
    <3>5. \A y \in res.out : Sends(t, y)
      <4>1. Confirms(t, m.term, c)
        BY <1>2, <1>3, <2>6, <3>3 DEF Confirms, K, G
      <4>2. Sends(t, AppendEntriesResp(i, m.from, m.term, TRUE, c))
        BY <1>3, <4>1 DEF Sends, AppendEntriesResp
      <4>3. res.out = {AppendEntriesResp(i, m.from, m.term, TRUE, c)}
        BY <2>2, <2>6, <2>8, <3>4, AnswerIs
      <4> QED
        BY <4>2, <4>3
    <3>6. t.commit_index = r.commit_index \/ (Backed(G, m.term, t.commit_index) /\ Agree(K, G, t.commit_index))
      <4>1. CASE t.commit_index <= m.leader_commit /\ t.commit_index <= c
        <5>1. t.commit_index \in Nat /\ Len(K) \in Nat
          BY <3>3, HistoryAt DEF Shape, K
        <5> QED
          BY <1>2, <1>3, <2>3, <3>3, <4>1, <5>1, BackedLess, AgreeLess
      <4> QED
        BY <3>3, <4>1
    <3>7. res.st = t
      BY <2>2 DEF Answer, Result
    <3>8. t.voted_for = IF m.term > r.current_term THEN None ELSE r.voted_for
      BY <1>4, <2>6
    <3>9. LogGood(i, r, res)
      BY <1>1, <1>2, <1>10, <2>6, <3>3, <3>5, <3>6, <3>7, <3>8, TakenGood DEF G, H, K
    <3> QED
      BY <3>9 DEF res
  <2> QED
    BY <2>7, <2>8
<1>11. m.term < r.current_term \/ m.term >= r.current_term
  BY <1>1
<1> QED
  BY <1>7, <1>8, <1>9, <1>10, <1>11

----------------------------------------------------------------------------
(* A follower takes a leader's snapshot.                                   *)

\* What is committed at some term, every leader of that term or a later one has.
LEMMA BackedInLedger ==
    ASSUME LogInv, NEW H, Len(H) \in Nat, NEW t \in Nat, NEW n \in Nat, Backed(H, t, n),
           NEW v \in DOMAIN ledger, t <= v
    PROVE  Agree(H, ledger[v], n)
<1>1. /\ LedgerInv /\ SafeInv
      /\ \A u \in DOMAIN ledger : u \in Nat /\ ledger[u] \in Seq(Entry) /\ Len(ledger[u]) \in Nat
  <2>1. LedgerInv /\ SafeInv /\ \A u \in DOMAIN ledger : u \in Nat /\ ledger[u] \in Seq(Entry)
    BY DEF LogInv, LedgerInv
  <2>2. \A G \in Seq(Entry) : Len(G) \in Nat
    OBVIOUS
  <2> QED
    BY <2>1, <2>2
<1>2. CASE n = 0
  BY <1>1, <1>2 DEF Agree
<1>3. CASE n # 0
  <2>1. PICK u \in DOMAIN ledger : u <= t /\ \E c \in Nat : c >= n /\ Chosen(u, c) /\ Agree(H, ledger[u], n)
    BY <1>3 DEF Backed
  <2>2. PICK c \in Nat : c >= n /\ Chosen(u, c) /\ Agree(H, ledger[u], n)
    BY <2>1
  <2>3. CASE u = v
    BY <2>2, <2>3
  <2>4. CASE u # v
    <3>1. u < v /\ c \in Nat \ {0} /\ n <= c
      BY <1>1, <1>3, <2>1, <2>2, <2>4
    <3>2. Own(u, c)
      BY <2>2 DEF Chosen, Own
    <3>3. ~Blocked(u, c)
      <4>1. SUFFICES ASSUME Blocked(u, c) PROVE FALSE
        OBVIOUS
      <4>2. PICK P \in SUBSET Member : Majority(P) /\ \A j \in P : Held(u, j, c)
        BY <2>2 DEF Chosen
      <4>3. PICK Q \in SUBSET Member : Majority(Q) /\ \A j \in Q : ~Held(u, j, c)
        BY <4>1 DEF Blocked
      <4>4. PICK j \in Member : j \in P /\ j \in Q
        BY <4>2, <4>3, MajoritiesMeet
      <4> QED
        BY <4>2, <4>3, <4>4
    <3>4. Agree(ledger[v], ledger[u], c)
      BY <1>1, <3>1, <3>2, <3>3 DEF SafeInv
    <3>5. Agree(ledger[v], ledger[u], n)
      BY <1>1, <3>1, <3>4, AgreeLess
    <3> QED
      BY <1>1, <2>2, <3>5 DEF Agree
  <2> QED
    BY <2>3, <2>4
<1> QED
  BY <1>2, <1>3

\* What the installation of a true snapshot makes of the history.
Installed(s, m, G, t) ==
    LET H == History(s)
        K == History(t)
        n == m.last_included_index
    IN  /\ Shape(t)
        /\ K = H \/ (K \in Seq(Entry) /\ Len(K) = n)
        /\ Agree(K, G, n)
        /\ \A k \in Nat : Agree(H, G, k) => Agree(K, G, k)

\* The installation keeps the suffix that follows the snapshot in the leader's log, or
\* leaves the leader's log as far as the snapshot goes.
LEMMA InstallSnapshotLog ==
    ASSUME NEW s, Struct(s), Shape(s), s.role = "Follower", NEW m, NEW G \in Seq(Entry), SnapshotOK(m, G),
           Sound(History(s), ledger), Sound(G, ledger), m.last_included_index > s.commit_index
    PROVE  Installed(s, m, G, install(s, m)) /\ install(s, m).commit_index = m.last_included_index
<1> DEFINE H == History(s)
           n == m.last_included_index
           t == install(s, m)
           K == History(t)
           base == s.base_index
           last == last_index(s)
           agrees == term_at(s, n) = m.last_included_term /\ n <= last
<1>1. /\ H \in Seq(Entry) /\ Len(H) = last /\ base \in Nat /\ last \in Nat /\ Len(s.log) \in Nat
      /\ \A k \in 1 .. Len(s.log) : H[base + k] = s.log[k]
      /\ s.log \in Seq(Entry)
      /\ last = base + Len(s.log)
      /\ s.commit_index \in Nat /\ base <= s.commit_index /\ s.commit_index <= last
  BY HistoryAt DEF Shape, last_index
<1>2. /\ m.data \in Seq(Entry) /\ Len(m.data) = n /\ n \in Nat /\ n > 0 /\ n <= Len(G) /\ Len(G) \in Nat
      /\ \A k \in 1 .. n : m.data[k] = G[k]
      /\ m.last_included_term = G[n].term
  BY DEF SnapshotOK, Agree
<1>3. /\ t.log = (IF agrees THEN SubSeq(s.log, n - base + 1, Len(s.log)) ELSE <<>>)
      /\ t.base_index = n /\ t.base_term = m.last_included_term
      /\ t.snapshot = m.data /\ t.commit_index = MaxOf(s.commit_index, n)
      /\ t.role = s.role /\ t.leader_id = s.leader_id /\ t.acked_since_check = s.acked_since_check
      /\ t.next_index = s.next_index /\ t.match_index = s.match_index
      /\ t.snapshot_inflight = s.snapshot_inflight
  BY DEF install, Struct, Fields
<1>4. term_at(s, n) = IF n <= last THEN H[n].term ELSE 0
  <2>1. term_at(s, n) = IF base <= n /\ 0 < n /\ n <= last THEN H[n].term ELSE 0
    BY <1>2, TermAt
  <2>2. base <= n /\ 0 < n
    BY <1>1, <1>2
  <2> HIDE DEF H, base, last, n
  <2> QED
    BY <2>1, <2>2
<1> HIDE DEF t, H, n, base, last
<1>5. t.commit_index = n
  <2>1. n > s.commit_index /\ n \in Nat /\ s.commit_index \in Nat
    BY <1>1, <1>2 DEF n
  <2> QED
    BY <1>3, <2>1 DEF MaxOf
<1>6. /\ base \in Nat /\ last \in Nat /\ n \in Nat /\ n > 0 /\ base <= n /\ Len(s.log) \in Nat
        /\ last = base + Len(s.log) /\ Len(H) = last /\ Len(H) \in Nat
  <2>1. n > s.commit_index
    BY DEF n
  <2> QED
    BY <1>1, <1>2, <2>1
<1>7. t.log \in Seq(Entry) => Shape(t)
  <2>1. SUFFICES ASSUME t.log \in Seq(Entry) PROVE Shape(t)
    OBVIOUS
  <2>2. last_index(t) = n + Len(t.log) /\ Len(t.log) \in Nat
    BY <1>3, <2>1 DEF last_index
  <2>3. n <= last_index(t)
    BY <1>6, <2>2
  <2>4. t.base_term = IF t.base_index = 0 THEN 0 ELSE t.snapshot[t.base_index].term
    BY <1>2, <1>3
  <2> QED
    BY SMTT(30), <1>2, <1>3, <1>5, <2>1, <2>3, <2>4 DEF Shape
<1>8. CASE agrees
  <2> HIDE DEF agrees
  <2>1. n <= last /\ H[n].term = G[n].term
    BY <1>2, <1>4, <1>8 DEF agrees
  <2>2. Agree(H, G, n)
    <3>1. n \in Nat \ {0} /\ n <= Len(H) /\ n <= Len(G) /\ Len(H) \in Nat /\ Len(G) \in Nat
      BY <1>2, <1>6, <2>1
    <3> QED
      BY <2>1, <3>1, SoundAgree DEF H
  <2> DEFINE d == n - base + 1
             z == Len(s.log)
             x == SubSeq(s.log, d, z)
  <2>3. t.log = x
    BY <1>3, <1>8
  <2>4. d \in Nat \ {0} /\ z \in Nat /\ d <= z + 1 /\ base + d = n + 1 /\ last = base + z
    BY <1>6, <2>1
  <2>5. z = Len(s.log) /\ z <= Len(s.log) /\ s.log \in Seq(Entry)
    BY <1>1
  <2> HIDE DEF d, z
  <2>6. /\ x \in Seq(Entry) /\ Len(x) = z + 1 - d
        /\ \A k \in 1 .. z + 1 - d : x[k] = s.log[d + k - 1]
    BY <2>4, <2>5, SubSeqAt
  <2> HIDE DEF x
  <2>7. z + 1 - d \in Nat /\ n + (z + 1 - d) = last
    BY <1>6, <2>4
  <2>8. K = H
    <3> DEFINE a == m.data
    <3>1. K = a \o x
      BY <1>3, <2>3 DEF History
    <3>2. a \in Seq(Entry) /\ Len(a) = n
      BY <1>2
    <3> HIDE DEF a, K
    <3>3. /\ a \o x \in Seq(Entry) /\ Len(a \o x) = n + (z + 1 - d)
          /\ \A k \in 1 .. n : (a \o x)[k] = a[k]
          /\ \A k \in 1 .. z + 1 - d : (a \o x)[n + k] = x[k]
      <4>1. a \in Seq(Entry) /\ x \in Seq(Entry)
        BY <2>6, <3>2
      <4>2. /\ a \o x \in Seq(Entry) /\ Len(a \o x) = Len(a) + Len(x)
            /\ \A k \in 1 .. Len(a) : (a \o x)[k] = a[k]
            /\ \A k \in 1 .. Len(x) : (a \o x)[Len(a) + k] = x[k]
        BY <4>1, ConcatAt
      <4> QED
        BY <2>6, <3>2, <4>2
    <3>4. ASSUME NEW k \in 1 .. last PROVE K[k] = H[k]
      <4>1. CASE k <= n
        <5>1. k \in 1 .. n
          BY <1>6, <4>1
        <5>2. K[k] = G[k]
          BY <1>2, <3>1, <3>3, <5>1 DEF a
        <5> QED
          BY <2>2, <5>1, <5>2 DEF Agree
      <4>2. CASE ~(k <= n)
        <5> DEFINE j == k - n
        <5>1. j \in 1 .. z + 1 - d /\ n + j = k /\ d + j - 1 \in 1 .. z /\ base + (d + j - 1) = k
          BY <1>6, <2>4, <2>7, <4>2
        <5> HIDE DEF j
        <5>2. K[k] = x[j] /\ x[j] = s.log[d + j - 1]
          BY <2>6, <3>1, <3>3, <5>1
        <5>3. s.log[d + j - 1] = H[k]
          BY <1>1, <2>5, <5>1
        <5> QED
          BY <5>2, <5>3
      <4> QED
        BY <4>1, <4>2
    <3>5. K \in Seq(Entry) /\ Len(K) = Len(H) /\ H \in Seq(Entry) /\ \A k \in 1 .. Len(K) : K[k] = H[k]
      BY <1>1, <1>6, <2>7, <3>1, <3>3, <3>4
    <3> QED
      BY <3>5, SameSeq
  <2>9. Shape(t)
    BY <1>7, <2>3, <2>6
  <2> HIDE DEF K
  <2> QED
    BY <1>5, <2>2, <2>8, <2>9 DEF Installed, H, K, n, t
<1>9. CASE ~agrees
  <2> HIDE DEF agrees
  <2>1. t.log = <<>>
    BY <1>3, <1>9
  <2>2. t.log \in Seq(Entry)
    BY <2>1
  <2>3. K = m.data
    <3> DEFINE a == m.data
    <3>1. K = a \o <<>> /\ a \in Seq(Entry)
      BY <1>2, <1>3, <2>1 DEF History
    <3> HIDE DEF a, K
    <3>2. a \o <<>> = a
      BY <3>1
    <3> QED
      BY <3>1, <3>2 DEF a
  <2> HIDE DEF K
  <2>4. K \in Seq(Entry) /\ Len(K) = n /\ Agree(K, G, n)
    BY <1>2, <2>3 DEF Agree
  <2>5. ASSUME NEW k \in Nat, Agree(H, G, k) PROVE Agree(K, G, k)
    <3>1. k <= n
      <4>1. SUFFICES ASSUME n < k PROVE FALSE
        BY <1>6
      <4>2. k <= Len(H) /\ n \in 1 .. k
        BY <1>6, <2>5, <4>1 DEF Agree
      <4>3. n <= last /\ H[n].term = G[n].term
        BY <1>6, <2>5, <4>1, <4>2 DEF Agree
      <4> QED
        BY <1>2, <1>4, <1>9, <4>3 DEF agrees
    <3> QED
      BY <1>2, <1>6, <2>4, <3>1, AgreeLess
  <2>6. Shape(t)
    BY <1>7, <2>2
  <2> QED
    BY <1>5, <2>4, <2>5, <2>6 DEF Installed, H, K, n, t
<1> QED
  BY <1>8, <1>9

\* A snapshot is refused, known already, or becomes the start of the follower's log.
LEMMA InstallLog ==
    ASSUME ElectionInv, LogInv, NEW m \in msgs, m.type = "InstallSnapshot"
    PROVE  LogGood(m.to, raft[m.to], handle_install_snapshot(m.to, raft[m.to], m))
<1> DEFINE i == m.to
           r == raft[m.to]
           s == become_follower(r, m.term, m.from)
           u == become_follower(r, m.term, None)
           t == install(s, m)
           G == ledger[m.term]
           H == History(r)
           n == m.last_included_index
           Resp(x, success, k) == InstallSnapshotResp(i, m.from, x.current_term, success, k)
           res == handle_install_snapshot(i, r, m)
<1>1. i \in Member /\ m.from \in Member /\ m.term \in Nat /\ Struct(r) /\ MemberLog(i) /\ Shape(r)
      /\ r.current_term \in Nat
  BY DEF ElectionInv, BallotsInv, Envelope, MemberInv, LogInv, MemberLog, Struct
<1>2. /\ m.term \in DOMAIN ledger /\ SnapshotOK(m, G) /\ Backed(G, m.term, n) /\ LedgerInv
  BY DEF LogInv, MessageOK
<1>3. n \in Nat /\ Len(G) \in Nat /\ G \in Seq(Entry) /\ Sound(G, ledger)
  <2>1. G \in Seq(Entry) /\ Sound(G, ledger)
    BY <1>2 DEF LedgerInv
  <2>2. m.data \in Seq(Entry) /\ n = Len(m.data)
    BY <1>2 DEF SnapshotOK
  <2> HIDE DEF G, n
  <2> QED
    BY <2>1, <2>2
<1>4. /\ Struct(s) /\ Shape(s) /\ LogSame(r, s) /\ s.role = "Follower"
      /\ s.current_term = MaxOf(m.term, r.current_term)
      /\ s.voted_for = IF m.term > r.current_term THEN None ELSE r.voted_for
  <2>1. m.from \in Member \cup {None} /\ m.term \in Nat /\ Struct(r) /\ Shape(r)
    BY <1>1
  <2> HIDE DEF r
  <2> QED
    BY <2>1, FollowerLog
<1>5. CASE m.term < r.current_term
  <2>1. res = Result(r, {Resp(r, FALSE, 0)})
    BY <1>5 DEF handle_install_snapshot
  <2>2. res.st = r /\ res.out = {InstallSnapshotResp(i, m.from, r.current_term, FALSE, 0)}
    BY <2>1 DEF Result
  <2> HIDE DEF res
  <2>3. \A x \in res.out : Sends(r, x)
    <3>1. Sends(r, InstallSnapshotResp(i, m.from, r.current_term, FALSE, 0))
      BY RefusalSends
    <3> QED
      BY <2>2, <3>1
  <2>4. LogGood(i, r, res)
    BY <1>1, <2>2, <2>3, StayGood
  <2> QED
    BY <2>4 DEF res
<1>6. CASE m.term >= r.current_term /\ ~snapshot_metadata_is_valid(m)
  <2> DEFINE x == IF m.term > r.current_term THEN u ELSE r
  <2>1. ~(m.term < r.current_term)
    BY <1>1, <1>6
  <2>2. res = Result(x, {Resp(x, FALSE, 0)})
    BY <1>6, <2>1 DEF handle_install_snapshot
  <2>3. res.st = x /\ res.out = {InstallSnapshotResp(i, m.from, x.current_term, FALSE, 0)}
    BY <2>2 DEF Result
  <2> HIDE DEF res
  <2>4. x = u \/ x = r
    OBVIOUS
  <2> HIDE DEF x, u
  <2>5. \A y \in res.out : Sends(x, y)
    <3>1. Sends(x, InstallSnapshotResp(i, m.from, x.current_term, FALSE, 0))
      BY RefusalSends
    <3> QED
      BY <2>3, <3>1
  <2>6. CASE x = u
    <3>1. LogGood(i, r, res)
      BY <1>1, <2>3, <2>5, <2>6, FollowGood DEF u
    <3> QED
      BY <3>1 DEF res
  <2>7. CASE x = r
    <3>1. LogGood(i, r, res)
      BY <1>1, <2>3, <2>5, <2>7, StayGood
    <3> QED
      BY <3>1 DEF res
  <2> QED
    BY <2>4, <2>6, <2>7
<1>7. CASE m.term >= r.current_term /\ snapshot_metadata_is_valid(m)
  <2>1. ~(m.term < r.current_term) /\ r.current_term <= m.term
    BY <1>1, <1>7
  <2>2. s.current_term = m.term
    BY <1>1, <1>4, <1>7 DEF MaxOf
  <2>3. History(s) = H /\ s.commit_index = r.commit_index /\ Sound(H, ledger)
    BY <1>1, <1>4, LogSameReads DEF MemberLog
  <2>4. Len(H) \in Nat /\ r.commit_index \in Nat /\ r.commit_index <= Len(H)
    BY <1>1, HistoryAt DEF Shape
  <2> HIDE DEF H
  <2>5. Agree(H, G, r.commit_index)
    <3>1. Backed(H, r.current_term, r.commit_index)
      BY <1>1 DEF MemberLog, H
    <3> QED
      BY <1>1, <1>2, <2>1, <2>4, <3>1, BackedInLedger
  <2>6. s.base_index \in Nat /\ s.base_index <= s.commit_index /\ s.commit_index \in Nat
    BY <1>4, HistoryAt DEF Shape
  <2>7. MaxOf(s.base_index, s.commit_index) = s.commit_index
    BY <2>6 DEF MaxOf
  <2>8. ASSUME NEW x, x.role = "Follower", x.current_term = m.term, Agree(History(x), G, n)
        PROVE  Sends(x, InstallSnapshotResp(i, m.from, x.current_term, TRUE, n))
    <3>1. Confirms(x, m.term, n)
      BY <1>2, <1>3, <2>8 DEF Confirms
    <3> QED
      BY <1>3, <2>8, <3>1 DEF Sends, InstallSnapshotResp
  <2>9. CASE n <= s.commit_index
    <3>1. n <= MaxOf(s.base_index, s.commit_index)
      BY <2>7, <2>9
    <3>2. res = Result(s, {Resp(s, TRUE, n)})
      BY <1>7, <2>1, <3>1 DEF handle_install_snapshot
    <3>3. res.st = s /\ res.out = {InstallSnapshotResp(i, m.from, s.current_term, TRUE, n)}
      BY <3>2 DEF Result
    <3> HIDE DEF res, n, G
    <3>4. Agree(History(s), G, n)
      BY <1>3, <2>3, <2>4, <2>5, <2>9, AgreeLess
    <3>5. Sends(s, InstallSnapshotResp(i, m.from, s.current_term, TRUE, n))
      <4> HIDE DEF s
      <4> QED
        BY <1>4, <2>2, <2>8, <3>4
    <3>6. \A x \in res.out : Sends(res.st, x)
      <4> HIDE DEF s
      <4> QED
        BY <3>3, <3>5
    <3>7. LogGood(i, r, res)
      BY <1>1, <3>3, <3>6, FollowGood
    <3> QED
      BY <3>7 DEF res
  <2>10. CASE ~(n <= s.commit_index)
    <3>1. ~(n <= MaxOf(s.base_index, s.commit_index)) /\ n > s.commit_index
      BY <1>3, <2>6, <2>7, <2>10
    <3>2. res = Result(t, {Resp(t, TRUE, n)})
      BY <1>7, <2>1, <3>1 DEF handle_install_snapshot
    <3>3. res.st = t /\ res.out = {InstallSnapshotResp(i, m.from, t.current_term, TRUE, n)}
      BY <3>2 DEF Result
    <3>4. t.role = "Follower" /\ t.current_term = m.term /\ t.voted_for = s.voted_for
      <4> HIDE DEF s
      <4> QED
        BY <1>4, <2>2 DEF install, Struct, Fields
    <3> HIDE DEF s
    <3>5. Installed(s, m, G, t) /\ t.commit_index = n
      <4> HIDE DEF G
      <4>1. /\ Struct(s) /\ Shape(s) /\ s.role = "Follower" /\ G \in Seq(Entry) /\ SnapshotOK(m, G)
            /\ Sound(History(s), ledger) /\ Sound(G, ledger) /\ m.last_included_index > s.commit_index
        BY <1>2, <1>3, <1>4, <2>3, <3>1
      <4> QED
        BY <4>1, InstallSnapshotLog
    <3> HIDE DEF t, res
    <3> DEFINE K == History(t)
    <3>6. /\ Shape(t) /\ (K = H \/ (K \in Seq(Entry) /\ Len(K) = n)) /\ Agree(K, G, n)
          /\ \A k \in Nat : Agree(H, G, k) => Agree(K, G, k)
      BY <2>3, <3>5 DEF Installed
    <3> HIDE DEF n, K, G
    <3>7. Agree(K, H, r.commit_index)
      BY <2>4, <2>5, <3>6 DEF Agree
    <3>8. t.commit_index >= r.commit_index
      BY <1>3, <2>3, <2>4, <3>1, <3>5
    <3>9. Sends(t, InstallSnapshotResp(i, m.from, t.current_term, TRUE, n))
      BY <2>8, <3>4, <3>6 DEF K
    <3>10. \A x \in res.out : Sends(t, x)
      BY <3>3, <3>9
    <3>11. /\ t.voted_for = IF m.term > r.current_term THEN None ELSE r.voted_for
           /\ Backed(G, m.term, t.commit_index) /\ Agree(K, G, t.commit_index)
      BY <1>2, <1>4, <3>4, <3>5, <3>6
    <3>12. LogGood(i, r, res)
      BY <1>1, <1>2, <1>7, <3>3, <3>4, <3>6, <3>7, <3>8, <3>10, <3>11, TakenGood DEF G, H, K
    <3> QED
      BY <3>12 DEF res
  <2> QED
    BY <2>9, <2>10
<1>8. m.term < r.current_term \/ m.term >= r.current_term
  BY <1>1
<1> QED
  BY <1>5, <1>6, <1>7, <1>8

----------------------------------------------------------------------------
(* Every step.                                                             *)

\* Whatever its type, a message is handled well.
LEMMA StepLog ==
    ASSUME ElectionInv, LogInv, NEW m \in msgs, NEW quiet
    PROVE  LogGood(m.to, raft[m.to], step(m.to, raft[m.to], m, quiet))
<1>1. m.type \in Types
  BY DEF ElectionInv, BallotsInv, Envelope
<1>2. CASE m.type = "RequestVote"
  BY <1>2, RequestVoteLog DEF step
<1>3. CASE m.type = "RequestVoteResp"
  BY <1>3, VoteRespLog DEF step
<1>4. CASE m.type = "AppendEntries"
  BY <1>4, AppendLog DEF step
<1>5. CASE m.type = "AppendEntriesResp"
  BY <1>5, AppendRespLog DEF step
<1>6. CASE m.type = "InstallSnapshot"
  BY <1>6, InstallLog DEF step
<1>7. CASE m.type = "InstallSnapshotResp"
  BY <1>7, InstallRespLog DEF step
<1> QED
  BY <1>1, <1>2, <1>3, <1>4, <1>5, <1>6, <1>7 DEF Types

\* Member j's struct keeps its log, term and vote, and no member comes to lead or to
\* stand as a candidate.
Idle(j) ==
    /\ LogSame(raft[j], raft'[j]) /\ Shape(raft'[j])
    /\ raft'[j].current_term = raft[j].current_term /\ raft'[j].voted_for = raft[j].voted_for
    /\ raft'[j].role = "Leader" => raft[j].role = "Leader" /\ raft'[j].match_index = raft[j].match_index
    /\ raft'[j].role = "Candidate" => raft[j].role = "Candidate"

\* A step that leaves every log and every history alone keeps the invariant.
LEMMA IdleLog ==
    ASSUME LogInv, \A j \in Member : Idle(j), UNCHANGED <<msgs, elected, voted, ledger, acked>>,
           \A m \in msgs : Envelope(m)
    PROVE  LogInv'
<1>1. msgs' = msgs /\ elected' = elected /\ voted' = voted /\ ledger' = ledger /\ acked' = acked
  OBVIOUS
<1>2. \A j \in Member :
         /\ Shape(raft'[j]) /\ History(raft'[j]) = History(raft[j])
         /\ last_index(raft'[j]) = last_index(raft[j]) /\ last_term(raft'[j]) = last_term(raft[j])
         /\ raft'[j].commit_index = raft[j].commit_index
         /\ raft'[j].current_term = raft[j].current_term /\ raft'[j].voted_for = raft[j].voted_for
         /\ raft'[j].role = "Leader" => raft[j].role = "Leader" /\ raft'[j].match_index = raft[j].match_index
         /\ raft'[j].role = "Candidate" => raft[j].role = "Candidate"
  BY LogSameReads DEF Idle
<1>3. \A u, j, n : Acked(u, j, n)' <=> Acked(u, j, n)
  BY <1>1 DEF Acked
<1>4. \A u, j, n : Held(u, j, n)' <=> Held(u, j, n)
  BY <1>1, <1>3 DEF Held
<1>5. \A Q : Majority(Q)' <=> Majority(Q)
  BY DEF Majority, quorum
<1>6. \A u, n : /\ Chosen(u, n)' <=> Chosen(u, n)
                /\ Own(u, n)' <=> Own(u, n)
  BY <1>1, <1>4, <1>5 DEF Chosen, Own
<1>7. \A u, n : Blocked(u, n) => Blocked(u, n)'
  <2> SUFFICES ASSUME NEW u, NEW n, Blocked(u, n) PROVE Blocked(u, n)'
    OBVIOUS
  <2>1. PICK Q \in SUBSET Member : Majority(Q) /\ \A j \in Q : raft[j].current_term > u /\ ~Held(u, j, n)
    BY DEF Blocked
  <2>2. Majority(Q)' /\ \A j \in Q : raft'[j].current_term > u /\ ~Held(u, j, n)'
    BY <1>2, <1>4, <1>5, <2>1
  <2> QED
    BY <2>2 DEF Blocked
<1>8. \A H, t, n : Backed(H, t, n)' <=> Backed(H, t, n)
  BY <1>1, <1>6 DEF Backed
<1>9. LedgerInv'
  <2>1. /\ \A t \in DOMAIN ledger :
             /\ t \in Nat /\ ledger[t] \in Seq(Entry) /\ Len(ledger[t]) > 0
             /\ ledger[t][Len(ledger[t])].term = t
             /\ Sound(ledger[t], ledger)
             /\ \A k \in 1 .. Len(ledger[t]) : ledger[t][k].term <= t /\ ledger[t][k].index = k
        /\ \A t \in Nat : t \in DOMAIN ledger <=> \E l \in Member : <<t, l>> \in elected
        /\ \A t \in Nat, l \in Member : <<t, l>> \in elected => t <= raft'[l].current_term
    BY <1>2 DEF LogInv, LedgerInv
  <2> QED
    BY <1>1, <2>1 DEF LedgerInv, Sound, Agree
<1>10. ASSUME NEW j \in Member PROVE MemberLog(j)'
  <2>1. MemberLog(j)
    BY DEF LogInv
  <2>2. PICK H : H = History(raft[j])
    OBVIOUS
  <2>3. History(raft'[j]) = H
    BY <1>2, <2>2
  <2>4. Backed(H, raft[j].current_term, raft[j].commit_index)'
    <3>1. PICK t, n : t = raft[j].current_term /\ n = raft[j].commit_index
      OBVIOUS
    <3>2. Backed(H, t, n)
      BY <2>1, <2>2, <3>1 DEF MemberLog
    <3>3. Backed(H, t, n)'
      BY <1>8, <3>2
    <3>4. raft'[j].current_term = t /\ raft'[j].commit_index = n
      BY <1>2, <3>1
    <3> QED
      BY <3>3, <3>4
  <2>5. raft'[j].role = "Leader" =>
           \A p \in peers(j) : (raft[j].match_index[p] = 0 \/ Acked(raft[j].current_term, p, raft[j].match_index[p]))'
    <3>1. SUFFICES ASSUME raft'[j].role = "Leader", NEW p \in peers(j)
                   PROVE  (raft[j].match_index[p] = 0 \/ Acked(raft[j].current_term, p, raft[j].match_index[p]))'
      BY DEF peers
    <3>2. PICK t, n : t = raft[j].current_term /\ n = raft[j].match_index[p]
      OBVIOUS
    <3>3. n = 0 \/ Acked(t, p, n)
      BY <1>2, <2>1, <3>1, <3>2 DEF MemberLog
    <3>4. n = 0 \/ Acked(t, p, n)'
      BY <1>3, <3>3
    <3>5. raft'[j].current_term = t /\ raft'[j].match_index[p] = n
      BY <1>2, <3>1, <3>2
    <3> QED
      BY <3>4, <3>5
  <2>6. /\ Shape(raft[j])' /\ Sound(History(raft[j]), ledger)'
        /\ (\A k \in 1 .. Len(History(raft[j])) : History(raft[j])[k].term <= raft[j].current_term)'
    BY <1>1, <1>2, <2>1 DEF MemberLog, Sound, Agree
  <2>7. (Backed(History(raft[j]), raft[j].current_term, raft[j].commit_index))'
    BY <2>3, <2>4
  <2>8. (raft[j].role = "Leader" =>
           <<raft[j].current_term, j>> \in elected /\ ledger[raft[j].current_term] = History(raft[j]))'
    BY <1>1, <1>2, <2>1 DEF MemberLog
  <2>9. /\ (raft[j].role = "Candidate" => raft[j].current_term > 0 /\ <<raft[j].current_term, j>> \notin elected)'
        /\ (raft[j].voted_for # None => <<raft[j].current_term, j, raft[j].voted_for>> \in voted)'
    BY <1>1, <1>2, <2>1 DEF MemberLog
  <2> QED
    BY <2>5, <2>6, <2>7, <2>8, <2>9 DEF MemberLog, peers
<1>11. AckInv'
  BY <1>1, <1>2, <1>4 DEF LogInv, AckInv
<1>12. BallotInv'
  BY <1>1, <1>2, <1>4, <1>6 DEF LogInv, BallotInv
<1>13. SafeInv'
  BY <1>1, <1>6, <1>7 DEF LogInv, SafeInv
<1>14. ASSUME NEW m \in msgs PROVE MessageOK(m)'
  <2>1. MessageOK(m) /\ m.from \in Member
    BY DEF LogInv, Envelope
  <2> QED
    BY <1>1, <1>2, <1>8, <2>1 DEF MessageOK
<1> QED
  BY <1>1, <1>9, <1>10, <1>11, <1>12, <1>13, <1>14 DEF LogInv

\* A restart keeps the log and the commit index, and steps down.
LEMMA RestartLog ==
    ASSUME ElectionInv, LogInv, NEW i \in Member, Restart(i)
    PROVE  LogInv'
<1> DEFINE r == raft[i]
           s == [Fresh EXCEPT !.current_term = r.current_term, !.voted_for = r.voted_for,
                              !.log = r.log, !.base_index = r.base_index, !.base_term = r.base_term,
                              !.snapshot = r.snapshot, !.commit_index = r.commit_index]
<1>1. raft' = [raft EXCEPT ![i] = s] /\ UNCHANGED <<msgs, elected, voted, ledger, acked>>
  BY DEF Restart
<1>2. Struct(r) /\ Shape(r)
  BY DEF ElectionInv, MemberInv, LogInv, MemberLog
<1>3. /\ LogSame(r, s) /\ s.current_term = r.current_term /\ s.voted_for = r.voted_for
      /\ s.role = "Follower" /\ s.leader_id = None /\ s.acked_since_check = {}
      /\ s.next_index = [p \in Member |-> 1] /\ s.match_index = [p \in Member |-> 0]
      /\ s.snapshot_inflight = [p \in Member |-> 0]
  <2> HIDE DEF r
  <2> QED
    BY DEF Fresh, LogSame
<1> HIDE DEF s
<1>4. Shape(s)
  BY <1>2, <1>3, LogSameShape
<1>5. raft'[i] = s /\ \A j \in Member : j # i => raft'[j] = raft[j]
  BY <1>1 DEF ElectionInv
<1>6. ASSUME NEW j \in Member PROVE Idle(j)
  <2>1. CASE j = i
    BY <1>3, <1>4, <1>5, <2>1 DEF Idle
  <2>2. CASE j # i
    BY <1>5, <2>2 DEF Idle, LogSame, LogInv, MemberLog
  <2> QED
    BY <2>1, <2>2
<1>7. \A m \in msgs : Envelope(m)
  BY DEF ElectionInv, BallotsInv
<1> QED
  BY <1>1, <1>6, <1>7, IdleLog

\* So does a stuttering step.
LEMMA StutterLog ==
    ASSUME ElectionInv, LogInv, UNCHANGED vars
    PROVE  LogInv'
<1>1. raft' = raft /\ UNCHANGED <<msgs, elected, voted, ledger, acked>>
  BY DEF vars
<1>2. \A j \in Member : Idle(j)
  BY <1>1 DEF Idle, LogSame, LogInv, MemberLog
<1>3. \A m \in msgs : Envelope(m)
  BY DEF ElectionInv, BallotsInv
<1> QED
  BY <1>1, <1>2, <1>3, IdleLog

\* It holds of a fresh group.
LEMMA InitLog == Init => LogInv
<1> SUFFICES ASSUME Init PROVE LogInv
  OBVIOUS
<1>1. /\ \A i \in Member : raft[i] = Fresh
      /\ msgs = {} /\ elected = {} /\ voted = {} /\ ledger = <<>> /\ acked = {}
  BY DEF Init
<1>2. DOMAIN ledger = {}
  BY <1>1
<1>3. Shape(Fresh) /\ History(Fresh) = <<>> /\ Len(History(Fresh)) = 0
  <2>1. last_index(Fresh) = 0
    BY DEF last_index, Fresh
  <2>2. Shape(Fresh)
    BY <2>1 DEF Shape, Fresh
  <2> QED
    BY <2>2 DEF History, Fresh
<1>4. /\ Fresh.role = "Follower" /\ Fresh.voted_for = None /\ Fresh.commit_index = 0
  BY DEF Fresh
<1> HIDE DEF Init
<1>5. LedgerInv
  BY <1>1, <1>2 DEF LedgerInv
<1>6. ASSUME NEW i \in Member PROVE MemberLog(i)
  <2>1. Sound(<<>>, ledger) /\ Backed(History(Fresh), Fresh.current_term, 0)
    BY DEF Sound, Backed
  <2> QED
    BY <1>1, <1>3, <1>4, <2>1 DEF MemberLog
<1>7. AckInv /\ BallotInv /\ SafeInv
  BY <1>1, <1>2 DEF AckInv, BallotInv, SafeInv
<1> QED
  BY <1>1, <1>5, <1>6, <1>7 DEF LogInv

\* Every step but a restart is the drain of a good result.
LEMMA NextGood ==
    ASSUME ElectionInv, LogInv, Next
    PROVE  \/ \E i \in Member : Restart(i)
           \/ \E i \in Member : \E received, res :
                 Good(i, raft[i], res) /\ LogGood(i, raft[i], res) /\ Perform(i, received, res)
<1> DEFINE Fine(i, received, res) == Good(i, raft[i], res) /\ LogGood(i, raft[i], res) /\ Perform(i, received, res)
<1>1. ASSUME NEW i \in Member, ElectionTimeout(i) PROVE \E received, res : Fine(i, received, res)
  <2>1. Perform(i, {}, start_pre_election(i, raft[i]))
    BY <1>1 DEF ElectionTimeout
  <2>2. Good(i, raft[i], start_pre_election(i, raft[i]))
    BY TimeoutGood DEF ElectionInv
  <2>3. LogGood(i, raft[i], start_pre_election(i, raft[i]))
    BY TimeoutLog DEF ElectionInv, MemberInv, LogInv
  <2> QED
    BY <2>1, <2>2, <2>3
<1>2. ASSUME NEW i \in Member, Heartbeat(i) PROVE \E received, res : Fine(i, received, res)
  <2>1. Perform(i, {}, broadcast_append(i, raft[i])) /\ raft[i].role = "Leader"
    BY <1>2 DEF Heartbeat
  <2>2. MemberInv(i) /\ Struct(raft[i])
    BY DEF ElectionInv, MemberInv
  <2>3. Good(i, raft[i], broadcast_append(i, raft[i]))
    BY <2>2, BroadcastSame, SameGood
  <2>4. LogGood(i, raft[i], broadcast_append(i, raft[i]))
    BY <2>1, HeartbeatLog
  <2> QED
    BY <2>1, <2>3, <2>4
<1>3. ASSUME NEW i \in Member, CheckQuorum(i) PROVE \E received, res : Fine(i, received, res)
  <2> DEFINE s == [raft[i] EXCEPT !.acked_since_check = {}]
             out == Nothing(IF Cardinality(raft[i].acked_since_check) + 1 < quorum
                            THEN become_follower(s, s.current_term, None) ELSE s)
  <2>1. Perform(i, {}, out) /\ raft[i].role = "Leader"
    BY <1>3 DEF CheckQuorum
  <2>2. Good(i, raft[i], out)
    BY CheckGood DEF ElectionInv
  <2>3. LogGood(i, raft[i], out)
    BY <2>1, CheckLog
  <2> HIDE DEF out
  <2> QED
    BY <2>1, <2>2, <2>3
<1>4. ASSUME NEW i \in Member, NEW c \in Command, Propose(i, c) PROVE \E received, res : Fine(i, received, res)
  <2> DEFINE entry == [term |-> raft[i].current_term, index |-> last_index(raft[i]) + 1, command |-> c]
             out == broadcast_append(i, maybe_advance_commit(i, [raft[i] EXCEPT !.log = Append(@, entry)]))
  <2>1. Perform(i, {}, out) /\ raft[i].role = "Leader"
    BY <1>4 DEF Propose
  <2>2. Good(i, raft[i], out)
    BY ProposeGood DEF ElectionInv
  <2>3. LogGood(i, raft[i], out)
    BY <2>1, ProposeLog
  <2> HIDE DEF out
  <2> QED
    BY <2>1, <2>2, <2>3
<1>5. ASSUME NEW m \in msgs, Receive(m) PROVE m.to \in Member /\ \E received, res : Fine(m.to, received, res)
  <2>1. PICK quiet \in BOOLEAN : Perform(m.to, {m}, step(m.to, raft[m.to], m, quiet))
    BY <1>5 DEF Receive
  <2>2. m.to \in Member /\ BallotsInv /\ MemberInv(m.to)
    BY DEF ElectionInv, BallotsInv, Envelope
  <2>3. Good(m.to, raft[m.to], step(m.to, raft[m.to], m, quiet))
    BY <2>2, StepGood
  <2>4. LogGood(m.to, raft[m.to], step(m.to, raft[m.to], m, quiet))
    BY StepLog
  <2> QED
    BY <2>1, <2>2, <2>3, <2>4
<1> QED
  BY <1>1, <1>2, <1>3, <1>4, <1>5 DEF Next

\* Every step keeps the invariant.
LEMMA NextLog ==
    ASSUME ElectionInv, LogInv, Next
    PROVE  LogInv'
<1>1. ElectionInv'
  BY NextElection
<1>2. CASE \E i \in Member : Restart(i)
  BY <1>2, RestartLog
<1>3. ASSUME NEW i \in Member, NEW received, NEW res, Good(i, raft[i], res), LogGood(i, raft[i], res),
             Perform(i, received, res)
      PROVE  LogInv'
  BY <1>1, <1>3, PerformKeepsLog
<1> QED
  BY <1>2, <1>3, NextGood

----------------------------------------------------------------------------
(* What the invariant says of the members.                                 *)

\* Agreement is equality of prefixes.
LEMMA AgreeSubSeq ==
    ASSUME NEW a \in Seq(Entry), NEW b \in Seq(Entry), NEW n \in Nat, Agree(a, b, n)
    PROVE  SubSeq(a, 1, n) = SubSeq(b, 1, n)
<1> DEFINE x == SubSeq(a, 1, n)
           y == SubSeq(b, 1, n)
<1>1. n <= Len(a) /\ n <= Len(b) /\ \A k \in 1 .. n : a[k] = b[k]
  BY DEF Agree
<1>2. /\ x \in Seq(Entry) /\ y \in Seq(Entry) /\ Len(x) = n /\ Len(y) = n
      /\ \A k \in 1 .. n : x[k] = a[k] /\ y[k] = b[k]
  BY <1>1
<1> HIDE DEF x, y
<1>3. Len(x) = Len(y) /\ \A k \in 1 .. Len(x) : x[k] = y[k]
  BY <1>1, <1>2
<1>4. x = y
  BY <1>2, <1>3, SameSeq
<1> QED
  BY <1>4 DEF x, y

\* The first n entries of a are a prefix of whatever agrees with them.
LEMMA AgreePrefix ==
    ASSUME NEW a \in Seq(Entry), NEW b \in Seq(Entry), NEW n \in Nat, Agree(a, b, n),
           NEW m \in Nat, n <= m, m <= Len(b)
    PROVE  IsPrefix(SubSeq(a, 1, n), b) /\ IsPrefix(SubSeq(a, 1, n), SubSeq(b, 1, m))
<1> DEFINE x == SubSeq(a, 1, n)
           y == SubSeq(b, 1, m)
<1>1. n <= Len(a) /\ n <= Len(b) /\ Len(b) \in Nat /\ \A k \in 1 .. n : a[k] = b[k]
  BY DEF Agree
<1>2. /\ x \in Seq(Entry) /\ y \in Seq(Entry) /\ Len(x) = n /\ Len(y) = m
      /\ \A k \in 1 .. n : x[k] = a[k]
      /\ \A k \in 1 .. m : y[k] = b[k]
  BY <1>1
<1> HIDE DEF x, y
<1>3. Agree(x, b, n) /\ Agree(x, y, n)
  <2>1. \A k \in 1 .. n : x[k] = b[k]
    BY <1>1, <1>2
  <2>2. \A k \in 1 .. n : k \in 1 .. m
    BY <1>1
  <2>3. \A k \in 1 .. n : x[k] = y[k]
    BY <1>2, <2>1, <2>2
  <2>4. n <= Len(x) /\ n <= Len(y) /\ n <= Len(b)
    BY <1>1, <1>2
  <2> QED
    BY <2>1, <2>3, <2>4 DEF Agree
<1>4. SubSeq(x, 1, n) = SubSeq(b, 1, n) /\ SubSeq(x, 1, n) = SubSeq(y, 1, n)
  BY <1>2, <1>3, AgreeSubSeq
<1>5. IsPrefix(x, b) /\ IsPrefix(x, y)
  BY <1>1, <1>2, <1>4 DEF IsPrefix
<1> QED
  BY <1>5 DEF x, y

\* The members' histories, and what they have applied.
LEMMA MemberHistory ==
    ASSUME ElectionInv, LogInv, NEW i \in Member
    PROVE  /\ Shape(raft[i]) /\ Struct(raft[i]) /\ MemberLog(i)
           /\ History(raft[i]) \in Seq(Entry) /\ Len(History(raft[i])) = last_index(raft[i])
           /\ Len(History(raft[i])) \in Nat
           /\ raft[i].current_term \in Nat /\ raft[i].commit_index \in Nat
           /\ raft[i].commit_index <= Len(History(raft[i]))
           /\ Sound(History(raft[i]), ledger)
           /\ Backed(History(raft[i]), raft[i].current_term, raft[i].commit_index)
<1>1. Shape(raft[i]) /\ Struct(raft[i]) /\ MemberLog(i)
  BY DEF LogInv, MemberLog, ElectionInv, MemberInv
<1>2. /\ History(raft[i]) \in Seq(Entry) /\ Len(History(raft[i])) = last_index(raft[i])
      /\ last_index(raft[i]) \in Nat
  BY <1>1, HistoryAt
<1> QED
  BY <1>1, <1>2 DEF MemberLog, Shape, Struct

\* The entries of a ledger, or of a history that is sound, are in order of their terms.
LEMMA TermsGrow ==
    ASSUME LogInv, NEW H \in Seq(Entry), Sound(H, ledger), NEW k \in 1 .. Len(H)
    PROVE  /\ H[k].index = k /\ H[k].term \in Nat \ {0}
           /\ k > 1 => H[k - 1].term <= H[k].term
<1> DEFINE u == H[k].term
           G == ledger[u]
<1>1. u \in DOMAIN ledger /\ Agree(H, G, k)
  BY DEF Sound
<1>2. k \in Nat /\ k <= Len(H) /\ Len(H) \in Nat
  OBVIOUS
<1>3. /\ \A n \in 1 .. Len(G) : G[n].term <= u /\ G[n].index = n
      /\ G \in Seq(Entry)
  BY <1>1 DEF LogInv, LedgerInv
<1>4. H[k] \in Entry
  OBVIOUS
<1>5. k \in 1 .. k /\ k \in 1 .. Len(G) /\ H[k] = G[k]
  <2>1. k \in 1 .. k
    OBVIOUS
  <2>2. k <= Len(G) /\ Len(G) \in Nat
    BY <1>1, <1>3 DEF Agree
  <2> QED
    BY <1>1, <2>1, <2>2 DEF Agree
<1>6. u \in Nat \ {0}
  BY <1>4 DEF Entry
<1>7. ASSUME k > 1 PROVE H[k - 1].term <= u
  <2>1. k - 1 \in 1 .. k /\ k - 1 \in 1 .. Len(G)
    BY <1>5, <1>7
  <2>2. H[k - 1] = G[k - 1]
    BY <1>1, <2>1 DEF Agree
  <2> QED
    BY <1>3, <2>1, <2>2
<1> QED
  BY <1>3, <1>5, <1>6, <1>7

\* Two histories with committed entries agree as far as both are committed.
LEMMA BackedAgree ==
    ASSUME LogInv, NEW H, NEW K, Len(H) \in Nat, Len(K) \in Nat, NEW t \in Nat, NEW z \in Nat,
           NEW n \in Nat, NEW m \in Nat, n <= m, Backed(H, t, n), Backed(K, z, m)
    PROVE  Agree(H, K, n)
<1>1. CASE n = 0
  BY <1>1 DEF Agree
<1>2. CASE n # 0
  <2>1. m # 0 /\ \A u \in DOMAIN ledger : u \in Nat
    BY <1>2 DEF LogInv, LedgerInv
  <2>2. PICK u \in DOMAIN ledger : \E c \in Nat : c >= n /\ Chosen(u, c) /\ Agree(H, ledger[u], n)
    BY <1>2 DEF Backed
  <2>3. PICK w \in DOMAIN ledger : \E c \in Nat : c >= m /\ Chosen(w, c) /\ Agree(K, ledger[w], m)
    BY <2>1 DEF Backed
  <2>4. Backed(H, u, n) /\ Backed(K, w, m) /\ u \in Nat /\ w \in Nat
    BY SMTT(30), <2>1, <2>2, <2>3 DEF Backed
  <2>5. PICK v \in DOMAIN ledger : u <= v /\ w <= v
    BY <2>4
  <2>6. Agree(H, ledger[v], n) /\ Agree(K, ledger[v], m)
    BY <2>4, <2>5, BackedInLedger
  <2> QED
    BY <2>6 DEF Agree
<1> QED
  BY <1>1, <1>2

\* A majority holds what is committed.
LEMMA BackedHeld ==
    ASSUME ElectionInv, LogInv, NEW H, Len(H) \in Nat, NEW t \in Nat, NEW n \in Nat \ {0}, Backed(H, t, n)
    PROVE  \E Q \in SUBSET Member : Majority(Q) /\ \A j \in Q : Agree(H, History(raft[j]), n)
<1>1. PICK u \in DOMAIN ledger : \E c \in Nat : c >= n /\ Chosen(u, c) /\ Agree(H, ledger[u], n)
  BY DEF Backed
<1>2. PICK c \in Nat : c >= n /\ Chosen(u, c) /\ Agree(H, ledger[u], n)
  BY <1>1
<1>3. PICK Q \in SUBSET Member : Majority(Q) /\ \A j \in Q : Held(u, j, c)
  BY <1>2 DEF Chosen
<1>4. Own(u, c) /\ c \in Nat \ {0}
  BY <1>2 DEF Chosen, Own
<1>5. u \in Nat /\ SafeInv /\ AckInv
  BY DEF LogInv, LedgerInv
<1>6. ASSUME NEW j \in Q PROVE Agree(H, History(raft[j]), n)
  <2>1. j \in Member /\ Held(u, j, c)
    BY <1>3
  <2>2. ~Overwritten(ledger, u, c, raft[j].current_term)
    <3>1. SUFFICES ASSUME NEW w \in DOMAIN ledger, u < w, ~Agree(ledger[w], ledger[u], c) PROVE FALSE
      BY DEF Overwritten
    <3>2. Blocked(u, c)
      BY <1>4, <1>5, <3>1 DEF SafeInv
    <3>3. PICK P \in SUBSET Member : Majority(P) /\ \A k \in P : ~Held(u, k, c)
      BY <3>2 DEF Blocked
    <3>4. PICK k \in Member : k \in P /\ k \in Q
      BY <1>3, <3>3, MajoritiesMeet
    <3> QED
      BY <1>3, <3>3, <3>4
  <2>3. Agree(History(raft[j]), ledger[u], c)
    BY <1>5, <2>1, <2>2 DEF AckInv
  <2>4. Len(History(raft[j])) \in Nat
    BY <2>1, MemberHistory
  <2> QED
    BY <1>2, <2>3, <2>4 DEF Agree
<1> QED
  BY <1>3, <1>6

----------------------------------------------------------------------------
(* The invariant implies the safety properties.                            *)

\* Entries of the same index and term are the same ledger's, and so is all before them.
LEMMA InvLogMatching == ElectionInv /\ LogInv => LogMatching
<1> SUFFICES ASSUME ElectionInv, LogInv, NEW i \in Member, NEW j \in Member,
                    NEW k \in DOMAIN History(raft[i]) \cap DOMAIN History(raft[j]),
                    History(raft[i])[k].term = History(raft[j])[k].term
             PROVE  SubSeq(History(raft[i]), 1, k) = SubSeq(History(raft[j]), 1, k)
  BY DEF LogMatching
<1>1. PICK a \in Seq(Entry) : a = History(raft[i]) /\ Sound(a, ledger)
  BY MemberHistory
<1>2. PICK b \in Seq(Entry) : b = History(raft[j]) /\ Sound(b, ledger)
  BY MemberHistory
<1>3. k \in 1 .. Len(a) /\ k \in 1 .. Len(b) /\ a[k].term = b[k].term
  BY <1>1, <1>2
<1> HIDE DEF History
<1>4. Agree(a, b, k)
  BY <1>1, <1>2, <1>3 DEF Sound, Agree
<1>5. k \in Nat
  BY <1>3
<1> QED
  BY <1>1, <1>2, <1>4, <1>5, AgreeSubSeq

\* Of two members, the one that has committed less has applied a prefix of the other's history.
LEMMA AppliedPrefix ==
    ASSUME ElectionInv, LogInv, NEW i \in Member, NEW j \in Member,
           raft[i].commit_index <= raft[j].commit_index
    PROVE  IsPrefix(Applied(raft[i]), History(raft[j])) /\ IsPrefix(Applied(raft[i]), Applied(raft[j]))
<1>1. PICK a \in Seq(Entry), n \in Nat, t \in Nat :
         a = History(raft[i]) /\ n = raft[i].commit_index /\ Len(a) \in Nat /\ Backed(a, t, n)
  BY MemberHistory
<1>2. PICK b \in Seq(Entry), m \in Nat, z \in Nat :
         b = History(raft[j]) /\ m = raft[j].commit_index /\ Len(b) \in Nat /\ Backed(b, z, m) /\ m <= Len(b)
  BY MemberHistory
<1>3. n <= m
  BY <1>1, <1>2
<1>4. Agree(a, b, n)
  BY <1>1, <1>2, <1>3, BackedAgree
<1>5. IsPrefix(SubSeq(a, 1, n), b) /\ IsPrefix(SubSeq(a, 1, n), SubSeq(b, 1, m))
  BY <1>2, <1>3, <1>4, AgreePrefix
<1> QED
  BY <1>1, <1>2, <1>5 DEF Applied

\* Applied histories are compared by their commit indices.
LEMMA InvStateMachineSafety == ElectionInv /\ LogInv => StateMachineSafety
<1> SUFFICES ASSUME ElectionInv, LogInv, NEW i \in Member, NEW j \in Member
             PROVE  \/ IsPrefix(Applied(raft[i]), Applied(raft[j]))
                    \/ IsPrefix(Applied(raft[j]), Applied(raft[i]))
  BY DEF StateMachineSafety
<1>1. raft[i].commit_index \in Nat /\ raft[j].commit_index \in Nat
  BY MemberHistory
<1>2. CASE raft[i].commit_index <= raft[j].commit_index
  BY <1>2, AppliedPrefix
<1>3. CASE raft[j].commit_index <= raft[i].commit_index
  BY <1>3, AppliedPrefix
<1> QED
  BY <1>1, <1>2, <1>3

\* A leader's history is the ledger of its term, which has all that was Chosen before.
LEMMA InvLeaderCompleteness == ElectionInv /\ LogInv => LeaderCompleteness
<1> SUFFICES ASSUME ElectionInv, LogInv, NEW i \in Member, NEW l \in Member,
                    raft[l].role = "Leader", raft[l].current_term >= raft[i].current_term
             PROVE  IsPrefix(Applied(raft[i]), History(raft[l]))
  BY DEF LeaderCompleteness
<1>1. PICK a \in Seq(Entry), n \in Nat, t \in Nat :
         a = History(raft[i]) /\ n = raft[i].commit_index /\ t = raft[i].current_term
         /\ Len(a) \in Nat /\ Backed(a, t, n)
  BY MemberHistory
<1>2. PICK b \in Seq(Entry), z \in Nat :
         b = History(raft[l]) /\ z = raft[l].current_term /\ Len(b) \in Nat
  BY MemberHistory
<1>3. z \in DOMAIN ledger /\ ledger[z] = b
  <2>1. MemberLog(l) /\ LedgerInv
    BY DEF LogInv
  <2>2. <<z, l>> \in elected /\ ledger[z] = b
    BY <1>2, <2>1 DEF MemberLog
  <2> QED
    BY <2>1, <2>2 DEF LedgerInv
<1>4. t <= z
  BY <1>1, <1>2
<1>5. Agree(a, b, n)
  BY <1>1, <1>3, <1>4, BackedInLedger
<1>6. n <= Len(b)
  BY <1>5 DEF Agree
<1>7. IsPrefix(SubSeq(a, 1, n), b)
  BY <1>5, <1>6, <1>2, AgreePrefix
<1> QED
  BY <1>1, <1>2, <1>7 DEF Applied

\* The majority that Chose a committed entry holds it still: nothing overwrote it.
LEMMA InvCommittedOnQuorum == ElectionInv /\ LogInv => CommittedOnQuorum
<1> SUFFICES ASSUME ElectionInv, LogInv, NEW i \in Member
             PROVE  Cardinality({j \in Member : IsPrefix(Applied(raft[i]), History(raft[j]))}) >= quorum
  BY DEF CommittedOnQuorum
<1> DEFINE S == {j \in Member : IsPrefix(Applied(raft[i]), History(raft[j]))}
<1>1. PICK a \in Seq(Entry), n \in Nat, t \in Nat :
         a = History(raft[i]) /\ n = raft[i].commit_index
         /\ Len(a) \in Nat /\ n <= Len(a) /\ Backed(a, t, n)
  BY MemberHistory
<1>2. \E Q \in SUBSET Member : Majority(Q) /\ \A j \in Q : Agree(a, History(raft[j]), n)
  <2>1. CASE n = 0
    <3>1. Majority(Member)
      BY MemberAssumption, FS_CardinalityType, FS_EmptySet DEF Majority, quorum
    <3>2. \A j \in Member : Agree(a, History(raft[j]), 0)
      BY <1>1, MemberHistory DEF Agree
    <3> QED
      BY <2>1, <3>1, <3>2
  <2>2. CASE n # 0
    BY <1>1, <2>2, BackedHeld
  <2> QED
    BY <2>1, <2>2
<1>3. PICK Q \in SUBSET Member : Majority(Q) /\ \A j \in Q : Agree(a, History(raft[j]), n)
  BY <1>2
<1>4. ASSUME NEW j \in Q PROVE j \in S
  <2>1. PICK b \in Seq(Entry) : b = History(raft[j]) /\ Len(b) \in Nat
    BY MemberHistory
  <2>2. Agree(a, b, n) /\ n <= Len(b)
    BY <1>3, <2>1 DEF Agree
  <2>3. IsPrefix(SubSeq(a, 1, n), b)
    BY <2>1, <2>2, AgreePrefix
  <2> QED
    BY <1>1, <2>1, <2>3 DEF Applied
<1>5. Q \subseteq S /\ S \subseteq Member
  BY <1>4
<1> HIDE DEF S
<1>6. IsFiniteSet(S) /\ Cardinality(Q) <= Cardinality(S) /\ Cardinality(S) \in Nat /\ Cardinality(Q) \in Nat
  BY <1>5, MemberAssumption, FS_Subset, FS_CardinalityType
<1>7. Cardinality(Q) >= quorum /\ quorum \in Nat
  BY <1>3, MemberAssumption, FS_CardinalityType DEF Majority, quorum
<1> QED
  BY <1>6, <1>7 DEF S

\* What is acked within a term is held in it: only a later leader can overwrite it.
LEMMA InvMatchIndexTruthful == ElectionInv /\ LogInv => MatchIndexTruthful
<1> SUFFICES ASSUME ElectionInv, LogInv, NEW l \in Member, NEW p \in Member, l # p,
                    raft[l].role = "Leader", raft[p].current_term = raft[l].current_term
             PROVE  /\ raft[l].match_index[p] <= Len(History(raft[p]))
                    /\ SubSeq(History(raft[p]), 1, raft[l].match_index[p])
                         = SubSeq(History(raft[l]), 1, raft[l].match_index[p])
  BY DEF MatchIndexTruthful
<1>1. PICK a \in Seq(Entry) : a = History(raft[p]) /\ Len(a) \in Nat
  BY MemberHistory
<1>2. PICK b \in Seq(Entry), n \in Nat, u \in Nat :
         b = History(raft[l]) /\ Len(b) \in Nat /\ n = raft[l].match_index[p] /\ u = raft[l].current_term
  BY MemberHistory DEF Shape
<1>3. Agree(a, b, n)
  <2>1. CASE n = 0
    BY <1>1, <1>2, <2>1 DEF Agree
  <2>2. CASE n # 0
    <3>1. MemberLog(l) /\ LedgerInv /\ AckInv
      BY DEF LogInv
    <3>2. p \in peers(l)
      BY DEF peers
    <3>3. <<u, l>> \in elected /\ ledger[u] = b /\ Acked(u, p, n)
      BY <1>2, <2>2, <3>1, <3>2 DEF MemberLog
    <3>4. u \in DOMAIN ledger /\ \A w \in DOMAIN ledger : w \in Nat
      BY <3>1, <3>3 DEF LedgerInv
    <3>5. Held(u, p, n)
      BY <3>3 DEF Held
    <3>6. ~Overwritten(ledger, u, n, raft[p].current_term)
      BY <1>2, <3>4 DEF Overwritten
    <3>7. Agree(a, ledger[u], n)
      BY <1>1, <3>1, <3>4, <3>5, <3>6 DEF AckInv
    <3> QED
      BY <3>3, <3>7
  <2> QED
    BY <2>1, <2>2
<1>4. n <= Len(a)
  BY <1>3 DEF Agree
<1>5. SubSeq(a, 1, n) = SubSeq(b, 1, n)
  BY <1>3, AgreeSubSeq
<1> QED
  BY <1>1, <1>2, <1>4, <1>5

\* A ledger's entries, as TermsGrow has them.
LEMMA LedgerEntries ==
    ASSUME LogInv, NEW t \in DOMAIN ledger
    PROVE  /\ t \in Nat \ {0} /\ ledger[t] \in Seq(Entry) /\ Len(ledger[t]) \in Nat
           /\ \A k \in 1 .. Len(ledger[t]) :
                 /\ ledger[t][k].index = k /\ ledger[t][k].term \in 1 .. t
                 /\ k > 1 => ledger[t][k - 1].term <= ledger[t][k].term
<1> DEFINE G == ledger[t]
<1>1. /\ t \in Nat /\ G \in Seq(Entry) /\ Len(G) > 0 /\ G[Len(G)].term = t /\ Sound(G, ledger)
      /\ \A k \in 1 .. Len(G) : G[k].term <= t
  BY DEF LogInv, LedgerInv
<1> HIDE DEF G
<1>2. G[Len(G)] \in Entry /\ Len(G) \in Nat
  BY <1>1
<1>3. t # 0
  BY <1>1, <1>2 DEF Entry
<1>4. ASSUME NEW k \in 1 .. Len(G)
      PROVE  /\ G[k].index = k /\ G[k].term \in 1 .. t
             /\ k > 1 => G[k - 1].term <= G[k].term
  <2>1. /\ G[k].index = k /\ G[k].term \in Nat \ {0}
        /\ k > 1 => G[k - 1].term <= G[k].term
    BY <1>1, <1>4, TermsGrow
  <2>2. G[k].term <= t
    BY <1>1
  <2> QED
    BY <1>1, <2>1, <2>2
<1> QED
  BY <1>1, <1>2, <1>3, <1>4 DEF G

\* A request is a run of its term's ledger, whose entries are in order of their terms.
LEMMA InvSentWellFormed == ElectionInv /\ LogInv => SentWellFormed
<1> SUFFICES ASSUME ElectionInv, LogInv, NEW m \in msgs
             PROVE  /\ m.type = "AppendEntries" => entries_are_contiguous(m)
                    /\ m.type = "InstallSnapshot" => /\ snapshot_metadata_is_valid(m)
                                                     /\ Len(m.data) = m.last_included_index
                                                     /\ m.data[Len(m.data)].term = m.last_included_term
  BY DEF SentWellFormed
<1>1. MessageOK(m)
  BY DEF LogInv
<1>2. ASSUME m.type = "AppendEntries" PROVE entries_are_contiguous(m)
  <2>1. m.term \in DOMAIN ledger /\ AppendOK(m, ledger[m.term])
    BY <1>1, <1>2 DEF MessageOK
  <2>2. PICK t \in Nat, G \in Seq(Entry), prev \in Nat, es \in Seq(Entry) :
           /\ t = m.term /\ t \in DOMAIN ledger /\ G = ledger[t]
           /\ prev = m.prev_log_index /\ es = m.entries
    BY <2>1, LedgerEntries DEF AppendOK
  <2>3. /\ t # 0 /\ Len(G) \in Nat /\ Len(es) \in Nat /\ DOMAIN es = 1 .. Len(es)
        /\ prev + Len(es) <= Len(G)
        /\ m.prev_log_term = (IF prev = 0 THEN 0 ELSE G[prev].term)
    BY <2>2, <2>1, LedgerEntries DEF AppendOK
  <2>4. ASSUME NEW k \in 1 .. Len(es) PROVE es[k] = G[prev + k]
    BY <2>2, <2>1 DEF AppendOK
  <2>5. ASSUME NEW k \in 1 .. Len(G)
        PROVE  /\ G[k].index = k /\ G[k].term \in 1 .. t
               /\ k > 1 => G[k - 1].term <= G[k].term
    BY <2>2, LedgerEntries
  <2>6. prev = 0 \/ prev \in 1 .. Len(G)
    BY <2>3
  <2>7. (prev = 0) <=> (m.prev_log_term = 0)
    BY <2>3, <2>6, <2>5
  <2>8. m.prev_log_term \in Nat /\ (prev # 0 => G[prev].term = m.prev_log_term)
    BY <2>3, <2>6, <2>5
  <2>9. ASSUME NEW k \in 1 .. Len(es)
        PROVE  /\ es[k].index = prev + k /\ es[k].term \in 1 .. t
               /\ es[k].term >= (IF k = 1 THEN m.prev_log_term ELSE es[k - 1].term)
    <3>1. PICK n \in 1 .. Len(G) : n = prev + k
      BY <2>3
    <3>2. es[k] = G[n] /\ es[k].index = n /\ es[k].term \in 1 .. t
      BY <2>4, <2>5, <3>1
    <3>3. n > 1 => G[n - 1].term <= es[k].term
      BY <2>5, <3>2
    <3>4. CASE k = 1
      <4>1. prev # 0 => n > 1 /\ n - 1 = prev
        BY <2>6, <3>1, <3>4
      <4> QED
        BY <2>3, <2>8, <3>1, <3>2, <3>3, <3>4, <4>1
    <3>5. CASE k # 1
      <4>1. PICK x \in 1 .. Len(es) : x = k - 1 /\ n > 1 /\ n - 1 = prev + x
        BY SMTT(30), <2>3, <3>1, <3>5
      <4>2. es[x] = G[n - 1] /\ n - 1 \in 1 .. Len(G)
        BY <2>4, <4>1
      <4>3. es[x].term \in 1 .. t /\ es[x].term <= es[k].term
        BY <2>5, <3>3, <4>1, <4>2
      <4> QED
        BY <3>1, <3>2, <3>5, <4>1, <4>3
    <3> QED
      BY <3>1, <3>2, <3>4, <3>5
  <2> QED
    <3>1. m.term > 0
      BY <2>2, <2>3
    <3>2. \A k \in DOMAIN m.entries :
             /\ m.entries[k].index = m.prev_log_index + k
             /\ m.entries[k].term \in 1 .. m.term
             /\ m.entries[k].term >= (IF k = 1 THEN m.prev_log_term ELSE m.entries[k - 1].term)
      BY <2>2, <2>3, <2>9
    <3>3. (m.prev_log_index = 0) <=> (m.prev_log_term = 0)
      BY <2>2, <2>7
    <3> QED
      BY <3>1, <3>2, <3>3 DEF entries_are_contiguous
<1>3. ASSUME m.type = "InstallSnapshot"
      PROVE  /\ snapshot_metadata_is_valid(m)
             /\ Len(m.data) = m.last_included_index
             /\ m.data[Len(m.data)].term = m.last_included_term
  <2>1. m.term \in DOMAIN ledger /\ SnapshotOK(m, ledger[m.term])
    BY <1>1, <1>3 DEF MessageOK
  <2>2. PICK t \in Nat, G \in Seq(Entry), d \in Seq(Entry), n \in Nat :
           /\ t = m.term /\ G = ledger[t] /\ d = m.data /\ n = Len(d)
           /\ t # 0 /\ n > 0 /\ m.last_included_index = n
           /\ Agree(d, G, n) /\ m.last_included_term = G[n].term
           /\ \A k \in 1 .. Len(G) : G[k].term \in 1 .. t
    <3>1. /\ m.term \in Nat \ {0} /\ ledger[m.term] \in Seq(Entry)
          /\ \A k \in 1 .. Len(ledger[m.term]) : ledger[m.term][k].term \in 1 .. m.term
      BY <2>1, LedgerEntries
    <3>2. /\ m.data \in Seq(Entry) /\ Len(m.data) > 0 /\ m.last_included_index = Len(m.data)
          /\ Agree(m.data, ledger[m.term], Len(m.data))
          /\ m.last_included_term = ledger[m.term][Len(m.data)].term
      BY <2>1 DEF SnapshotOK
    <3>3. Len(m.data) \in Nat
      BY <3>2
    <3> QED
      BY <3>1, <3>2, <3>3
  <2>3. n \in 1 .. Len(G) /\ n \in 1 .. n
    BY <2>2 DEF Agree
  <2>4. d[n] = G[n]
    BY <2>2, <2>3 DEF Agree
  <2> QED
    BY <2>2, <2>3, <2>4 DEF snapshot_metadata_is_valid
<1> QED
  BY <1>2, <1>3

\* A history's entries are numbered from one, in order of their terms.
LEMMA InvRecoverable == ElectionInv /\ LogInv => Recoverable
<1> SUFFICES ASSUME ElectionInv, LogInv, NEW i \in Member
             PROVE  /\ Len(raft[i].snapshot) = raft[i].base_index
                    /\ raft[i].base_term = (IF raft[i].base_index = 0 THEN 0
                                            ELSE raft[i].snapshot[raft[i].base_index].term)
                    /\ raft[i].base_index <= raft[i].commit_index
                    /\ raft[i].commit_index <= last_index(raft[i])
                    /\ \A k \in DOMAIN raft[i].log :
                          /\ raft[i].log[k].index = raft[i].base_index + k
                          /\ raft[i].log[k].term >= (IF k = 1 THEN raft[i].base_term
                                                     ELSE raft[i].log[k - 1].term)
                          /\ raft[i].log[k].term <= raft[i].current_term
  BY DEF Recoverable
<1>1. PICK r : r = raft[i]
  OBVIOUS
<1>2. Shape(r) /\ History(r) \in Seq(Entry) /\ Sound(History(r), ledger) /\ r.current_term \in Nat
  BY <1>1, MemberHistory
<1>3. \A k \in 1 .. Len(History(r)) : History(r)[k].term <= r.current_term
  BY <1>1 DEF LogInv, MemberLog
<1>4. PICK s \in Seq(Entry), e \in Seq(Entry), H \in Seq(Entry), b \in Nat :
         s = r.snapshot /\ e = r.log /\ H = History(r) /\ b = r.base_index /\ b = Len(s)
  <2>1. r.snapshot \in Seq(Entry) /\ r.log \in Seq(Entry) /\ r.base_index = Len(r.snapshot)
    BY <1>2 DEF Shape
  <2>2. r.base_index \in Nat
    BY <1>2, HistoryAt
  <2> QED
    BY <1>2, <2>1, <2>2
<1>5. Len(H) = b + Len(e) /\ Len(e) \in Nat
  BY <1>2, <1>4, HistoryAt DEF last_index
<1>6. ASSUME NEW k \in 1 .. Len(e) PROVE H[b + k] = e[k]
  BY <1>2, <1>4, HistoryAt
<1>7. b # 0 => b \in 1 .. Len(H) /\ H[b] = s[b] /\ r.base_term = s[b].term
  <2>1. r.base_term = IF r.base_index = 0 THEN 0 ELSE r.snapshot[r.base_index].term
    BY <1>2 DEF Shape
  <2>2. b # 0 => b \in 1 .. b /\ b \in 1 .. Len(H)
    BY <1>5
  <2>3. b # 0 => H[b] = s[b]
    BY <1>2, <1>4, <2>2, HistoryAt
  <2> QED
    BY <1>4, <2>1, <2>2, <2>3
<1>8. ASSUME NEW k \in 1 .. Len(H)
      PROVE  /\ H[k].index = k /\ H[k].term \in Nat /\ H[k].term <= r.current_term
             /\ k > 1 => H[k - 1].term <= H[k].term
  BY <1>2, <1>3, <1>4, TermsGrow
<1>9. ASSUME NEW k \in 1 .. Len(e)
      PROVE  /\ e[k].index = b + k
             /\ e[k].term >= (IF k = 1 THEN r.base_term ELSE e[k - 1].term)
             /\ e[k].term <= r.current_term
  <2>1. PICK n \in 1 .. Len(H) : n = b + k
    <3>1. Len(H) = b + Len(e) /\ Len(e) \in Nat /\ b \in Nat
      BY <1>5
    <3> QED
      BY <3>1
  <2>2. e[k] = H[n] /\ e[k].index = n /\ e[k].term \in Nat /\ e[k].term <= r.current_term
    BY <1>6, <1>8, <2>1
  <2>3. n > 1 => H[n - 1].term <= e[k].term
    BY <1>8, <2>2
  <2>4. CASE k = 1 /\ b = 0
    <3>1. r.base_term = 0
      BY <1>2, <1>4, <2>4 DEF Shape
    <3> QED
      BY <2>1, <2>2, <2>4, <3>1
  <2>5. CASE k = 1 /\ b # 0
    <3>1. n > 1 /\ n - 1 = b
      BY <2>1, <2>5
    <3> QED
      BY <1>7, <1>8, <2>1, <2>2, <2>3, <2>5, <3>1
  <2>6. CASE k # 1
    <3>1. PICK x \in 1 .. Len(e) : x = k - 1 /\ n > 1 /\ n - 1 = b + x
      BY <1>5, <2>1, <2>6
    <3>2. e[x] = H[n - 1] /\ n - 1 \in 1 .. Len(H)
      BY <1>6, <3>1
    <3>3. e[x].term \in Nat /\ e[x].term <= e[k].term
      BY <1>8, <2>3, <3>1, <3>2
    <3> QED
      BY <2>1, <2>2, <2>6, <3>1, <3>3
  <2> QED
    BY <2>1, <2>2, <2>4, <2>5, <2>6
<1>10. DOMAIN e = 1 .. Len(e)
  OBVIOUS
<1> QED
  BY <1>1, <1>2, <1>4, <1>9, <1>10 DEF Shape

\* What Propose and the timers count.
CountInv == proposed \subseteq Command /\ used \in [Kinds -> Nat]

\* Propose spends commands, and the timers their budgets.
LEMMA NextCount == CountInv /\ [Next]_vars => CountInv'
<1> SUFFICES ASSUME CountInv, [Next]_vars PROVE CountInv'
  OBVIOUS
<1>1. ASSUME NEW k \in Kinds, Spend(k) PROVE used' \in [Kinds -> Nat]
  BY <1>1 DEF Spend, CountInv
<1>2. /\ "timeout" \in Kinds /\ "heartbeat" \in Kinds /\ "check" \in Kinds /\ "restart" \in Kinds
  BY DEF Kinds
<1>3. ASSUME NEW i \in Member PROVE ElectionTimeout(i) => CountInv'
  BY <1>1, <1>2 DEF ElectionTimeout, CountInv
<1>4. ASSUME NEW i \in Member PROVE Heartbeat(i) => CountInv'
  BY <1>1, <1>2 DEF Heartbeat, CountInv
<1>5. ASSUME NEW i \in Member PROVE CheckQuorum(i) => CountInv'
  BY <1>1, <1>2 DEF CheckQuorum, CountInv
<1>6. ASSUME NEW i \in Member, NEW c \in Command PROVE Propose(i, c) => CountInv'
  BY DEF Propose, CountInv
<1>7. ASSUME NEW i \in Member PROVE Restart(i) => CountInv'
  BY <1>1, <1>2 DEF Restart, CountInv
<1>8. ASSUME NEW m \in msgs PROVE Receive(m) => CountInv'
  BY DEF Receive, CountInv
<1>9. UNCHANGED vars => CountInv'
  BY DEF vars, CountInv
<1> QED
  BY <1>3, <1>4, <1>5, <1>6, <1>7, <1>8, <1>9 DEF Next

\* The types follow from the shape of the logs and the election fields.
LEMMA InvTypeOK == ElectionInv /\ LogInv /\ CountInv => TypeOK
<1> SUFFICES ASSUME ElectionInv, LogInv, CountInv PROVE TypeOK
  OBVIOUS
<1>1. ASSUME NEW i \in Member PROVE RaftOK(raft[i])
  <2>1. PICK r : r = raft[i]
    OBVIOUS
  <2>2. Shape(r) /\ Struct(r)
    BY <2>1, MemberHistory
  <2>3. r.log \in Seq(Entry) /\ r.snapshot \in Seq(Entry) /\ r.base_index = Len(r.snapshot)
    BY <2>2 DEF Shape
  <2>4. ASSUME NEW s \in Seq(Entry), NEW k \in DOMAIN s PROVE EntryOK(s[k])
    <3>1. s[k] \in Entry
      OBVIOUS
    <3> QED
      BY <3>1 DEF Entry, EntryOK
  <2>5. r.base_index \in Nat /\ r.base_term \in Nat
    <3>1. r.base_index \in Nat
      BY <2>3
    <3>2. r.base_term = IF r.base_index = 0 THEN 0 ELSE r.snapshot[r.base_index].term
      BY <2>2 DEF Shape
    <3>3. r.base_index # 0 => r.snapshot[r.base_index] \in Entry
      BY <2>3, <3>1
    <3> QED
      BY <3>1, <3>2, <3>3 DEF Entry
  <2> QED
    BY <2>1, <2>2, <2>3, <2>4, <2>5 DEF Shape, Struct, RaftOK
<1>2. elected \subseteq Nat \X Member
  BY DEF ElectionInv, MajorityInv
<1> QED
  BY <1>1, <1>2 DEF TypeOK, CountInv

----------------------------------------------------------------------------
(* The members' logs implement the one log of ReplicatedLog.               *)

\* Of the members of the group, one has committed most.
LEMMA MostCommitted ==
    ASSUME NEW c, \A j \in Member : c[j] \in Nat
    PROVE  \E k \in Member : \A j \in Member : c[j] <= c[k]
<1> DEFINE Above(k) == {j \in Member : c[j] > c[k]}
           S == {Cardinality(Above(k)) : k \in Member}
<1>1. ASSUME NEW k \in Member
      PROVE  IsFiniteSet(Above(k)) /\ Cardinality(Above(k)) \in Nat
  <2>1. Above(k) \subseteq Member
    OBVIOUS
  <2> QED
    BY <2>1, MemberAssumption, FS_Subset, FS_CardinalityType
<1>2. S \in SUBSET Nat /\ S # {}
  BY <1>1, MemberAssumption
<1>3. Min(S) \in S /\ \A x \in S : Min(S) <= x
  <2> HIDE DEF S
  <2> QED
    BY <1>2, LeastOf
<1>4. PICK k \in Member : Min(S) = Cardinality(Above(k))
  BY <1>3
<1>5. ASSUME NEW j \in Member, c[j] > c[k] PROVE FALSE
  <2>1. Above(j) \subseteq Above(k) /\ j \in Above(k) /\ j \notin Above(j)
    BY <1>5
  <2>2. Cardinality(Above(j)) < Cardinality(Above(k))
    <3>1. IsFiniteSet(Above(k)) /\ Above(j) # Above(k)
      BY <1>1, <2>1
    <3> HIDE DEF Above
    <3>2. /\ Cardinality(Above(j)) <= Cardinality(Above(k))
          /\ (Cardinality(Above(k)) = Cardinality(Above(j))) => (Above(k) = Above(j))
      BY <2>1, <3>1, FS_Subset
    <3> QED
      BY <1>1, <3>1, <3>2
  <2>3. Cardinality(Above(j)) \in S
    OBVIOUS
  <2> HIDE DEF S
  <2>4. Cardinality(Above(k)) <= Cardinality(Above(j))
    BY <1>3, <1>4, <2>3
  <2> HIDE DEF Above
  <2> QED
    BY <1>1, <2>2, <2>4
<1> QED
  BY <1>5

\* A prefix, entry by entry.
LEMMA PrefixAt ==
    ASSUME NEW s \in Seq(Entry), NEW t \in Seq(Entry)
    PROVE  IsPrefix(s, t) <=> Agree(s, t, Len(s))
<1>1. Len(s) \in Nat /\ Len(t) \in Nat
  OBVIOUS
<1>2. SubSeq(s, 1, Len(s)) = s
  OBVIOUS
<1>3. ASSUME IsPrefix(s, t) PROVE Agree(s, t, Len(s))
  <2>1. Len(s) <= Len(t) /\ s = SubSeq(t, 1, Len(s))
    BY <1>2, <1>3 DEF IsPrefix
  <2>2. \A k \in 1 .. Len(s) : SubSeq(t, 1, Len(s))[k] = t[k]
    BY <1>1, <2>1
  <2> QED
    BY <1>1, <2>1, <2>2 DEF Agree
<1>4. ASSUME Agree(s, t, Len(s)) PROVE IsPrefix(s, t)
  <2>1. SubSeq(s, 1, Len(s)) = SubSeq(t, 1, Len(s))
    BY <1>1, <1>4, AgreeSubSeq
  <2> QED
    BY <1>4, <2>1 DEF Agree, IsPrefix
<1> QED
  BY <1>3, <1>4

\* What the members have applied: of any two, one a prefix of the other's.
AppliedOK ==
    /\ \A i \in Member : /\ raft[i].commit_index \in Nat /\ Applied(raft[i]) \in Seq(Entry)
                         /\ Len(Applied(raft[i])) = raft[i].commit_index
                         /\ History(raft[i]) \in Seq(Entry)
                         /\ raft[i].commit_index <= Len(History(raft[i]))
    /\ \A i, j \in Member : raft[i].commit_index <= raft[j].commit_index =>
           Agree(Applied(raft[i]), Applied(raft[j]), raft[i].commit_index)
    /\ \E k \in Member : /\ \A j \in Member : raft[j].commit_index <= raft[k].commit_index
                         /\ LongestApplied = Applied(raft[k])

\* Every state of the invariant is such.
LEMMA AppliedLogs == ElectionInv /\ LogInv => AppliedOK
<1> SUFFICES ASSUME ElectionInv, LogInv PROVE AppliedOK
  OBVIOUS
<1>1. ASSUME NEW i \in Member
      PROVE  /\ raft[i].commit_index \in Nat /\ Applied(raft[i]) \in Seq(Entry)
             /\ Len(Applied(raft[i])) = raft[i].commit_index
             /\ History(raft[i]) \in Seq(Entry)
             /\ raft[i].commit_index <= Len(History(raft[i]))
  <2>1. PICK a \in Seq(Entry), n \in Nat : a = History(raft[i]) /\ n = raft[i].commit_index /\ n <= Len(a)
    BY MemberHistory
  <2>2. SubSeq(a, 1, n) \in Seq(Entry) /\ Len(SubSeq(a, 1, n)) = n
    BY <2>1
  <2> QED
    BY <2>1, <2>2 DEF Applied
<1>2. ASSUME NEW i \in Member, NEW j \in Member, raft[i].commit_index <= raft[j].commit_index
      PROVE  Agree(Applied(raft[i]), Applied(raft[j]), raft[i].commit_index)
  BY <1>1, <1>2, AppliedPrefix, PrefixAt
<1>3. \E k \in Member : /\ \A j \in Member : raft[j].commit_index <= raft[k].commit_index
                        /\ LongestApplied = Applied(raft[k])
  <2> DEFINE k == CHOOSE i \in Member : \A j \in Member : raft[j].commit_index <= raft[i].commit_index
             c == [j \in Member |-> raft[j].commit_index]
  <2>1. \A j \in Member : c[j] \in Nat
    BY <1>1
  <2>2. \E i \in Member : \A j \in Member : c[j] <= c[i]
    <3> HIDE DEF c
    <3> QED
      BY <2>1, MostCommitted
  <2>3. \E i \in Member : \A j \in Member : raft[j].commit_index <= raft[i].commit_index
    BY <2>2
  <2>4. k \in Member /\ \A j \in Member : raft[j].commit_index <= raft[k].commit_index
    BY <2>3
  <2>5. LongestApplied = Applied(raft[k])
    BY DEF LongestApplied
  <2> QED
    BY <2>4, <2>5
<1> QED
  BY <1>1, <1>2, <1>3 DEF AppliedOK

\* What a step does to the members' logs: one member commits more, and what it had
\* committed stays as it was.
LEMMA StepGrows ==
    ASSUME ElectionInv, LogInv, Next
    PROVE  \E i \in Member : /\ \A j \in Member : j # i => raft'[j] = raft[j]
                             /\ raft'[i].commit_index >= raft[i].commit_index
                             /\ Agree(History(raft'[i]), History(raft[i]), raft[i].commit_index)
<1>1. ASSUME NEW i \in Member, Restart(i)
      PROVE  /\ \A j \in Member : j # i => raft'[j] = raft[j]
             /\ raft'[i].commit_index = raft[i].commit_index
             /\ History(raft'[i]) = History(raft[i])
  <2>1. raft'[i] = [Fresh EXCEPT !.current_term = raft[i].current_term, !.voted_for = raft[i].voted_for,
                                 !.log = raft[i].log, !.base_index = raft[i].base_index,
                                 !.base_term = raft[i].base_term, !.snapshot = raft[i].snapshot,
                                 !.commit_index = raft[i].commit_index]
    BY <1>1 DEF Restart, ElectionInv
  <2>2. LogSame(raft[i], raft'[i])
    BY <2>1 DEF Fresh, LogSame
  <2>3. \A j \in Member : j # i => raft'[j] = raft[j]
    BY <1>1 DEF Restart, ElectionInv
  <2> QED
    BY <2>2, <2>3, LogSameReads
<1>2. CASE \E i \in Member : Restart(i)
  <2>1. PICK i \in Member : Restart(i)
    BY <1>2
  <2>2. PICK a \in Seq(Entry), n \in Nat : a = History(raft[i]) /\ n = raft[i].commit_index /\ n <= Len(a)
    BY MemberHistory
  <2>3. Agree(a, a, n)
    BY <2>2 DEF Agree
  <2> QED
    BY <1>1, <2>1, <2>2, <2>3
<1>3. ElectionInv'
  BY NextElection
<1>4. ASSUME NEW i \in Member, NEW received, NEW res, Good(i, raft[i], res), LogGood(i, raft[i], res),
             Perform(i, received, res)
      PROVE  /\ \A j \in Member : j # i => raft'[j] = raft[j]
             /\ raft'[i].commit_index >= raft[i].commit_index
             /\ Agree(History(raft'[i]), History(raft[i]), raft[i].commit_index)
  <2>1. Refolded(res.st, raft'[i]) /\ \A j \in Member : j # i => raft'[j] = raft[j]
    BY <1>3, <1>4, PerformMoves DEF Moved
  <2>2. Commits(i, raft[i], res.st)
    BY <1>4 DEF LogGood
  <2> QED
    BY <2>1, <2>2 DEF Refolded, Commits
<1> QED
  BY <1>2, <1>4, NextGood

\* The initial states of the group, and all it reaches, are states of ReplicatedLog.
LEMMA RefineInit == ElectionInv /\ LogInv => Log!Init
<1> SUFFICES ASSUME ElectionInv, LogInv PROVE Log!Init
  OBVIOUS
<1>1. PICK k \in Member : /\ \A j \in Member : raft[j].commit_index <= raft[k].commit_index
                          /\ LongestApplied = Applied(raft[k])
  BY AppliedLogs DEF AppliedOK
<1>2. Len(LongestApplied) = raft[k].commit_index
  BY <1>1, AppliedLogs DEF AppliedOK
<1>3. \A i \in Member : raft[i].commit_index \in 0 .. Len(LongestApplied)
  BY <1>1, <1>2, AppliedLogs DEF AppliedOK
<1> HIDE DEF LongestApplied
<1> QED
  BY <1>3 DEF Log!Init

\* Every step is one of ReplicatedLog, or leaves what it shows as it was.
LEMMA RefineStep ==
    ElectionInv /\ LogInv /\ (ElectionInv /\ LogInv)' /\ [Next]_vars => [Log!Next]_Log!vars
<1>1. (ElectionInv /\ LogInv)' => AppliedOK'
  BY AppliedLogs, PTL
<1> USE DEF Log!vars
<1> DEFINE L == LongestApplied
           A == [i \in Member |-> raft[i].commit_index]
<1> SUFFICES ASSUME ElectionInv, LogInv, (ElectionInv /\ LogInv)', [Next]_vars
             PROVE  Log!Next \/ UNCHANGED <<L, A>>
  OBVIOUS
<1>2. CASE UNCHANGED vars
  BY <1>2 DEF vars, LongestApplied
<1>3. CASE Next
  <2>1. PICK i \in Member : /\ \A j \in Member : j # i => raft'[j] = raft[j]
                            /\ raft'[i].commit_index >= raft[i].commit_index
                            /\ Agree(History(raft'[i]), History(raft[i]), raft[i].commit_index)
    BY <1>3, StepGrows
  <2>2. AppliedOK'
    BY <1>1
  <2>3. PICK k \in Member : /\ \A j \in Member : raft[j].commit_index <= raft[k].commit_index
                            /\ LongestApplied = Applied(raft[k])
    BY AppliedLogs DEF AppliedOK
  <2>4. PICK l \in Member : /\ \A j \in Member : raft'[j].commit_index <= raft'[l].commit_index
                            /\ LongestApplied' = Applied(raft'[l])
    BY <2>2 DEF AppliedOK
  <2>5. \A j \in Member : /\ raft[j].commit_index \in Nat /\ Applied(raft[j]) \in Seq(Entry)
                          /\ Len(Applied(raft[j])) = raft[j].commit_index
                          /\ History(raft[j]) \in Seq(Entry)
                          /\ raft[j].commit_index <= Len(History(raft[j]))
    BY AppliedLogs DEF AppliedOK
  <2>6. \A j \in Member : /\ raft'[j].commit_index \in Nat /\ Applied(raft'[j]) \in Seq(Entry)
                          /\ Len(Applied(raft'[j])) = raft'[j].commit_index
                          /\ History(raft'[j]) \in Seq(Entry)
                          /\ raft'[j].commit_index <= Len(History(raft'[j]))
    BY <2>2 DEF AppliedOK
  <2>7. \A j \in Member : raft[j].commit_index <= raft'[j].commit_index
    <3>1. raft[i].commit_index <= raft'[i].commit_index
      BY <2>1, <2>5, <2>6
    <3>2. ASSUME NEW j \in Member, j # i PROVE raft[j].commit_index <= raft'[j].commit_index
      BY <2>1, <2>5, <3>2
    <3> QED
      BY <3>1, <3>2
  <2>8. PICK a \in Seq(Entry), b \in Seq(Entry), m \in Nat, o \in Nat :
           /\ a = LongestApplied /\ b = LongestApplied'
           /\ m = raft[k].commit_index /\ o = raft'[l].commit_index /\ m = Len(a) /\ o = Len(b)
    BY <2>3, <2>4, <2>5, <2>6
  <2>9. raft'[k].commit_index \in Nat /\ m <= raft'[k].commit_index /\ raft'[k].commit_index <= o
    BY <2>4, <2>8, <2>6, <2>7
  <2>10. Agree(a, b, m)
    <3>1. Agree(Applied(raft[k]), Applied(raft'[k]), m)
      <4>1. CASE k # i
        <5>1. Applied(raft'[k]) = Applied(raft[k]) /\ Len(Applied(raft[k])) = m
          BY <2>1, <2>5, <2>8, <4>1
        <5> QED
          BY <5>1 DEF Agree
      <4>2. CASE k = i
        <5>1. PICK H \in Seq(Entry), K \in Seq(Entry), q \in Nat :
                 H = History(raft'[k]) /\ K = History(raft[k]) /\ q = raft'[k].commit_index
                 /\ q <= Len(H) /\ m <= q /\ m <= Len(K)
          BY <2>5, <2>8, <2>9, <2>6
        <5>2. Agree(H, K, m)
          BY <2>1, <2>8, <4>2, <5>1
        <5>3. Agree(SubSeq(K, 1, m), SubSeq(H, 1, q), m)
          <6>1. /\ Len(SubSeq(K, 1, m)) = m /\ Len(SubSeq(H, 1, q)) = q
                /\ \A x \in 1 .. m : SubSeq(K, 1, m)[x] = K[x]
                /\ \A x \in 1 .. q : SubSeq(H, 1, q)[x] = H[x]
            BY <5>1
          <6>2. \A x \in 1 .. m : x \in 1 .. q
            BY <5>1
          <6> QED
            BY <5>1, <5>2, <6>1, <6>2 DEF Agree
        <5> QED
          BY <2>8, <5>1, <5>3 DEF Applied
      <4> QED
        BY <4>1, <4>2
    <3>2. Agree(Applied(raft'[k]), Applied(raft'[l]), raft'[k].commit_index)
      BY <2>2, <2>4 DEF AppliedOK
    <3>3. \A x \in 1 .. m : x \in 1 .. raft'[k].commit_index
      BY <2>9
    <3>4. /\ a = Applied(raft[k]) /\ b = Applied(raft'[l])
          /\ m <= Len(a) /\ m <= Len(b)
      BY <2>3, <2>4, <2>8, <2>9
    <3> QED
      BY <3>1, <3>2, <3>3, <3>4 DEF Agree
  <2>11. IsPrefix(a, b)
    BY <2>8, <2>10, PrefixAt
  <2>12. ASSUME o <= m PROVE a = b
    <3>1. o = m
      BY <2>9, <2>12
    <3>2. \A x \in 1 .. Len(a) : a[x] = b[x]
      BY <2>8, <2>10 DEF Agree
    <3> QED
      BY <2>8, <3>1, <3>2, SameSeq
  <2>13. CASE raft'[i].commit_index = raft[i].commit_index
    <3>1. \A j \in Member : raft'[j].commit_index = raft[j].commit_index
      BY <2>1, <2>13
    <3>2. o <= m
      BY <2>3, <2>8, <3>1
    <3>3. A' = A
      BY <3>1
    <3> QED
      BY <2>8, <2>12, <3>2, <3>3
  <2>14. CASE raft'[i].commit_index # raft[i].commit_index
    <3>1. A'[i] > A[i]
      <4>1. A'[i] = raft'[i].commit_index /\ A[i] = raft[i].commit_index
        OBVIOUS
      <4>2. raft'[i].commit_index > raft[i].commit_index
        BY SMTT(30), <2>5, <2>14, <2>6, <2>7
      <4> QED
        BY <4>1, <4>2
    <3>2. A' = [A EXCEPT ![i] = A'[i]]
      BY <2>1
    <3>3. IsPrefix(L, L') /\ A'[i] <= Len(L')
      BY <2>4, <2>8, <2>11
    <3>4. ASSUME L' # L PROVE A'[i] = Len(L')
      <4>1. ~(o <= m)
        BY <2>8, <2>12, <3>4
      <4>2. CASE l = i
        BY <2>8, <4>2
      <4>3. CASE l # i
        <5>1. o = raft[l].commit_index
          BY <2>1, <2>8, <4>3
        <5> QED
          BY <2>3, <2>8, <4>1, <5>1
      <4> QED
        BY <4>2, <4>3
    <3>5. Log!Advance(i)
      BY <3>1, <3>2, <3>3, <3>4 DEF Log!Advance, Log!IsPrefix, IsPrefix
    <3> QED
      BY <3>5 DEF Log!Next
  <2> QED
    BY <2>13, <2>14
<1> QED
  BY <1>2, <1>3

----------------------------------------------------------------------------
(* Theorems.                                                               *)

\* ElectionInv and LogInv hold throughout.
LEMMA Invariance == Spec => [](ElectionInv /\ LogInv)
<1>1. Init => ElectionInv /\ LogInv
  BY InitElection, InitLog
<1>2. ElectionInv /\ LogInv /\ [Next]_vars => (ElectionInv /\ LogInv)'
  BY NextElection, StutterElection, NextLog, StutterLog
<1> QED
  BY <1>1, <1>2, PTL DEF Spec

\* Every field of every member's struct keeps its type (the Raft struct, raft.rs:256).
THEOREM EngineTypes == Spec => []TypeOK
<1>1. Init => CountInv
  BY DEF Init, CountInv
<1> QED
  BY <1>1, NextCount, Invariance, InvTypeOK, PTL DEF Spec

\* What ready() hands to the members' state machines, and the snapshots they install,
\* never diverge (raft.rs:1063, 812).
THEOREM MachinesAgree == Spec => []StateMachineSafety
  BY Invariance, InvStateMachineSafety, PTL

\* Entries of the same index and term end equal histories, which the prev_log_index
\* check of handle_append relies on (raft.rs:722).
THEOREM LogsMatch == Spec => []LogMatching
  BY Invariance, InvLogMatching, PTL

\* The log_ok test of handle_request_vote elects only members that hold all that was
\* committed before (raft.rs:631).
THEOREM LeadersComplete == Spec => []LeaderCompleteness
  BY Invariance, InvLeaderCompleteness, PTL

\* What a member reports as committed, which await_commit promises its caller
\* (raft_driver.rs:498), a quorum of the group holds.
THEOREM CommittedIsHeld == Spec => []CommittedOnQuorum
  BY Invariance, InvCommittedOnQuorum, PTL

\* Stale, repeated and snapshot acknowledgements never leave a match_index that claims
\* more than the peer holds (raft.rs:772, 876).
THEOREM MatchIsTruthful == Spec => []MatchIndexTruthful
  BY Invariance, InvMatchIndexTruthful, PTL

\* Every request a leader sends passes its receiver's validation, whatever the leader
\* has compacted and however late it arrives (raft.rs:214, 798).
THEOREM RequestsWellFormed == Spec => []SentWellFormed
  BY Invariance, InvSentWellFormed, PTL

\* Whatever a member persists, validate_persisted would accept at its next start
\* (raft_store.rs:266).
THEOREM StateIsRecoverable == Spec => []Recoverable
  BY Invariance, InvRecoverable, PTL

\* The group implements one log of committed entries that only grows, of which every
\* member applies more and more.
THEOREM ImplementsReplicatedLog == Spec => ImplementsLog
<1>1. Spec => Log!Init
  BY Invariance, RefineInit, PTL DEF Spec
<1>2. Spec => [][Log!Next]_Log!vars
  BY Invariance, RefineStep, PTL DEF Spec
<1> QED
  BY <1>1, <1>2, PTL DEF ImplementsLog, Log!Spec
=============================================================================
