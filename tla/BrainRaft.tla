----------------------------- MODULE BrainRaft -----------------------------
(***************************************************************************)
(* The Raft engine of a brain group (src/src/raft.rs): fixed membership,   *)
(* PreVote, check-quorum, a no-op at the start of every term, conflict     *)
(* back-up hints, log compaction and InstallSnapshot.                      *)
(*                                                                         *)
(* raft[i] is the Raft struct of member i.  Each handler of the code is an *)
(* operator from (member, struct, message) to a result                     *)
(*     [st |-> the struct it leaves, out |-> the messages it sends]        *)
(* so calls compose here in the order the code makes them.                 *)
(*                                                                         *)
(* The driver's contract is taken as given here: the state of a step is    *)
(* durable before its messages leave (module RaftDriver asks whether the   *)
(* driver keeps it).  Hence a step, its fsync and its sends are one action,*)
(* and a crash loses exactly the volatile fields.                          *)
(*                                                                         *)
(* The transport makes one attempt per message, each in a task of its own: *)
(* a message may be lost, delayed without bound and overtaken.  At most    *)
(* MaxInFlight messages are in flight; whatever does not fit is lost.      *)
(* Tick counters are abstracted: a timer may fire at any moment its branch *)
(* of tick() is reachable.                                                 *)
(*                                                                         *)
(* The replicated state machine is abstracted to the sequence of entries   *)
(* folded into it; `snapshot` is that sequence as of base_index, and <<>>  *)
(* stands for the code's None.                                             *)
(***************************************************************************)
EXTENDS Naturals, Sequences, FiniteSets, SequencesExt

CONSTANTS
    Member,            \* the fixed group, MEMBER ids
    Command,           \* control-plane commands; each is proposed at most once
    None,              \* the absent NodeId / the no-op command
    MaxInFlight,       \* bound: messages in flight
    MaxTerm,           \* bound: no pre-election starts at this term
    Budget,            \* bound: how often each timer fires and a member restarts,
                       \* over the whole group (see Kinds)
    MaxSpent,          \* bound: all of these together
    CompactThreshold   \* COMPACT_LOG_THRESHOLD of raft_driver.rs

ASSUME MemberAssumption == IsFiniteSet(Member) /\ Member # {}
ASSUME NoneAssumption == None \notin Member \cup Command
ASSUME CompactAssumption == CompactThreshold \in Nat \ {0}

\* The steps no guard of the code bounds.
Kinds == {"timeout", "heartbeat", "check", "restart"}

ASSUME BoundAssumption == MaxTerm \in Nat /\ MaxInFlight \in Nat /\ Budget \in [Kinds -> Nat] /\ MaxSpent \in Nat

VARIABLES
    raft,       \* [Member -> the Raft struct]
    msgs,       \* messages in flight
    proposed,   \* commands already proposed (bounds Propose)
    used,       \* steps of each kind so far (bounded by Budget)
    elected,    \* history: <<term, member>> of every become_leader
    voted,      \* history: <<term, member, candidate>> of every vote made durable
    ledger,     \* history: [term -> all its leader has held], for the terms with a leader
    acked       \* history: <<term, member, index>> of every acknowledgement sent

vars == <<raft, msgs, proposed, used, elected, voted, ledger, acked>>

Roles == {"Follower", "PreCandidate", "Candidate", "Leader"}

----------------------------------------------------------------------------
(* Reading the struct.                                                     *)

peers(i) == Member \ {i}

\* peers.len().div_ceil(2) + 1
quorum == Cardinality(Member) \div 2 + 1

last_index(r) == r.base_index + Len(r.log)

last_term(r) == IF r.log = <<>> THEN r.base_term ELSE r.log[Len(r.log)].term

in_log(r, index) == r.base_index < index /\ index <= last_index(r)

term_at(r, index) ==
    IF index = r.base_index THEN r.base_term
    ELSE IF in_log(r, index) THEN r.log[index - r.base_index].term
    ELSE 0

\* Everything member state r knows: the entries its snapshot folds in, then its log.
History(r) == r.snapshot \o r.log

\* The state machine a driver holds once it has applied every committed entry.
Applied(r) == SubSeq(History(r), 1, r.commit_index)

MinOf(a, b) == IF a <= b THEN a ELSE b
MaxOf(a, b) == IF a >= b THEN a ELSE b

Result(r, out) == [st |-> r, out |-> out]
Nothing(r) == Result(r, {})

----------------------------------------------------------------------------
(* Sending.                                                                *)

AppendEntries(i, r, p) ==
    LET prev == r.next_index[p] - 1 IN
    [type |-> "AppendEntries", from |-> i, to |-> p, term |-> r.current_term,
     prev_log_index |-> prev, prev_log_term |-> term_at(r, prev),
     entries |-> IF in_log(r, prev + 1) THEN SubSeq(r.log, prev + 1 - r.base_index, Len(r.log)) ELSE <<>>,
     leader_commit |-> r.commit_index]

InstallSnapshot(i, r, p) ==
    [type |-> "InstallSnapshot", from |-> i, to |-> p, term |-> r.current_term,
     last_included_index |-> r.base_index, last_included_term |-> r.base_term,
     data |-> r.snapshot]

\* Mutant: off by one at the snapshot boundary.
behind_off_by_one(r, p) == r.next_index[p] < r.base_index

\* A peer that needs a compacted entry is sent the snapshot instead.
behind(r, p) == r.next_index[p] <= r.base_index

\* send_append to each of ps, with the snapshot boundary recorded as in flight.
send_append(i, r, ps) ==
    LET shipped == {p \in ps : behind(r, p) /\ r.snapshot # <<>>} IN
    Result([r EXCEPT !.snapshot_inflight =
                [p \in Member |-> IF p \in shipped THEN r.base_index ELSE @[p]]],
           {InstallSnapshot(i, r, p) : p \in shipped}
               \cup {AppendEntries(i, r, p) : p \in {q \in ps : ~behind(r, q)}})

broadcast_append(i, r) == send_append(i, r, peers(i))

RequestVotes(i, r, term, pre_vote) ==
    {[type |-> "RequestVote", from |-> i, to |-> p, term |-> term,
      last_log_index |-> last_index(r), last_log_term |-> last_term(r),
      pre_vote |-> pre_vote] : p \in peers(i)}

RequestVoteResp(i, to, term, granted, pre_vote) ==
    [type |-> "RequestVoteResp", from |-> i, to |-> to, term |-> term,
     granted |-> granted, pre_vote |-> pre_vote]

AppendEntriesResp(i, to, term, success, match_index) ==
    [type |-> "AppendEntriesResp", from |-> i, to |-> to, term |-> term,
     success |-> success, match_index |-> match_index]

InstallSnapshotResp(i, to, term, success, index) ==
    [type |-> "InstallSnapshotResp", from |-> i, to |-> to, term |-> term,
     success |-> success, last_included_index |-> index]

----------------------------------------------------------------------------
(* Elections.                                                              *)

\* Mutant: forgets the vote on every step-down, not only on a newer term.
become_follower_forgets(r, term, leader) ==
    [r EXCEPT !.current_term = MaxOf(term, @),
              !.voted_for = None,
              !.role = "Follower",
              !.leader_id = leader,
              !.votes = {},
              !.snapshot_inflight = [p \in Member |-> 0]]

become_follower(r, term, leader) ==
    [r EXCEPT !.current_term = MaxOf(term, @),
              !.voted_for = IF term > r.current_term THEN None ELSE @,
              !.role = "Follower",
              !.leader_id = leader,
              !.votes = {},
              !.snapshot_inflight = [p \in Member |-> 0]]

become_leader(i, r) ==
    LET noop == [term |-> r.current_term, index |-> last_index(r) + 1, command |-> None] IN
    broadcast_append(i,
        [r EXCEPT !.role = "Leader",
                  !.leader_id = i,
                  !.next_index = [p \in Member |-> last_index(r) + 1],
                  !.match_index = [p \in Member |-> 0],
                  !.snapshot_inflight = [p \in Member |-> 0],
                  !.acked_since_check = {},
                  !.log = Append(@, noop)])

maybe_win_election(i, r) ==
    IF r.role = "Candidate" /\ Cardinality(r.votes) >= quorum
    THEN become_leader(i, r)
    ELSE Nothing(r)

start_election(i, r) ==
    LET cand == [r EXCEPT !.current_term = @ + 1,
                          !.voted_for = i,
                          !.role = "Candidate",
                          !.leader_id = None,
                          !.votes = {i}]
        won == maybe_win_election(i, cand)
    IN  Result(won.st, RequestVotes(i, cand, cand.current_term, FALSE) \cup won.out)

maybe_win_pre_election(i, r) ==
    IF r.role = "PreCandidate" /\ Cardinality(r.votes) >= quorum
    THEN start_election(i, r)
    ELSE Nothing(r)

start_pre_election(i, r) ==
    LET pre == [r EXCEPT !.role = "PreCandidate", !.votes = {i}]
        won == maybe_win_pre_election(i, pre)
    IN  Result(won.st, RequestVotes(i, pre, r.current_term + 1, TRUE) \cup won.out)

----------------------------------------------------------------------------
(* Inbound requests.                                                       *)

\* Mutant: compares only the lengths of the logs.
log_ok_by_length(r, m) == m.last_log_index >= last_index(r)

log_ok(r, m) ==
    \/ m.last_log_term > last_term(r)
    \/ m.last_log_term = last_term(r) /\ m.last_log_index >= last_index(r)

\* `quiet`: election_elapsed >= election_min_ticks on this member.
grants_pre_vote(r, m, quiet) ==
    m.term >= r.current_term /\ log_ok(r, m) /\ (r.leader_id = None \/ quiet)

\* Mutant: a member votes for whoever asks.
grants_vote_again(r, m) == m.term = r.current_term /\ log_ok(r, m)

grants_vote(r, m) ==
    m.term = r.current_term /\ log_ok(r, m) /\ r.voted_for \in {None, m.from}

handle_request_vote(i, r, m, quiet) ==
    LET s == IF ~m.pre_vote /\ m.term > r.current_term
             THEN become_follower(r, m.term, None) ELSE r
        granted == m.term > 0 /\ (IF m.pre_vote THEN grants_pre_vote(s, m, quiet) ELSE grants_vote(s, m))
    IN  Result(IF granted /\ ~m.pre_vote THEN [s EXCEPT !.voted_for = m.from] ELSE s,
               {RequestVoteResp(i, m.from, s.current_term, granted, m.pre_vote)})

entries_are_contiguous(m) ==
    /\ m.term > 0
    /\ (m.prev_log_index = 0) <=> (m.prev_log_term = 0)
    /\ \A k \in DOMAIN m.entries :
          /\ m.entries[k].index = m.prev_log_index + k
          /\ m.entries[k].term \in 1 .. m.term
          /\ m.entries[k].term >= (IF k = 1 THEN m.prev_log_term ELSE m.entries[k - 1].term)

\* Mutant: an entry already held is never compared.
conflicts_none(r, m) == {}

\* Positions of m.entries that contradict an entry r already holds.
conflicts(r, m) ==
    {k \in DOMAIN m.entries : /\ m.entries[k].index <= last_index(r)
                              /\ term_at(r, m.entries[k].index) # m.entries[k].term}

\* truncate_from refuses to drop an entry at or below commit_index.
refuses(r, m) ==
    conflicts(r, m) # {} /\ m.entries[Min(conflicts(r, m))].index <= r.commit_index

\* The log after the splice loop: the suffix from the first conflict is replaced;
\* without one, only entries beyond the end of the log are appended.
spliced_log(r, m) ==
    LET tail == {k \in DOMAIN m.entries : m.entries[k].index > last_index(r)} \cup conflicts(r, m)
        k == Min(tail)
    IN  IF refuses(r, m) \/ tail = {} THEN r.log
        ELSE SubSeq(r.log, 1, m.entries[k].index - 1 - r.base_index)
                \o SubSeq(m.entries, k, Len(m.entries))

\* The highest index the request proved equal.
confirmed(r, m) ==
    m.prev_log_index + (IF refuses(r, m) THEN Min(conflicts(r, m)) - 1 ELSE Len(m.entries))

splice(r, m) ==
    LET commit == MinOf(m.leader_commit, confirmed(r, m)) IN
    [r EXCEPT !.log = spliced_log(r, m),
              !.commit_index = IF refuses(r, m) THEN @ ELSE MaxOf(commit, @)]

\* Mutant: the term at prev_log_index is not compared.
prev_matches_any(r, m) == TRUE

prev_matches(r, m) ==
    m.prev_log_index = 0 \/ term_at(r, m.prev_log_index) = m.prev_log_term

handle_append(i, r, m) ==
    LET Reply(s, success, match) ==
            Result(s, {AppendEntriesResp(i, m.from, s.current_term, success, match)})
        s == become_follower(r, m.term, m.from)
    IN  IF m.term < r.current_term THEN Reply(r, FALSE, 0)
        ELSE IF ~entries_are_contiguous(m) THEN
            LET t == IF m.term > r.current_term THEN become_follower(r, m.term, None) ELSE r
            IN  Reply(t, FALSE, last_index(t))
        ELSE IF m.prev_log_index > last_index(s) THEN Reply(s, FALSE, last_index(s))
        ELSE IF ~prev_matches(s, m) THEN Reply(s, FALSE, m.prev_log_index - 1)
        ELSE Reply(splice(s, m), ~refuses(s, m), confirmed(s, m))

snapshot_metadata_is_valid(m) ==
    m.term > 0 /\ m.last_included_index > 0 /\ m.last_included_term \in 1 .. m.term

\* Mutant: the kept suffix starts at the boundary entry instead of after it.
install_off_by_one(r, m) ==
    [r EXCEPT !.log = IF m.last_included_index <= last_index(r)
                      THEN SubSeq(@, m.last_included_index - r.base_index, Len(@))
                      ELSE <<>>,
              !.base_index = m.last_included_index,
              !.base_term = m.last_included_term,
              !.snapshot = m.data,
              !.commit_index = MaxOf(@, m.last_included_index)]

\* Adopt the leader's snapshot, keeping a log suffix that agrees at its boundary.
install(r, m) ==
    LET boundary_agrees == /\ term_at(r, m.last_included_index) = m.last_included_term
                           /\ m.last_included_index <= last_index(r)
    IN  [r EXCEPT !.log = IF boundary_agrees
                          THEN SubSeq(@, m.last_included_index - r.base_index + 1, Len(@))
                          ELSE <<>>,
                  !.base_index = m.last_included_index,
                  !.base_term = m.last_included_term,
                  !.snapshot = m.data,
                  !.commit_index = MaxOf(@, m.last_included_index)]

handle_install_snapshot(i, r, m) ==
    LET Reply(s, success, index) ==
            Result(s, {InstallSnapshotResp(i, m.from, s.current_term, success, index)})
        s == become_follower(r, m.term, m.from)
    IN  IF m.term < r.current_term THEN Reply(r, FALSE, 0)
        ELSE IF ~snapshot_metadata_is_valid(m) THEN
            Reply(IF m.term > r.current_term THEN become_follower(r, m.term, None) ELSE r, FALSE, 0)
        ELSE IF m.last_included_index <= MaxOf(s.base_index, s.commit_index)
             THEN Reply(s, TRUE, m.last_included_index)
        ELSE Reply(install(s, m), TRUE, m.last_included_index)

----------------------------------------------------------------------------
(* Inbound responses.                                                      *)

\* Indices above commit_index of the current term that a quorum has matched.
committable(i, r) ==
    {n \in r.commit_index + 1 .. last_index(r) :
        /\ term_at(r, n) = r.current_term
        /\ Cardinality({p \in peers(i) : r.match_index[p] >= n}) + 1 >= quorum}

maybe_advance_commit(i, r) ==
    [r EXCEPT !.commit_index = IF committable(i, r) = {} THEN @ ELSE Max(committable(i, r))]

handle_vote_resp(i, r, m) ==
    IF m.term > r.current_term THEN Nothing(become_follower(r, m.term, None))
    ELSE IF m.granted /\ m.pre_vote /\ r.role = "PreCandidate"
         THEN maybe_win_pre_election(i, [r EXCEPT !.votes = @ \cup {m.from}])
    ELSE IF m.granted /\ ~m.pre_vote /\ r.role = "Candidate" /\ m.term = r.current_term
         THEN maybe_win_election(i, [r EXCEPT !.votes = @ \cup {m.from}])
    ELSE Nothing(r)

\* Record that p holds our log through `acknowledged`; tell everyone if that commits.
acknowledge(i, r, p, acknowledged) ==
    LET matched == MaxOf(acknowledged, r.match_index[p])
        s == [r EXCEPT !.match_index[p] = matched, !.next_index[p] = matched + 1]
        t == maybe_advance_commit(i, s)
    IN  IF t.commit_index > s.commit_index THEN broadcast_append(i, t) ELSE Nothing(t)

\* Mutant: no floor at index 1.
rewind_unbounded(i, r, p, hint) ==
    LET next == MinOf(hint + 1, r.next_index[p] - 1)
    IN  IF next < r.next_index[p] THEN send_append(i, [r EXCEPT !.next_index[p] = next], {p})
        ELSE Nothing(r)

\* A failed consistency check: rewind strictly, and retry at once only if that moved.
rewind(i, r, p, hint) ==
    LET previous == r.next_index[p]
        next == MinOf(hint + 1, MaxOf(previous - 1, 1))
    IN  IF next < previous THEN send_append(i, [r EXCEPT !.next_index[p] = next], {p})
        ELSE Nothing(r)

handle_append_resp(i, r, m) ==
    LET s == [r EXCEPT !.acked_since_check = @ \cup {m.from}] IN
    IF m.term > r.current_term THEN Nothing(become_follower(r, m.term, None))
    ELSE IF r.role # "Leader" \/ m.term # r.current_term THEN Nothing(r)
    ELSE IF m.success THEN acknowledge(i, s, m.from, MinOf(m.match_index, last_index(s)))
    ELSE rewind(i, s, m.from, m.match_index)

handle_install_snapshot_resp(i, r, m) ==
    LET s == [r EXCEPT !.acked_since_check = @ \cup {m.from}]
        sent == r.snapshot_inflight[m.from]
    IN  IF m.term > r.current_term THEN Nothing(become_follower(r, m.term, None))
        ELSE IF r.role # "Leader" \/ m.term # r.current_term THEN Nothing(r)
        ELSE IF m.success
             THEN acknowledge(i, [s EXCEPT !.snapshot_inflight[m.from] = 0], m.from,
                              MinOf(m.last_included_index, sent))
        ELSE Nothing(s)

----------------------------------------------------------------------------
(* Actions.                                                                *)

Fresh ==
    [current_term |-> 0, voted_for |-> None, log |-> <<>>,
     base_index |-> 0, base_term |-> 0, snapshot |-> <<>>,
     role |-> "Follower", commit_index |-> 0, leader_id |-> None,
     votes |-> {}, acked_since_check |-> {},
     next_index |-> [p \in Member |-> 1], match_index |-> [p \in Member |-> 0],
     snapshot_inflight |-> [p \in Member |-> 0]]

Init ==
    /\ raft = [i \in Member |-> Fresh]
    /\ msgs = {}
    /\ proposed = {}
    /\ used = [k \in Kinds |-> 0]
    /\ elected = {} /\ voted = {} /\ ledger = <<>> /\ acked = {}

\* One delivery attempt per message; any that do not fit are lost.
Network(received, sent) ==
    LET all == (msgs \ received) \cup sent IN
    /\ msgs' \in SUBSET all
    /\ Cardinality(msgs') = MinOf(Cardinality(all), MaxInFlight)

\* compact(): fold the entries through `index` into the snapshot.
compact(r, index) ==
    IF index <= r.base_index \/ index > r.commit_index THEN r
    ELSE [r EXCEPT !.log = SubSeq(@, index - r.base_index + 1, Len(@)),
                   !.base_index = index,
                   !.base_term = term_at(r, index),
                   !.snapshot = SubSeq(History(r), 1, index)]

\* maybe_compact() at the end of every drain: ready() has by then handed out, and
\* the drain applied, everything through commit_index.
maybe_compact(r) ==
    IF Len(r.log) >= CompactThreshold THEN compact(r, r.commit_index) ELSE r

\* What member i acknowledges holding, to the leader of which term.
Acks(i, out) ==
    {<<m.term, i, m.match_index>> : m \in {n \in out : n.type = "AppendEntriesResp" /\ n.success}}
      \cup {<<m.term, i, m.last_included_index>> :
               m \in {n \in out : n.type = "InstallSnapshotResp" /\ n.success}}

\* drain(): member i finishes a step that consumed the messages `received` with
\* result res.  Its state is durable, then it compacts, then its messages leave.
Perform(i, received, res) ==
    /\ raft' = [raft EXCEPT ![i] = maybe_compact(res.st)]
    /\ Network(received, res.out)
    /\ elected' = IF res.st.role = "Leader" THEN elected \cup {<<res.st.current_term, i>>} ELSE elected
    /\ voted' = IF res.st.voted_for = None THEN voted
                ELSE voted \cup {<<res.st.current_term, i, res.st.voted_for>>}
    /\ ledger' = IF res.st.role = "Leader"
                 THEN [t \in DOMAIN ledger \cup {res.st.current_term} |->
                          IF t = res.st.current_term THEN History(res.st) ELSE ledger[t]]
                 ELSE ledger
    /\ acked' = acked \cup Acks(i, res.out)

Spent == used.timeout + used.heartbeat + used.check + used.restart

\* One more step of kind k, within its bound.
Spend(k) == used[k] < Budget[k] /\ Spent < MaxSpent /\ used' = [used EXCEPT ![k] = @ + 1]

\* tick(): the randomized election timeout of a non-leader elapses.
ElectionTimeout(i) ==
    /\ raft[i].role # "Leader"
    /\ raft[i].current_term < MaxTerm
    /\ Spend("timeout")
    /\ Perform(i, {}, start_pre_election(i, raft[i]))
    /\ UNCHANGED proposed

\* tick(): a leader's heartbeat interval elapses.
Heartbeat(i) ==
    /\ raft[i].role = "Leader"
    /\ Spend("heartbeat")
    /\ Perform(i, {}, broadcast_append(i, raft[i]))
    /\ UNCHANGED proposed

\* tick(): a leader's check-quorum window closes.
CheckQuorum(i) ==
    LET r == raft[i]
        s == [r EXCEPT !.acked_since_check = {}]
    IN  /\ r.role = "Leader"
        /\ Spend("check")
        /\ Perform(i, {}, Nothing(IF Cardinality(r.acked_since_check) + 1 < quorum
                              THEN become_follower(s, s.current_term, None)
                              ELSE s))
        /\ UNCHANGED proposed

\* propose(): the leader appends a command; a group of one commits it at once.
Propose(i, c) ==
    LET r == raft[i]
        entry == [term |-> r.current_term, index |-> last_index(r) + 1, command |-> c]
    IN  /\ r.role = "Leader"
        /\ c \notin proposed
        /\ Perform(i, {}, broadcast_append(i, maybe_advance_commit(i, [r EXCEPT !.log = Append(@, entry)])))
        /\ proposed' = proposed \cup {c}
        /\ UNCHANGED used

\* A crash and Raft::new over the recovered Persisted.
Restart(i) ==
    LET r == raft[i] IN
    /\ Spend("restart")
    /\ raft' = [raft EXCEPT ![i] =
          [Fresh EXCEPT !.current_term = r.current_term, !.voted_for = r.voted_for,
                        !.log = r.log, !.base_index = r.base_index, !.base_term = r.base_term,
                        !.snapshot = r.snapshot, !.commit_index = r.commit_index]]
    /\ UNCHANGED <<msgs, proposed, elected, voted, ledger, acked>>

\* step(): dispatch one message to its handler.
step(i, r, m, quiet) ==
    CASE m.type = "RequestVote"         -> handle_request_vote(i, r, m, quiet)
      [] m.type = "RequestVoteResp"     -> handle_vote_resp(i, r, m)
      [] m.type = "AppendEntries"       -> handle_append(i, r, m)
      [] m.type = "AppendEntriesResp"   -> handle_append_resp(i, r, m)
      [] m.type = "InstallSnapshot"     -> handle_install_snapshot(i, r, m)
      [] m.type = "InstallSnapshotResp" -> handle_install_snapshot_resp(i, r, m)

Receive(m) ==
    /\ \E quiet \in BOOLEAN : Perform(m.to, {m}, step(m.to, raft[m.to], m, quiet))
    /\ UNCHANGED <<proposed, used>>

Next ==
    \/ \E i \in Member :
          \/ ElectionTimeout(i)
          \/ Heartbeat(i)
          \/ CheckQuorum(i)
          \/ \E c \in Command : Propose(i, c)
          \/ Restart(i)
    \/ \E m \in msgs : Receive(m)

Spec == Init /\ [][Next]_vars
----------------------------------------------------------------------------
(* Properties.                                                             *)

EntryOK(e) == /\ e.term \in Nat \ {0}
              /\ e.index \in Nat \ {0}
              /\ e.command \in Command \cup {None}

RaftOK(r) ==
    /\ r.current_term \in Nat /\ r.base_index \in Nat /\ r.base_term \in Nat /\ r.commit_index \in Nat
    /\ r.voted_for \in Member \cup {None} /\ r.leader_id \in Member \cup {None}
    /\ r.role \in Roles
    /\ r.votes \subseteq Member /\ r.acked_since_check \subseteq Member
    /\ \A k \in DOMAIN r.log : EntryOK(r.log[k])
    /\ \A k \in DOMAIN r.snapshot : EntryOK(r.snapshot[k])
    /\ r.next_index \in [Member -> Nat \ {0}]
    /\ r.match_index \in [Member -> Nat] /\ r.snapshot_inflight \in [Member -> Nat]

\* Type invariant of the engine's fields.
TypeOK ==
    /\ \A i \in Member : RaftOK(raft[i])
    /\ proposed \subseteq Command /\ used \in [Kinds -> Nat]
    /\ elected \subseteq (Nat \X Member)

\* At most one member ever becomes leader of a term (become_leader, raft.rs:538),
\* over lost, repeated and stale votes and over restarts between vote and tally.
ElectionSafety ==
    \A a, b \in elected : a[1] = b[1] => a[2] = b[2]

\* Any two members' state machines agree as far as both have applied: the commands
\* ready() hands out and the snapshots installed never diverge (raft.rs:1063, 812).
StateMachineSafety ==
    \A i, j \in Member : \/ IsPrefix(Applied(raft[i]), Applied(raft[j]))
                         \/ IsPrefix(Applied(raft[j]), Applied(raft[i]))

\* Two histories with an entry of the same index and term agree up to it, which is
\* what the prev_log_index check of handle_append relies on (raft.rs:722).
LogMatching ==
    \A i, j \in Member :
        LET a == History(raft[i])  b == History(raft[j]) IN
        \A k \in DOMAIN a \cap DOMAIN b :
            a[k].term = b[k].term => SubSeq(a, 1, k) = SubSeq(b, 1, k)

\* A leader holds everything any member of its term or an older one has committed
\* (the log_ok test of handle_request_vote, raft.rs:631).
LeaderCompleteness ==
    \A i, l \in Member :
        (raft[l].role = "Leader" /\ raft[l].current_term >= raft[i].current_term)
            => IsPrefix(Applied(raft[i]), History(raft[l]))

\* What a member reports as committed is in the log or snapshot of a quorum, which
\* is what await_commit promises its caller (raft_driver.rs:498).
CommittedOnQuorum ==
    \A i \in Member :
        Cardinality({j \in Member : IsPrefix(Applied(raft[i]), History(raft[j]))}) >= quorum

\* A leader's match_index for a peer still in its term is true of that peer's log,
\* whatever stale, repeated or snapshot acknowledgement set it (raft.rs:772, 876).
MatchIndexTruthful ==
    \A l \in Member, p \in Member :
        (l # p /\ raft[l].role = "Leader" /\ raft[p].current_term = raft[l].current_term)
            => LET n == raft[l].match_index[p] IN
               /\ n <= Len(History(raft[p]))
               /\ SubSeq(History(raft[p]), 1, n) = SubSeq(History(raft[l]), 1, n)

\* Everything a real leader sends is a contiguous run, no term of it ahead of the
\* sender's (the comment of entries_are_contiguous, raft.rs:214), and every snapshot
\* sent folds in exactly the entries its boundary claims.
SentWellFormed ==
    \A m \in msgs :
        /\ m.type = "AppendEntries" => entries_are_contiguous(m)
        /\ m.type = "InstallSnapshot" => /\ snapshot_metadata_is_valid(m)
                                         /\ Len(m.data) = m.last_included_index
                                         /\ m.data[Len(m.data)].term = m.last_included_term

\* The slab agrees with the indices: base, log, snapshot and commit index fit
\* together, which validate_persisted demands on recovery (raft_store.rs:266).
Recoverable ==
    \A i \in Member :
        LET r == raft[i] IN
        /\ Len(r.snapshot) = r.base_index
        /\ r.base_term = (IF r.base_index = 0 THEN 0 ELSE r.snapshot[r.base_index].term)
        /\ r.base_index <= r.commit_index /\ r.commit_index <= last_index(r)
        /\ \A k \in DOMAIN r.log :
              /\ r.log[k].index = r.base_index + k
              /\ r.log[k].term >= (IF k = 1 THEN r.base_term ELSE r.log[k - 1].term)
              /\ r.log[k].term <= r.current_term

\* What the member with the greatest commit index has applied.
LongestApplied ==
    LET i == CHOOSE i \in Member : \A j \in Member : raft[j].commit_index <= raft[i].commit_index
    IN  Applied(raft[i])

Log == INSTANCE ReplicatedLog WITH
    committed <- LongestApplied, applied <- [i \in Member |-> raft[i].commit_index]

\* The engine implements ReplicatedLog: one log of committed entries that only grows,
\* of which every member applies more and more, over deposed leaders with
\* conflicting suffixes, restarts and installed snapshots.
ImplementsLog == Log!Spec

\* The durable vote: a term never goes back, and within a term a vote once cast
\* is never withdrawn or moved.
VoteIsFinal ==
    [][\A i \in Member :
          /\ raft'[i].current_term >= raft[i].current_term
          /\ (raft'[i].current_term = raft[i].current_term /\ raft[i].voted_for # None)
                => raft'[i].voted_for = raft[i].voted_for]_vars
============================================================================
