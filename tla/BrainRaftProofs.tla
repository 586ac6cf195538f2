------------------------- MODULE BrainRaftProofs -------------------------
(***************************************************************************)
(* Proofs about BrainRaft's elections, for any group, any number of terms  *)
(* and messages in flight.  A handler's result is Good when it keeps the   *)
(* term and the vote from moving back, counts only votes that were cast,   *)
(* and grants only the vote it recorded.  Every handler is shown to be     *)
(* Good; one lemma shows that a drain of a Good result keeps ElectionInv.  *)
(***************************************************************************)
EXTENDS BrainRaft, FiniteSetTheorems, TLAPS

Fields == {"current_term", "voted_for", "log", "base_index", "base_term", "snapshot",
           "role", "commit_index", "leader_id", "votes", "acked_since_check",
           "next_index", "match_index", "snapshot_inflight"}

\* A Raft struct whose election fields have their types.
Struct(r) ==
    /\ r = [f \in Fields |-> r[f]]
    /\ r.current_term \in Nat
    /\ r.voted_for \in Member \cup {None}
    /\ r.role \in Roles
    /\ r.votes \subseteq Member

\* s differs from r outside the election fields only.
Same(r, s) ==
    /\ Struct(s)
    /\ s.current_term = r.current_term
    /\ s.voted_for = r.voted_for
    /\ s.role = r.role
    /\ s.votes = r.votes

\* s is r stepped down to term t.
Demoted(r, t, s) ==
    /\ Struct(s)
    /\ s.current_term = MaxOf(t, r.current_term)
    /\ s.voted_for = IF t > r.current_term THEN None ELSE r.voted_for
    /\ s.role = "Follower"

Types == {"RequestVote", "RequestVoteResp", "AppendEntries", "AppendEntriesResp",
          "InstallSnapshot", "InstallSnapshotResp"}

\* A message of member i; a granted vote is in the history of votes.
Envelope(m) == m.type \in Types /\ m.from \in Member /\ m.to \in Member /\ m.term \in Nat

IsVote(m) == m.type = "RequestVoteResp" /\ m.granted /\ ~m.pre_vote

\* The result of a step of member i that leaves no vote in its messages.
Plain(i, out) == \A m \in out : Envelope(m) /\ m.from = i /\ m.type # "RequestVoteResp"

Contends(r) == r.role \in {"Candidate", "Leader"}

\* What every handler owes: r is member i's struct before, res its result.
Good(i, r, res) ==
    /\ Struct(res.st)
    /\ res.st.current_term >= r.current_term
    /\ (res.st.current_term = r.current_term /\ r.voted_for # None) => res.st.voted_for = r.voted_for
    /\ Contends(res.st) =>
          \A j \in res.st.votes : \/ <<res.st.current_term, j, i>> \in voted
                                  \/ j = i /\ res.st.voted_for = i
    /\ res.st.role = "Leader" => Cardinality(res.st.votes) >= quorum
    /\ \A m \in res.out :
          /\ Envelope(m) /\ m.from = i
          /\ IsVote(m) => m.term = res.st.current_term /\ m.to = res.st.voted_for

\* The part of ElectionInv about one member.
MemberInv(i) ==
    LET r == raft[i] IN
    /\ Struct(r)
    /\ Contends(r) => \A j \in r.votes : <<r.current_term, j, i>> \in voted
    /\ r.role = "Leader" => Cardinality(r.votes) >= quorum

VotesInv ==
    \A t \in Nat, j, c \in Member :
        <<t, j, c>> \in voted =>
            /\ t <= raft[j].current_term
            /\ t = raft[j].current_term => raft[j].voted_for = c
            /\ \A d \in Member : <<t, j, d>> \in voted => c = d

BallotsInv == \A m \in msgs : Envelope(m) /\ (IsVote(m) => <<m.term, m.from, m.to>> \in voted)

MajorityInv ==
    /\ elected \subseteq Nat \X Member
    /\ \A t \in Nat, l \in Member :
          <<t, l>> \in elected => \E Q \in SUBSET Member :
                                     /\ Cardinality(Q) >= quorum
                                     /\ \A j \in Q : <<t, j, l>> \in voted

ElectionInv ==
    /\ raft = [i \in Member |-> raft[i]]
    /\ \A i \in Member : MemberInv(i)
    /\ VotesInv
    /\ BallotsInv
    /\ MajorityInv

----------------------------------------------------------------------------
(* The operators the handlers are built from.                              *)

\* Compaction leaves the election fields alone.
LEMMA CompactSame ==
    ASSUME NEW r, Struct(r)
    PROVE  Same(r, maybe_compact(r))
  BY DEF Struct, Same, maybe_compact, compact, Fields

\* Sending appends and snapshots leaves the election fields alone.
LEMMA SendSame ==
    ASSUME NEW r, Struct(r), NEW i \in Member, NEW ps \in SUBSET Member
    PROVE  /\ Same(r, send_append(i, r, ps).st)
           /\ Plain(i, send_append(i, r, ps).out)
<1>1. Same(r, send_append(i, r, ps).st)
  BY DEF Struct, Same, send_append, Result, Fields
<1>2. ASSUME NEW m \in send_append(i, r, ps).out
      PROVE  Envelope(m) /\ m.from = i /\ m.type # "RequestVoteResp"
  BY <1>2 DEF send_append, Result, AppendEntries, InstallSnapshot, Envelope, Types, Struct
<1> QED
  BY <1>1, <1>2 DEF Plain

\* So does a broadcast.
LEMMA BroadcastSame ==
    ASSUME NEW r, Struct(r), NEW i \in Member
    PROVE  /\ Same(r, broadcast_append(i, r).st)
           /\ Plain(i, broadcast_append(i, r).out)
<1>1. peers(i) \in SUBSET Member
  BY DEF peers
<1> QED
  BY <1>1, SendSame DEF broadcast_append

\* Stepping down keeps the vote of an unchanged term.
LEMMA FollowerDemoted ==
    ASSUME NEW r, Struct(r), NEW t \in Nat, NEW l
    PROVE  Demoted(r, t, become_follower(r, t, l))
  BY DEF Struct, Demoted, become_follower, MaxOf, Fields, Roles

\* s is r, except that a candidate may have become leader on a quorum of votes.
MayLead(r, s) ==
    /\ Struct(s)
    /\ s.current_term = r.current_term
    /\ s.voted_for = r.voted_for
    /\ s.votes = r.votes
    /\ s.role = r.role \/ (r.role = "Candidate" /\ s.role = "Leader" /\ Cardinality(r.votes) >= quorum)

\* Counting votes makes a leader of a candidate with a quorum, and changes nothing else.
LEMMA WinMayLead ==
    ASSUME NEW r, Struct(r), NEW i \in Member
    PROVE  /\ MayLead(r, maybe_win_election(i, r).st)
           /\ Plain(i, maybe_win_election(i, r).out)
<1> DEFINE noop == [term |-> r.current_term, index |-> last_index(r) + 1, command |-> None]
           s == [r EXCEPT !.role = "Leader",
                          !.leader_id = i,
                          !.next_index = [p \in Member |-> last_index(r) + 1],
                          !.match_index = [p \in Member |-> 0],
                          !.snapshot_inflight = [p \in Member |-> 0],
                          !.acked_since_check = {},
                          !.log = Append(@, noop)]
<1>1. CASE r.role = "Candidate" /\ Cardinality(r.votes) >= quorum
  <2>1. maybe_win_election(i, r) = broadcast_append(i, s)
    BY <1>1 DEF maybe_win_election, become_leader
  <2>2. /\ Struct(s) /\ s.role = "Leader" /\ s.current_term = r.current_term
        /\ s.voted_for = r.voted_for /\ s.votes = r.votes
    BY DEF Struct, Fields, Roles
  <2>3. Same(s, broadcast_append(i, s).st) /\ Plain(i, broadcast_append(i, s).out)
    BY <2>2, BroadcastSame
  <2> HIDE DEF s
  <2> QED
    BY <1>1, <2>1, <2>2, <2>3 DEF Same, MayLead
<1>2. CASE ~(r.role = "Candidate" /\ Cardinality(r.votes) >= quorum)
  BY <1>2 DEF maybe_win_election, Nothing, Result, MayLead, Plain
<1> QED
  BY <1>1, <1>2

\* Vote requests are plain messages of their sender.
LEMMA RequestsPlain ==
    ASSUME NEW r, NEW i \in Member, NEW t \in Nat, NEW pre_vote
    PROVE  Plain(i, RequestVotes(i, r, t, pre_vote))
  BY DEF Plain, RequestVotes, peers, Envelope, Types

\* A result in a newer term with the member's own vote alone.
LEMMA CandidateGood ==
    ASSUME NEW r, Struct(r), NEW i \in Member, NEW res, Struct(res.st),
           res.st.current_term = r.current_term + 1, res.st.voted_for = i, res.st.votes = {i},
           res.st.role = "Leader" => Cardinality({i}) >= quorum, Plain(i, res.out)
    PROVE  Good(i, r, res)
<1>1. r.current_term \in Nat
  BY DEF Struct
<1>2. res.st.current_term >= r.current_term /\ res.st.current_term # r.current_term
  BY <1>1
<1>3. \A m \in res.out : Envelope(m) /\ m.from = i /\ ~IsVote(m)
  BY DEF Plain, IsVote
<1> QED
  BY <1>2, <1>3 DEF Good

\* A candidacy opens a new term with one vote, the candidate's own.
LEMMA ElectionGood ==
    ASSUME NEW r, Struct(r), NEW i \in Member
    PROVE  Good(i, r, start_election(i, r)) /\ Plain(i, start_election(i, r).out)
<1> DEFINE cand == [r EXCEPT !.current_term = @ + 1,
                             !.voted_for = i,
                             !.role = "Candidate",
                             !.leader_id = None,
                             !.votes = {i}]
           won == maybe_win_election(i, cand)
           requests == RequestVotes(i, cand, cand.current_term, FALSE)
<1>1. /\ Struct(cand) /\ cand.current_term = r.current_term + 1 /\ cand.voted_for = i
      /\ cand.role = "Candidate" /\ cand.votes = {i}
  <2>1. /\ cand.current_term = r.current_term + 1 /\ cand.voted_for = i
        /\ cand.role = "Candidate" /\ cand.votes = {i}
    BY DEF Struct, Fields
  <2>2. cand = [f \in Fields |-> cand[f]]
    BY DEF Struct, Fields
  <2> HIDE DEF cand
  <2>3. cand.current_term \in Nat /\ {i} \subseteq Member
    BY <2>1 DEF Struct
  <2> QED
    BY <2>1, <2>2, <2>3 DEF Struct, Roles
<1>2. start_election(i, r).st = won.st /\ start_election(i, r).out = requests \cup won.out
  BY DEF start_election, Result
<1> HIDE DEF cand
<1>3. MayLead(cand, won.st) /\ Plain(i, won.out)
  BY <1>1, WinMayLead
<1>4. Plain(i, requests)
  BY <1>1, RequestsPlain DEF Struct
<1>5. Plain(i, start_election(i, r).out)
  BY <1>2, <1>3, <1>4 DEF Plain
<1>6. /\ Struct(won.st) /\ won.st.current_term = r.current_term + 1
      /\ won.st.voted_for = i /\ won.st.votes = {i}
      /\ won.st.role = "Leader" => Cardinality({i}) >= quorum
  BY <1>1, <1>3 DEF MayLead
<1> HIDE DEF won
<1>7. Good(i, r, start_election(i, r))
  BY <1>2, <1>5, <1>6, CandidateGood
<1> QED
  BY <1>5, <1>7

\* A result that leaves the election fields alone, sent by a member whose own struct
\* satisfied the invariant.
LEMMA SameGood ==
    ASSUME NEW i \in Member, MemberInv(i), NEW res, Same(raft[i], res.st), Plain(i, res.out)
    PROVE  Good(i, raft[i], res)
  BY DEF MemberInv, Same, Good, Plain, IsVote, Contends, Struct

\* A result that steps down.
LEMMA DemotedGood ==
    ASSUME NEW r, Struct(r), NEW i \in Member, NEW t \in Nat, NEW res, Demoted(r, t, res.st),
           \A m \in res.out : Envelope(m) /\ m.from = i /\ m.type # "RequestVoteResp"
    PROVE  Good(i, r, res)
  BY DEF Struct, Demoted, Good, IsVote, Contends, MaxOf

\* A pre-vote round is no candidacy; with a quorum of pre-votes an election starts.
LEMMA PreElectionGood ==
    ASSUME NEW r, Struct(r), NEW i \in Member, r.role = "PreCandidate"
    PROVE  /\ Good(i, r, maybe_win_pre_election(i, r))
           /\ Plain(i, maybe_win_pre_election(i, r).out)
<1>1. CASE Cardinality(r.votes) >= quorum
  BY <1>1, ElectionGood DEF maybe_win_pre_election
<1>2. CASE ~(Cardinality(r.votes) >= quorum)
  BY <1>2 DEF maybe_win_pre_election, Nothing, Result, Good, Plain, Contends, Struct
<1> QED
  BY <1>1, <1>2

----------------------------------------------------------------------------
(* The handlers.                                                           *)

\* A tick that times out starts a pre-vote round.
LEMMA TimeoutGood ==
    ASSUME NEW i \in Member, MemberInv(i)
    PROVE  Good(i, raft[i], start_pre_election(i, raft[i]))
<1> DEFINE r == raft[i]
           pre == [r EXCEPT !.role = "PreCandidate", !.votes = {i}]
           won == maybe_win_pre_election(i, pre)
           requests == RequestVotes(i, pre, r.current_term + 1, TRUE)
           res == start_pre_election(i, r)
<1>1. Struct(r)
  BY DEF MemberInv
<1>2. /\ Struct(pre) /\ pre.role = "PreCandidate"
      /\ pre.current_term = r.current_term /\ pre.voted_for = r.voted_for
  BY <1>1 DEF Struct, Fields, Roles
<1>3. res.st = won.st /\ res.out = requests \cup won.out
  BY DEF start_pre_election, Result
<1> HIDE DEF pre, res
<1>4. Good(i, pre, won) /\ Plain(i, won.out)
  BY <1>2, PreElectionGood
<1>5. Plain(i, requests)
  <2>1. r.current_term + 1 \in Nat
    BY <1>1 DEF Struct
  <2> QED
    BY <2>1, RequestsPlain
<1> HIDE DEF won, requests, r
<1>6. \A m \in res.out : Envelope(m) /\ m.from = i /\ ~IsVote(m)
  BY <1>3, <1>4, <1>5 DEF Plain, IsVote
<1>7. Good(i, r, res)
  BY <1>2, <1>3, <1>4, <1>6 DEF Good
<1> QED
  BY <1>7 DEF res, r

\* A tallied vote is one that was cast for this candidate in this term.
LEMMA VoteRespGood ==
    ASSUME NEW m \in msgs, BallotsInv, MemberInv(m.to), m.type = "RequestVoteResp"
    PROVE  Good(m.to, raft[m.to], handle_vote_resp(m.to, raft[m.to], m))
<1> DEFINE i == m.to
           r == raft[m.to]
           s == [r EXCEPT !.votes = @ \cup {m.from}]
           res == handle_vote_resp(i, r, m)
           pre == m.granted /\ m.pre_vote /\ r.role = "PreCandidate"
           vote == m.granted /\ ~m.pre_vote /\ r.role = "Candidate" /\ m.term = r.current_term
<1>1. Struct(r) /\ i \in Member /\ m.from \in Member /\ m.term \in Nat
  BY DEF MemberInv, BallotsInv, Envelope
<1>2. /\ Struct(s) /\ s.role = r.role /\ s.votes = r.votes \cup {m.from}
      /\ s.current_term = r.current_term /\ s.voted_for = r.voted_for
  <2>1. /\ s.role = r.role /\ s.votes = r.votes \cup {m.from}
        /\ s.current_term = r.current_term /\ s.voted_for = r.voted_for
    BY <1>1 DEF Struct, Fields
  <2>2. s = [f \in Fields |-> s[f]]
    BY <1>1 DEF Struct, Fields
  <2> HIDE DEF s
  <2> QED
    BY <1>1, <2>1, <2>2 DEF Struct
<1>3. CASE m.term > r.current_term
  <2>1. res = Nothing(become_follower(r, m.term, None))
    BY <1>3 DEF handle_vote_resp
  <2>2. Demoted(r, m.term, res.st) /\ res.out = {}
    BY <1>1, <2>1, FollowerDemoted DEF Nothing, Result
  <2> QED
    BY <1>1, <2>2, DemotedGood
<1>4. CASE ~(m.term > r.current_term) /\ pre
  <2>1. res = maybe_win_pre_election(i, s)
    BY <1>4 DEF handle_vote_resp
  <2> HIDE DEF s
  <2>2. Good(i, s, res)
    BY <1>1, <1>2, <1>4, <2>1, PreElectionGood
  <2> QED
    BY <1>2, <2>2 DEF Good
<1>5. CASE ~(m.term > r.current_term) /\ vote
  <2>1. res = maybe_win_election(i, s)
    BY <1>5 DEF handle_vote_resp
  <2>2. <<r.current_term, m.from, i>> \in voted
    BY <1>5 DEF BallotsInv, IsVote
  <2>3. \A j \in r.votes : <<r.current_term, j, i>> \in voted
    BY <1>5 DEF MemberInv, Contends
  <2> HIDE DEF s
  <2>4. MayLead(s, res.st) /\ Plain(i, res.out)
    BY <1>1, <1>2, <2>1, WinMayLead
  <2> HIDE DEF res
  <2>5. \A x \in res.out : Envelope(x) /\ x.from = i /\ ~IsVote(x)
    BY <2>4 DEF Plain, IsVote
  <2>6. \A j \in res.st.votes : <<res.st.current_term, j, i>> \in voted
    BY <1>2, <2>2, <2>3, <2>4 DEF MayLead
  <2>7. res.st.role = "Leader" => Cardinality(res.st.votes) >= quorum
    BY <1>2, <1>5, <2>4 DEF MayLead
  <2>8. res.st.current_term = r.current_term /\ res.st.voted_for = r.voted_for /\ Struct(res.st)
    BY <1>2, <2>4 DEF MayLead
  <2>9. res.st.current_term >= r.current_term
    BY <1>1, <2>8 DEF Struct
  <2>10. Good(i, r, res)
    BY <2>5, <2>6, <2>7, <2>8, <2>9 DEF Good
  <2> QED
    BY <2>10 DEF res
<1>6. CASE ~(m.term > r.current_term) /\ ~pre /\ ~vote
  <2>1. res = Nothing(r)
    BY <1>6 DEF handle_vote_resp
  <2>2. Same(r, res.st) /\ Plain(i, res.out)
    BY <1>1, <2>1 DEF Nothing, Result, Same, Plain
  <2> QED
    BY <1>1, <2>2, SameGood
<1> QED
  BY <1>3, <1>4, <1>5, <1>6

\* A vote granted is recorded in the term it is granted for.
LEMMA RequestVoteGood ==
    ASSUME NEW m \in msgs, BallotsInv, MemberInv(m.to), NEW quiet,
           m.type = "RequestVote"
    PROVE  Good(m.to, raft[m.to], handle_request_vote(m.to, raft[m.to], m, quiet))
<1> DEFINE i == m.to
           r == raft[m.to]
           newer == ~m.pre_vote /\ m.term > r.current_term
           s == IF newer THEN become_follower(r, m.term, None) ELSE r
           granted == m.term > 0 /\ (IF m.pre_vote THEN grants_pre_vote(s, m, quiet) ELSE grants_vote(s, m))
           t == IF granted /\ ~m.pre_vote THEN [s EXCEPT !.voted_for = m.from] ELSE s
           resp == RequestVoteResp(i, m.from, s.current_term, granted, m.pre_vote)
           res == handle_request_vote(i, r, m, quiet)
<1>1. Struct(r) /\ i \in Member /\ m.from \in Member /\ m.term \in Nat
  BY DEF MemberInv, BallotsInv, Envelope
<1>2. res.st = t /\ res.out = {resp}
  BY DEF handle_request_vote, Result
<1>3. /\ Struct(s)
      /\ newer => Demoted(r, m.term, s)
      /\ ~newer => s = r
  BY <1>1, FollowerDemoted DEF Demoted
<1> HIDE DEF s, res
<1>4. /\ Struct(t) /\ t.current_term = s.current_term /\ t.role = s.role /\ t.votes = s.votes
      /\ (granted /\ ~m.pre_vote) => t.voted_for = m.from /\ s.voted_for \in {None, m.from}
      /\ ~(granted /\ ~m.pre_vote) => t = s
  BY <1>1, <1>3 DEF Struct, Fields, grants_vote
<1>5. /\ Envelope(resp) /\ resp.from = i
      /\ resp.term = s.current_term /\ resp.to = m.from
      /\ IsVote(resp) => granted /\ ~m.pre_vote
  BY <1>1, <1>3 DEF Envelope, IsVote, RequestVoteResp, Types, Struct
<1> HIDE DEF t, resp, granted
<1>6. s.current_term >= r.current_term
  BY <1>1, <1>3 DEF Demoted, MaxOf, Struct
<1>7. (s.current_term = r.current_term /\ r.voted_for # None) => t.voted_for = r.voted_for
  BY <1>1, <1>3, <1>4 DEF Demoted, MaxOf, Struct
<1>8. Contends(t) => /\ s = r
                     /\ \A j \in t.votes : <<t.current_term, j, i>> \in voted
                     /\ t.role = "Leader" => Cardinality(t.votes) >= quorum
  BY <1>3, <1>4 DEF Demoted, Contends, MemberInv
<1>9. Good(i, r, res)
  BY <1>2, <1>4, <1>5, <1>6, <1>7, <1>8 DEF Good, Contends
<1> QED
  BY <1>9 DEF res

\* A result of member i that keeps its struct or steps down, with plain messages.
LEMMA KeepsOrDemotedGood ==
    ASSUME NEW i \in Member, MemberInv(i), NEW t \in Nat, NEW res,
           Same(raft[i], res.st) \/ Demoted(raft[i], t, res.st),
           Plain(i, res.out)
    PROVE  Good(i, raft[i], res)
<1>1. Struct(raft[i])
  BY DEF MemberInv
<1>2. CASE Same(raft[i], res.st)
  BY <1>2, SameGood
<1>3. CASE Demoted(raft[i], t, res.st)
  BY <1>1, <1>3, DemotedGood DEF Plain
<1> QED
  BY <1>2, <1>3

\* An append leaves its receiver as it was, in a newer term or on a malformed request,
\* or steps it down to the sender's term.
LEMMA AppendGood ==
    ASSUME NEW m \in msgs, BallotsInv, MemberInv(m.to)
    PROVE  Good(m.to, raft[m.to], handle_append(m.to, raft[m.to], m))
<1> DEFINE i == m.to
           r == raft[m.to]
           s == become_follower(r, m.term, m.from)
           t == become_follower(r, m.term, None)
           res == handle_append(i, r, m)
<1>1. Struct(r) /\ i \in Member /\ m.from \in Member /\ m.term \in Nat
  BY DEF MemberInv, BallotsInv, Envelope
<1>2. Demoted(r, m.term, s) /\ Demoted(r, m.term, t)
  BY <1>1, FollowerDemoted
<1>3. Demoted(r, m.term, splice(s, m))
  <2> HIDE DEF s
  <2> QED
    BY <1>2 DEF Demoted, Struct, Fields, splice
<1>4. res.st \in {r, s, t, splice(s, m)}
  BY DEF handle_append, Result
<1>5. \A x \in res.out : /\ x.type = "AppendEntriesResp" /\ x.from = i /\ x.to = m.from
                         /\ x.term = res.st.current_term
  BY DEF handle_append, Result, AppendEntriesResp
<1> HIDE DEF res, s, t
<1>6. Same(r, r)
  BY <1>1 DEF Same
<1>7. Same(r, res.st) \/ Demoted(r, m.term, res.st)
  BY <1>2, <1>3, <1>4, <1>6
<1>8. res.st.current_term \in Nat
  BY <1>7 DEF Same, Demoted, Struct
<1>9. Plain(i, res.out)
  BY <1>1, <1>5, <1>8 DEF Plain, Envelope, Types
<1>10. Good(i, r, res)
  BY <1>1, <1>7, <1>9, KeepsOrDemotedGood
<1> QED
  BY <1>10 DEF res

\* So does a snapshot.
LEMMA InstallGood ==
    ASSUME NEW m \in msgs, BallotsInv, MemberInv(m.to)
    PROVE  Good(m.to, raft[m.to], handle_install_snapshot(m.to, raft[m.to], m))
<1> DEFINE i == m.to
           r == raft[m.to]
           s == become_follower(r, m.term, m.from)
           t == become_follower(r, m.term, None)
           res == handle_install_snapshot(i, r, m)
<1>1. Struct(r) /\ i \in Member /\ m.from \in Member /\ m.term \in Nat
  BY DEF MemberInv, BallotsInv, Envelope
<1>2. Demoted(r, m.term, s) /\ Demoted(r, m.term, t)
  BY <1>1, FollowerDemoted
<1>3. Demoted(r, m.term, install(s, m))
  <2> HIDE DEF s
  <2> QED
    BY <1>2 DEF Demoted, Struct, Fields, install
<1>4. res.st \in {r, s, t, install(s, m)}
  BY DEF handle_install_snapshot, Result
<1>5. \A x \in res.out : /\ x.type = "InstallSnapshotResp" /\ x.from = i /\ x.to = m.from
                         /\ x.term = res.st.current_term
  BY DEF handle_install_snapshot, Result, InstallSnapshotResp
<1> HIDE DEF res, s, t
<1>6. Same(r, r)
  BY <1>1 DEF Same
<1>7. Same(r, res.st) \/ Demoted(r, m.term, res.st)
  BY <1>2, <1>3, <1>4, <1>6
<1>8. res.st.current_term \in Nat
  BY <1>7 DEF Same, Demoted, Struct
<1>9. Plain(i, res.out)
  BY <1>1, <1>5, <1>8 DEF Plain, Envelope, Types
<1>10. Good(i, r, res)
  BY <1>1, <1>7, <1>9, KeepsOrDemotedGood
<1> QED
  BY <1>10 DEF res

\* Recording an acknowledgement, with the commit and broadcast it may cause, leaves
\* the election fields alone.
LEMMA AcknowledgeSame ==
    ASSUME NEW r, Struct(r), NEW i \in Member, NEW p, NEW n
    PROVE  /\ Same(r, acknowledge(i, r, p, n).st)
           /\ Plain(i, acknowledge(i, r, p, n).out)
<1> DEFINE matched == MaxOf(n, r.match_index[p])
           s == [r EXCEPT !.match_index[p] = matched, !.next_index[p] = matched + 1]
           t == maybe_advance_commit(i, s)
<1>1. Same(r, s)
  BY DEF Same, Struct, Fields
<1>2. Same(r, t)
  <2> HIDE DEF s
  <2> QED
    BY <1>1 DEF Same, Struct, Fields, maybe_advance_commit
<1>3. acknowledge(i, r, p, n) =
        IF t.commit_index > s.commit_index THEN broadcast_append(i, t) ELSE Nothing(t)
  BY DEF acknowledge
<1> HIDE DEF s, t
<1>4. Same(t, broadcast_append(i, t).st) /\ Plain(i, broadcast_append(i, t).out)
  BY <1>2, BroadcastSame DEF Same
<1>5. Nothing(t).st = t /\ Nothing(t).out = {}
  BY DEF Nothing, Result
<1> QED
  BY <1>2, <1>3, <1>4, <1>5 DEF Same, Plain

\* Rewinding a peer after a failed append, with the append sent again, leaves the
\* election fields alone.
LEMMA RewindSame ==
    ASSUME NEW r, Struct(r), NEW i \in Member, NEW p \in Member, NEW hint
    PROVE  /\ Same(r, rewind(i, r, p, hint).st)
           /\ Plain(i, rewind(i, r, p, hint).out)
<1> DEFINE next == MinOf(hint + 1, MaxOf(r.next_index[p] - 1, 1))
           s == [r EXCEPT !.next_index[p] = next]
<1>1. Same(r, s)
  BY DEF Same, Struct, Fields
<1>2. rewind(i, r, p, hint) = IF next < r.next_index[p] THEN send_append(i, s, {p}) ELSE Nothing(r)
  BY DEF rewind
<1> HIDE DEF s, next
<1>3. Same(s, send_append(i, s, {p}).st) /\ Plain(i, send_append(i, s, {p}).out)
  BY <1>1, SendSame DEF Same
<1>4. Nothing(r).st = r /\ Nothing(r).out = {}
  BY DEF Nothing, Result
<1> QED
  BY <1>1, <1>2, <1>3, <1>4 DEF Same, Plain

\* An answer to an append steps its receiver down or leaves its election fields alone.
LEMMA AppendRespGood ==
    ASSUME NEW m \in msgs, BallotsInv, MemberInv(m.to)
    PROVE  Good(m.to, raft[m.to], handle_append_resp(m.to, raft[m.to], m))
<1> DEFINE i == m.to
           r == raft[m.to]
           s == [r EXCEPT !.acked_since_check = @ \cup {m.from}]
           f == Nothing(become_follower(r, m.term, None))
           a == acknowledge(i, s, m.from, MinOf(m.match_index, last_index(s)))
           b == rewind(i, s, m.from, m.match_index)
           res == handle_append_resp(i, r, m)
<1>1. Struct(r) /\ i \in Member /\ m.from \in Member /\ m.term \in Nat
  BY DEF MemberInv, BallotsInv, Envelope
<1>2. res \in {f, Nothing(r), a, b}
  BY DEF handle_append_resp
<1>3. Demoted(r, m.term, f.st) /\ f.out = {}
  BY <1>1, FollowerDemoted DEF Nothing, Result
<1>4. Same(r, Nothing(r).st) /\ Nothing(r).out = {}
  BY <1>1 DEF Nothing, Result, Same
<1>5. Same(r, s)
  BY <1>1 DEF Same, Struct, Fields
<1> HIDE DEF s, f, res
<1>6. Same(s, a.st) /\ Plain(i, a.out)
  BY <1>1, <1>5, AcknowledgeSame DEF Same
<1>7. Same(s, b.st) /\ Plain(i, b.out)
  BY <1>1, <1>5, RewindSame DEF Same
<1> HIDE DEF a, b
<1>8. (Same(r, res.st) \/ Demoted(r, m.term, res.st)) /\ Plain(i, res.out)
  BY <1>2, <1>3, <1>4, <1>5, <1>6, <1>7 DEF Same, Plain
<1>9. Good(i, r, res)
  BY <1>1, <1>8, KeepsOrDemotedGood
<1> QED
  BY <1>9 DEF res

\* So does an answer to a snapshot.
LEMMA InstallRespGood ==
    ASSUME NEW m \in msgs, BallotsInv, MemberInv(m.to)
    PROVE  Good(m.to, raft[m.to], handle_install_snapshot_resp(m.to, raft[m.to], m))
<1> DEFINE i == m.to
           r == raft[m.to]
           s == [r EXCEPT !.acked_since_check = @ \cup {m.from}]
           u == [s EXCEPT !.snapshot_inflight[m.from] = 0]
           f == Nothing(become_follower(r, m.term, None))
           a == acknowledge(i, u, m.from, MinOf(m.last_included_index, r.snapshot_inflight[m.from]))
           res == handle_install_snapshot_resp(i, r, m)
<1>1. Struct(r) /\ i \in Member /\ m.from \in Member /\ m.term \in Nat
  BY DEF MemberInv, BallotsInv, Envelope
<1>2. res \in {f, Nothing(r), a, Nothing(s)}
  BY DEF handle_install_snapshot_resp
<1>3. Demoted(r, m.term, f.st) /\ f.out = {}
  BY <1>1, FollowerDemoted DEF Nothing, Result
<1>4. Same(r, Nothing(r).st) /\ Nothing(r).out = {}
  BY <1>1 DEF Nothing, Result, Same
<1>5. Same(r, s)
  BY <1>1 DEF Same, Struct, Fields
<1>6. Same(r, u)
  <2> HIDE DEF s
  <2> QED
    BY <1>5 DEF Same, Struct, Fields
<1> HIDE DEF u, s, f, res
<1>7. Same(u, a.st) /\ Plain(i, a.out)
  BY <1>1, <1>6, AcknowledgeSame DEF Same
<1>8. Same(r, Nothing(s).st) /\ Nothing(s).out = {}
  BY <1>5 DEF Nothing, Result
<1> HIDE DEF a
<1>9. (Same(r, res.st) \/ Demoted(r, m.term, res.st)) /\ Plain(i, res.out)
  BY <1>2, <1>3, <1>4, <1>6, <1>7, <1>8 DEF Same, Plain
<1>10. Good(i, r, res)
  BY <1>1, <1>9, KeepsOrDemotedGood
<1> QED
  BY <1>10 DEF res

\* A check of the quorum leaves a leader, or steps it down.
LEMMA CheckGood ==
    ASSUME NEW i \in Member, MemberInv(i)
    PROVE  LET r == raft[i]
               s == [r EXCEPT !.acked_since_check = {}]
           IN  Good(i, r, Nothing(IF Cardinality(r.acked_since_check) + 1 < quorum
                                  THEN become_follower(s, s.current_term, None) ELSE s))
<1> DEFINE r == raft[i]
           s == [r EXCEPT !.acked_since_check = {}]
           f == become_follower(s, s.current_term, None)
           lost == Cardinality(r.acked_since_check) + 1 < quorum
           res == Nothing(IF lost THEN f ELSE s)
<1>1. Struct(r)
  BY DEF MemberInv
<1>2. Same(r, s)
  BY <1>1 DEF Same, Struct, Fields
<1> HIDE DEF s
<1>3. Demoted(s, s.current_term, f)
  BY <1>2, FollowerDemoted DEF Same, Struct
<1> HIDE DEF f
<1>4. Demoted(r, r.current_term, f) /\ r.current_term \in Nat
  BY <1>1, <1>2, <1>3 DEF Same, Demoted, Struct
<1>5. res.st \in {s, f} /\ res.out = {}
  BY DEF Nothing, Result
<1> HIDE DEF res
<1>6. Good(i, r, res)
  BY <1>1, <1>2, <1>4, <1>5, KeepsOrDemotedGood DEF Plain
<1> QED
  BY <1>6 DEF res, f, s

\* A proposal changes the log alone.
LEMMA ProposeGood ==
    ASSUME NEW i \in Member, MemberInv(i), NEW c
    PROVE  LET r == raft[i]
               entry == [term |-> r.current_term, index |-> last_index(r) + 1, command |-> c]
           IN  Good(i, r, broadcast_append(i, maybe_advance_commit(i, [r EXCEPT !.log = Append(@, entry)])))
<1> DEFINE r == raft[i]
           entry == [term |-> r.current_term, index |-> last_index(r) + 1, command |-> c]
           s == [r EXCEPT !.log = Append(@, entry)]
           t == maybe_advance_commit(i, s)
<1>1. Struct(r)
  BY DEF MemberInv
<1>2. Same(r, s)
  BY <1>1 DEF Same, Struct, Fields
<1> HIDE DEF s
<1>3. Same(r, t)
  BY <1>2 DEF Same, Struct, Fields, maybe_advance_commit
<1> HIDE DEF t
<1>4. Same(t, broadcast_append(i, t).st) /\ Plain(i, broadcast_append(i, t).out)
  BY <1>3, BroadcastSame DEF Same
<1>5. Same(r, broadcast_append(i, t).st)
  BY <1>3, <1>4 DEF Same
<1>6. Good(i, r, broadcast_append(i, t))
  BY <1>1, <1>4, <1>5, SameGood
<1> QED
  BY <1>6 DEF t, s

\* Every message is handled by a Good handler.
LEMMA StepGood ==
    ASSUME NEW m \in msgs, BallotsInv, MemberInv(m.to), NEW quiet
    PROVE  Good(m.to, raft[m.to], step(m.to, raft[m.to], m, quiet))
<1> DEFINE i == m.to
           r == raft[m.to]
           res == step(i, r, m, quiet)
<1>1. m.type \in Types
  BY DEF BallotsInv, Envelope
<1>2. CASE m.type = "RequestVote"
  <2>1. res = handle_request_vote(i, r, m, quiet)
    BY <1>2 DEF step
  <2> QED
    BY <1>2, <2>1, RequestVoteGood
<1>3. CASE m.type = "RequestVoteResp"
  <2>1. res = handle_vote_resp(i, r, m)
    BY <1>3 DEF step
  <2> QED
    BY <1>3, <2>1, VoteRespGood
<1>4. CASE m.type = "AppendEntries"
  <2>1. res = handle_append(i, r, m)
    BY <1>4 DEF step
  <2> QED
    BY <2>1, AppendGood
<1>5. CASE m.type = "AppendEntriesResp"
  <2>1. res = handle_append_resp(i, r, m)
    BY <1>5 DEF step
  <2> QED
    BY <2>1, AppendRespGood
<1>6. CASE m.type = "InstallSnapshot"
  <2>1. res = handle_install_snapshot(i, r, m)
    BY <1>6 DEF step
  <2> QED
    BY <2>1, InstallGood
<1>7. CASE m.type = "InstallSnapshotResp"
  <2>1. res = handle_install_snapshot_resp(i, r, m)
    BY <1>7 DEF step
  <2> QED
    BY <2>1, InstallRespGood
<1> QED
  BY <1>1, <1>2, <1>3, <1>4, <1>5, <1>6, <1>7 DEF Types

----------------------------------------------------------------------------
(* The steps.                                                              *)

\* Member j's term does not go back and its vote does not move within a term.
VoteKept(j) ==
    /\ raft'[j].current_term >= raft[j].current_term
    /\ (raft'[j].current_term = raft[j].current_term /\ raft[j].voted_for # None)
          => raft'[j].voted_for = raft[j].voted_for

\* The drain of a Good result keeps the invariant and every durable vote.
LEMMA PerformKeeps ==
    ASSUME ElectionInv, NEW i \in Member, NEW received, NEW res,
           Good(i, raft[i], res), Perform(i, received, res)
    PROVE  ElectionInv' /\ \A j \in Member : VoteKept(j)
<1> DEFINE st == res.st
           c == maybe_compact(st)
           ballot == <<st.current_term, i, st.voted_for>>
<1>1. /\ raft' = [raft EXCEPT ![i] = c]
      /\ voted' = IF st.voted_for = None THEN voted ELSE voted \cup {ballot}
      /\ elected' = IF st.role = "Leader" THEN elected \cup {<<st.current_term, i>>} ELSE elected
      /\ \A m \in msgs' : m \in msgs \/ m \in res.out
  BY DEF Perform, Network
<1>2. /\ Struct(st) /\ Same(st, c)
  BY CompactSame DEF Good
<1> HIDE DEF c
<1>3. /\ raft' = [j \in Member |-> raft'[j]]
      /\ raft'[i] = c
      /\ \A j \in Member : j # i => raft'[j] = raft[j]
  BY <1>1 DEF ElectionInv
<1>4. /\ \A x \in voted : x \in voted'
      /\ \A x \in voted' : x \in voted \/ (x = ballot /\ st.voted_for # None)
      /\ st.voted_for # None => ballot \in voted'
  BY <1>1
<1>5. /\ st.current_term \in Nat /\ raft[i].current_term \in Nat /\ Struct(raft[i])
      /\ st.current_term >= raft[i].current_term
      /\ (st.current_term = raft[i].current_term /\ raft[i].voted_for # None)
            => st.voted_for = raft[i].voted_for
  BY DEF Good, Struct, ElectionInv, MemberInv
<1>6. None \notin Member
  BY NoneAssumption
<1>7. Contends(st) => \A j \in st.votes : <<st.current_term, j, i>> \in voted'
  BY <1>4, <1>6 DEF Good
<1>8. ASSUME NEW j \in Member PROVE MemberInv(j)'
  <2>1. CASE j = i
    BY <1>2, <1>3, <1>7, <2>1 DEF MemberInv, Same, Contends, Good, Struct
  <2>2. CASE j # i
    <3>1. MemberInv(j) /\ raft'[j] = raft[j]
      BY <1>3, <2>2 DEF ElectionInv
    <3> QED
      BY <1>4, <3>1 DEF MemberInv, Contends, Struct
  <2> QED
    BY <2>1, <2>2
<1>9. ASSUME NEW t \in Nat, NEW j \in Member, NEW d \in Member, <<t, j, d>> \in voted'
      PROVE  /\ t <= raft'[j].current_term
             /\ t = raft'[j].current_term => raft'[j].voted_for = d
  <2>1. CASE <<t, j, d>> \in voted
    <3>1. t <= raft[j].current_term /\ (t = raft[j].current_term => raft[j].voted_for = d)
      BY <2>1 DEF ElectionInv, VotesInv
    <3>2. CASE j # i
      BY <1>3, <3>1, <3>2
    <3>3. CASE j = i
      <4>1. t <= st.current_term
        BY <1>5, <3>1, <3>3
      <4>2. t = st.current_term => st.voted_for = d
        BY <1>5, <1>6, <3>1, <3>3
      <4> QED
        BY <1>2, <1>3, <3>3, <4>1, <4>2 DEF Same
    <3> QED
      BY <3>2, <3>3
  <2>2. CASE <<t, j, d>> = ballot
    <3>1. t = st.current_term /\ j = i /\ d = st.voted_for
      BY <2>2
    <3> QED
      BY <1>2, <1>3, <1>5, <3>1 DEF Same
  <2> QED
    BY <1>4, <1>9, <2>1, <2>2
<1>10. ASSUME NEW t \in Nat, NEW j \in Member, NEW d \in Member, NEW e \in Member,
              <<t, j, d>> \in voted', <<t, j, e>> \in voted'
       PROVE  d = e
  <2>1. ASSUME NEW x \in Member, NEW y \in Member, <<t, j, x>> = ballot, <<t, j, y>> \in voted'
        PROVE  x = y
    <3>1. t = st.current_term /\ j = i /\ x = st.voted_for
      BY <2>1
    <3>2. t = raft'[j].current_term /\ raft'[j].voted_for = x
      BY <1>2, <1>3, <3>1 DEF Same
    <3> QED
      BY <1>9, <2>1, <3>2
  <2>2. CASE <<t, j, d>> \in voted /\ <<t, j, e>> \in voted
    BY <2>2 DEF ElectionInv, VotesInv
  <2>3. CASE <<t, j, d>> = ballot
    BY <1>10, <2>1, <2>3
  <2>4. CASE <<t, j, e>> = ballot
    BY <1>10, <2>1, <2>4
  <2> QED
    BY <1>4, <1>10, <2>2, <2>3, <2>4
<1>11. VotesInv'
  BY <1>9, <1>10 DEF VotesInv
<1>12. BallotsInv'
  <2> SUFFICES ASSUME NEW m \in msgs'
               PROVE  Envelope(m) /\ (IsVote(m) => <<m.term, m.from, m.to>> \in voted')
    BY DEF BallotsInv, Envelope, IsVote
  <2>1. CASE m \in msgs
    BY <1>4, <2>1 DEF ElectionInv, BallotsInv
  <2>2. CASE m \in res.out
    <3>1. Envelope(m) /\ m.from = i /\ (IsVote(m) => m.term = st.current_term /\ m.to = st.voted_for)
      BY <2>2 DEF Good
    <3>2. IsVote(m) => st.voted_for # None
      BY <1>6, <3>1 DEF Envelope
    <3> QED
      BY <1>4, <3>1, <3>2
  <2> QED
    BY <1>1, <2>1, <2>2
<1>13. MajorityInv'
  <2>1. elected' \subseteq Nat \X Member
    BY <1>1, <1>5 DEF ElectionInv, MajorityInv
  <2>2. ASSUME NEW t \in Nat, NEW l \in Member, <<t, l>> \in elected'
        PROVE  \E Q \in SUBSET Member : /\ Cardinality(Q) >= quorum
                                        /\ \A j \in Q : <<t, j, l>> \in voted'
    <3>1. CASE <<t, l>> \in elected
      <4>1. PICK Q \in SUBSET Member : /\ Cardinality(Q) >= quorum
                                       /\ \A j \in Q : <<t, j, l>> \in voted
        BY <3>1 DEF ElectionInv, MajorityInv
      <4> QED
        BY <1>4, <4>1
    <3>2. CASE st.role = "Leader" /\ <<t, l>> = <<st.current_term, i>>
      <4>1. t = st.current_term /\ l = i
        BY <3>2
      <4>2. /\ st.votes \in SUBSET Member /\ Cardinality(st.votes) >= quorum
            /\ \A j \in st.votes : <<t, j, l>> \in voted'
        BY <1>2, <1>7, <3>2, <4>1 DEF Good, Struct, Contends
      <4> QED
        BY <4>2
    <3> QED
      BY <1>1, <2>2, <3>1, <3>2
  <2> QED
    BY <2>1, <2>2 DEF MajorityInv, quorum
<1>14. ASSUME NEW j \in Member PROVE VoteKept(j)
  <2>1. CASE j = i
    BY <1>2, <1>3, <1>5, <2>1 DEF VoteKept, Same
  <2>2. CASE j # i
    BY <1>3, <2>2 DEF VoteKept, ElectionInv, MemberInv, Struct
  <2> QED
    BY <2>1, <2>2
<1> QED
  BY <1>3, <1>8, <1>11, <1>12, <1>13, <1>14 DEF ElectionInv

\* A fresh group has cast no vote.
LEMMA InitElection == Init => ElectionInv
<1> SUFFICES ASSUME Init PROVE ElectionInv
  OBVIOUS
<1>1. Struct(Fresh) /\ Fresh.role = "Follower"
  BY DEF Fresh, Struct, Fields, Roles
<1>2. raft = [i \in Member |-> Fresh]
  BY DEF Init
<1>3. \A i \in Member : raft[i] = Fresh
  BY <1>2
<1>4. raft = [i \in Member |-> raft[i]]
  BY <1>2
<1> HIDE DEF Init
<1>5. ASSUME NEW i \in Member PROVE MemberInv(i)
  BY <1>1, <1>3 DEF MemberInv, Contends
<1>6. msgs = {} /\ elected = {} /\ voted = {}
  BY DEF Init
<1> QED
  BY <1>4, <1>5, <1>6 DEF ElectionInv, VotesInv, BallotsInv, MajorityInv

\* The durable part of a struct survives a restart, the rest starts over.
LEMMA RestartKeeps ==
    ASSUME ElectionInv, NEW i \in Member, Restart(i)
    PROVE  ElectionInv' /\ \A j \in Member : VoteKept(j)
<1> DEFINE r == raft[i]
           s == [Fresh EXCEPT !.current_term = r.current_term, !.voted_for = r.voted_for,
                              !.log = r.log, !.base_index = r.base_index, !.base_term = r.base_term,
                              !.snapshot = r.snapshot, !.commit_index = r.commit_index]
<1>1. raft' = [raft EXCEPT ![i] = s] /\ UNCHANGED <<msgs, elected, voted>>
  BY DEF Restart
<1>2. Struct(r)
  BY DEF ElectionInv, MemberInv
<1>3. Struct(s) /\ s.current_term = r.current_term /\ s.voted_for = r.voted_for /\ s.role = "Follower"
  <2> HIDE DEF r
  <2>1. /\ s.current_term = r.current_term /\ s.voted_for = r.voted_for /\ s.role = "Follower"
        /\ s.votes = {}
    BY DEF Fresh
  <2>2. s = [f \in Fields |-> s[f]]
    BY ZenonT(30) DEF Fresh, Fields
  <2> HIDE DEF s
  <2> QED
    BY <1>2, <2>1, <2>2 DEF Struct, Roles
<1> HIDE DEF s
<1>4. /\ raft' = [j \in Member |-> raft'[j]] /\ raft'[i] = s
      /\ \A j \in Member : j # i => raft'[j] = raft[j]
  BY <1>1 DEF ElectionInv
<1>5. \A j \in Member : /\ raft'[j].current_term = raft[j].current_term
                        /\ raft'[j].voted_for = raft[j].voted_for
                        /\ raft[j].current_term \in Nat
  BY <1>3, <1>4 DEF ElectionInv, MemberInv, Struct
<1>6. ASSUME NEW j \in Member PROVE MemberInv(j)'
  <2>1. CASE j = i
    BY <1>3, <1>4, <2>1 DEF MemberInv, Contends, Struct
  <2>2. CASE j # i
    <3>1. MemberInv(j) /\ raft'[j] = raft[j]
      BY <1>4, <2>2 DEF ElectionInv
    <3> QED
      BY <1>1, <3>1 DEF MemberInv, Contends, Struct
  <2> QED
    BY <2>1, <2>2
<1>7. VotesInv' /\ BallotsInv' /\ MajorityInv'
  BY <1>1, <1>5 DEF ElectionInv, VotesInv, BallotsInv, MajorityInv, Envelope, IsVote, quorum
<1>8. \A j \in Member : VoteKept(j)
  BY <1>5 DEF VoteKept
<1> QED
  BY <1>4, <1>6, <1>7, <1>8 DEF ElectionInv

\* Every step keeps the invariant and every durable vote.
LEMMA NextElection ==
    ASSUME ElectionInv, Next
    PROVE  ElectionInv' /\ \A j \in Member : VoteKept(j)
<1>1. ASSUME NEW i \in Member, ElectionTimeout(i)
      PROVE  ElectionInv' /\ \A j \in Member : VoteKept(j)
  <2>1. Perform(i, {}, start_pre_election(i, raft[i]))
    BY <1>1 DEF ElectionTimeout
  <2>2. Good(i, raft[i], start_pre_election(i, raft[i]))
    BY TimeoutGood DEF ElectionInv
  <2> QED
    BY <2>1, <2>2, PerformKeeps
<1>2. ASSUME NEW i \in Member, Heartbeat(i)
      PROVE  ElectionInv' /\ \A j \in Member : VoteKept(j)
  <2>1. Perform(i, {}, broadcast_append(i, raft[i]))
    BY <1>2 DEF Heartbeat
  <2>2. MemberInv(i) /\ Struct(raft[i])
    BY DEF ElectionInv, MemberInv
  <2>3. Good(i, raft[i], broadcast_append(i, raft[i]))
    BY <2>2, BroadcastSame, SameGood
  <2> QED
    BY <2>1, <2>3, PerformKeeps
<1>3. ASSUME NEW i \in Member, CheckQuorum(i)
      PROVE  ElectionInv' /\ \A j \in Member : VoteKept(j)
  <2> DEFINE s == [raft[i] EXCEPT !.acked_since_check = {}]
             res == Nothing(IF Cardinality(raft[i].acked_since_check) + 1 < quorum
                            THEN become_follower(s, s.current_term, None) ELSE s)
  <2>1. Perform(i, {}, res)
    BY <1>3 DEF CheckQuorum
  <2>2. Good(i, raft[i], res)
    BY CheckGood DEF ElectionInv
  <2> QED
    BY <2>1, <2>2, PerformKeeps
<1>4. ASSUME NEW i \in Member, NEW c \in Command, Propose(i, c)
      PROVE  ElectionInv' /\ \A j \in Member : VoteKept(j)
  <2> DEFINE entry == [term |-> raft[i].current_term, index |-> last_index(raft[i]) + 1, command |-> c]
             res == broadcast_append(i, maybe_advance_commit(i, [raft[i] EXCEPT !.log = Append(@, entry)]))
  <2>1. Perform(i, {}, res)
    BY <1>4 DEF Propose
  <2>2. Good(i, raft[i], res)
    BY ProposeGood DEF ElectionInv
  <2> QED
    BY <2>1, <2>2, PerformKeeps
<1>5. ASSUME NEW i \in Member, Restart(i)
      PROVE  ElectionInv' /\ \A j \in Member : VoteKept(j)
  BY <1>5, RestartKeeps
<1>6. ASSUME NEW m \in msgs, Receive(m)
      PROVE  ElectionInv' /\ \A j \in Member : VoteKept(j)
  <2>1. PICK quiet \in BOOLEAN : Perform(m.to, {m}, step(m.to, raft[m.to], m, quiet))
    BY <1>6 DEF Receive
  <2>2. m.to \in Member /\ BallotsInv /\ MemberInv(m.to)
    BY DEF ElectionInv, BallotsInv, Envelope
  <2>3. Good(m.to, raft[m.to], step(m.to, raft[m.to], m, quiet))
    BY <2>2, StepGood
  <2> QED
    BY <2>1, <2>2, <2>3, PerformKeeps
<1> QED
  BY <1>1, <1>2, <1>3, <1>4, <1>5, <1>6 DEF Next

\* So does a stuttering step.
LEMMA StutterElection ==
    ASSUME ElectionInv, UNCHANGED vars
    PROVE  ElectionInv' /\ \A j \in Member : VoteKept(j)
<1>1. /\ raft' = raft /\ msgs' = msgs /\ elected' = elected /\ voted' = voted
  BY DEF vars
<1>2. ElectionInv'
  BY <1>1 DEF ElectionInv, MemberInv, VotesInv, BallotsInv, MajorityInv, Struct, Contends,
              Envelope, IsVote, quorum
<1>3. \A j \in Member : VoteKept(j)
  BY <1>1 DEF VoteKept, ElectionInv, MemberInv, Struct
<1> QED
  BY <1>2, <1>3

\* Two quorums share a member, and a member votes once in a term: at most one member
\* is elected in a term.
LEMMA OneLeader == ElectionInv => ElectionSafety
<1> SUFFICES ASSUME ElectionInv, NEW a \in elected, NEW b \in elected, a[1] = b[1]
             PROVE  a[2] = b[2]
  BY DEF ElectionSafety
<1>1. PICK t \in Nat, l \in Member : a = <<t, l>>
  BY DEF ElectionInv, MajorityInv
<1>2. PICK u \in Nat, k \in Member : b = <<u, k>>
  BY DEF ElectionInv, MajorityInv
<1>3. u = t
  BY <1>1, <1>2
<1>4. PICK P \in SUBSET Member : Cardinality(P) >= quorum /\ \A j \in P : <<t, j, l>> \in voted
  BY <1>1 DEF ElectionInv, MajorityInv
<1>5. PICK Q \in SUBSET Member : Cardinality(Q) >= quorum /\ \A j \in Q : <<t, j, k>> \in voted
  BY <1>2, <1>3 DEF ElectionInv, MajorityInv
<1>6. P \cap Q # {}
  <2>1. IsFiniteSet(Member) /\ IsFiniteSet(P) /\ IsFiniteSet(Q)
    BY MemberAssumption, FS_Subset
  <2>2. Cardinality(Member) \in Nat /\ Cardinality(P) \in Nat /\ Cardinality(Q) \in Nat
    BY <2>1, FS_CardinalityType
  <2>3. Cardinality(P) + Cardinality(Q) > Cardinality(Member)
    BY <1>4, <1>5, <2>2 DEF quorum
  <2> QED
    BY <2>1, <2>3, FS_MajoritiesIntersect
<1>7. PICK j \in Member : j \in P /\ j \in Q
  BY <1>6
<1>8. <<t, j, l>> \in voted /\ <<t, j, k>> \in voted
  BY <1>4, <1>5, <1>7
<1>9. l = k
  BY <1>8 DEF ElectionInv, VotesInv
<1> QED
  BY <1>1, <1>2, <1>9

\* At most one member of a group of any size ever becomes leader of a term, whatever
\* is lost, delayed or overtaken and whoever restarts (become_leader, raft.rs:538).
THEOREM OneLeaderPerTerm == Spec => []ElectionSafety
<1>1. ElectionInv /\ [Next]_vars => ElectionInv'
  BY NextElection, StutterElection
<1> QED
  BY <1>1, InitElection, OneLeader, PTL DEF Spec

\* A member's term never goes back and its durable vote never moves within a term
\* (become_follower, handle_request_vote and start_election, raft.rs:509-659).
THEOREM VotesAreFinal == Spec => VoteIsFinal
<1>1. ElectionInv /\ [Next]_vars => ElectionInv'
  BY NextElection, StutterElection
<1>2. ElectionInv /\ [Next]_vars =>
        [\A i \in Member :
            /\ raft'[i].current_term >= raft[i].current_term
            /\ (raft'[i].current_term = raft[i].current_term /\ raft[i].voted_for # None)
                  => raft'[i].voted_for = raft[i].voted_for]_vars
  BY NextElection DEF VoteKept
<1> QED
  BY <1>1, <1>2, InitElection, PTL DEF Spec, VoteIsFinal
==========================================================================
