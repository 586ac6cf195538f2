---------------------------- MODULE MCBrainRaft ----------------------------
(***************************************************************************)
(* Model-checking instances of BrainRaft.  The runs start after a first    *)
(* election, in states built by applying the handlers themselves to a      *)
(* fresh group, so that the bounds are spent on what follows it.           *)
(***************************************************************************)
EXTENDS BrainRaft, TLC

CONSTANTS Timeouts, Heartbeats, Checks, Restarts

MCBudget == [timeout |-> Timeouts, heartbeat |-> Heartbeats, check |-> Checks,
             restart |-> Restarts]

\* Members and commands are interchangeable: no operator of BrainRaft orders
\* them, and no run of this module checks liveness.
Symmetry == Permutations(Member) \cup Permutations(Command)

After(i, r, m) == maybe_compact(step(i, r, m, FALSE).st)

\* l won term 1 with v's vote.
Elect(l, v) ==
    LET candidate == start_election(l, [Fresh EXCEPT !.role = "PreCandidate", !.votes = {l, v}]).st
        ballot == CHOOSE m \in RequestVotes(l, candidate, 1, FALSE) : m.to = v
    IN  [i \in Member |->
            CASE i = l -> After(l, candidate, RequestVoteResp(v, l, 1, TRUE, FALSE))
              [] i = v -> After(v, Fresh, ballot)
              [] OTHER -> Fresh]

\* In group g, leader l's current append to p was delivered and answered.
Replicate(g, l, p) ==
    LET follower == After(p, g[p], AppendEntries(l, g[l], p))
        leader == After(l, g[l], AppendEntriesResp(p, l, 1, TRUE, last_index(follower)))
    IN  [g EXCEPT ![p] = follower, ![l] = leader]

StartFrom(g, leader) ==
    /\ raft = g
    /\ msgs = {}
    /\ proposed = {}
    /\ used = [k \in Kinds |-> 0]
    /\ elected = {<<1, leader>>}
    /\ voted = {<<1, i, leader>> : i \in {j \in Member : g[j].voted_for = leader}}
    /\ ledger = <<History(g[leader])>>
    /\ acked = {<<1, i, g[leader].match_index[i]>> : i \in {j \in Member : g[leader].match_index[j] > 0}}

\* A leader of term 1 whose first broadcast was lost.
ElectedInit == \E l \in Member : \E v \in peers(l) : StartFrom(Elect(l, v), l)

\* A leader of term 1 that committed its no-op with v, and told v so.
CommittedInit ==
    \E l \in Member : \E v \in peers(l) :
        StartFrom(Replicate(Replicate(Elect(l, v), l, v), l, v), l)

ElectedSpec == ElectedInit /\ [][Next]_vars
CommittedSpec == CommittedInit /\ [][Next]_vars
============================================================================
