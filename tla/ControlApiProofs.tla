-------------------------- MODULE ControlApiProofs --------------------------
(***************************************************************************)
(* Proofs about ControlApi, for any number of members and requests and any *)
(* bounds: what a client that was told ok can rely on, how often a forward *)
(* proposes, and what a poller and the registry can be left with.          *)
(*                                                                         *)
(* The invariant speaks of one member (MemberOK, SeenOK) and of one request *)
(* (CallOK) at a time, so that an action has to answer only for the member *)
(* and the request it moves.                                               *)
(***************************************************************************)
EXTENDS ControlApi, FiniteSetTheorems, SequenceTheorems, TLAPS

Entry == [term : Nat, req : Req \cup {None}]

Info == [health : Health, hosted_shards : SUBSET Nat, leading_shards : SUBSET Nat,
         last_seq : Nat, located : BOOLEAN]

Registry == UNION {[D -> Info] : D \in SUBSET {Node}}

MemberType ==
    [up : BOOLEAN, available : BOOLEAN, term : Nat, leads : BOOLEAN, leader : Brain \cup {None},
     commit : Nat, applied : Nat, map : Nat, generation : Nat, bumps : BOOLEAN,
     members : Registry]

ReportType == [seq : Nat, hosted_shards : SUBSET Nat, leading_shards : SUBSET Nat, located : BOOLEAN]

Places == {"unsent", "arrived", "route", "local", "reading", "await", "refused", "done"}

CallType ==
    [pc : Places, kind : Kinds \cup {None}, at : Brain \cup {None}, origin : Brain \cup {None},
     forwarded : BOOLEAN, report : ReportType, waits : Nat, term : Nat, generation : Nat]

Answers == {"ok", "error", None}

Types ==
    /\ brain \in [Brain -> MemberType]
    /\ log \in Seq(Entry)
    /\ committed \in Nat /\ committed <= Len(log)
    /\ req \in [Req -> CallType]
    /\ answer \in [Req -> Answers]
    /\ reports \in Nat
    /\ seen \in [Brain -> {None} \cup [generation : Nat, map : Nat]]

----------------------------------------------------------------------------
(* One member.                                                             *)

\* The shards a node's report numbered seq names, once the report is sanitized; and
\* none for a report without a number.
Named(seq) == {{}, {0, seq} \cap Shards}

MemberOK(b) ==
    /\ brain[b].term \in 1 .. MaxElections + 1
    /\ brain[b].commit <= committed /\ brain[b].applied <= committed /\ brain[b].map <= committed
    /\ \A n \in DOMAIN brain[b].members :
          brain[b].members[n].hosted_shards \in Named(brain[b].members[n].last_seq)

\* The generation a poller has is not ahead of the member's, and that of the member's
\* map means that map.
SeenOK(b) ==
    seen[b] # None =>
        /\ seen[b].generation <= brain[b].generation
        /\ seen[b].generation = brain[b].generation /\ ~brain[b].bumps => seen[b].map = brain[b].map

----------------------------------------------------------------------------
(* One request.                                                            *)

\* No handler holds the request.
Waiting(r) == req[r].pc \in {"unsent", "arrived", "done"}

\* Where the request is: a handler that has begun runs on a member that is up, and only
\* set_scale proposes.
AtOK(r) ==
    /\ req[r].pc \notin {"unsent", "done"} => req[r].at \in Brain
    /\ ~Waiting(r) => brain[req[r].at].up
    /\ req[r].pc \in {"route", "local", "reading"} => req[r].kind # "set_scale"
    /\ req[r].pc \in {"await", "refused"} => req[r].kind = "set_scale"

\* A report is one that the node numbered, or the empty one, and is sanitized once a
\* handler has looked at it.
ReportOK(r) ==
    LET report == req[r].report IN
    /\ report.hosted_shards \in Named(report.seq) \cup {{0, report.seq}}
    /\ report.hosted_shards = {} \/ report.seq # 0
    /\ req[r].pc \in {"route", "local"} => report.hosted_shards \in Named(report.seq)

ReadOK(r) == req[r].pc = "reading" => req[r].generation <= brain[req[r].at].generation

\* While its proposer is in the term of its proposal, the entry a request waits for is
\* still its own, unless a later leader exists and the proposer has not seen the entry's
\* index commit, which it then never will in that term.
AwaitOK(r) ==
    LET q == req[r] IN
    /\ q.pc \in {"unsent", "arrived"} => q.waits = 0
    /\ q.pc = "await" /\ q.waits # 0 =>
          /\ q.term <= brain[q.at].term
          /\ brain[q.at].term = q.term =>
                \/ brain[q.at].commit < q.waits /\ \E c \in Brain : brain[c].term > q.term
                \/ q.waits <= Len(log) /\ log[q.waits].req = r

AnswerOK(r) ==
    req[r].kind = "set_scale" /\ answer[r] = "ok" => \E i \in 1 .. committed : log[i].req = r

\* The places in the log where r is.
Holds(r) == {i \in 1 .. Len(log) : log[i].req = r}

\* How often a request that has come this far can have been proposed: once where it
\* arrived and once where it was forwarded to.
Budget(r) ==
    CASE req[r].kind # "set_scale" -> 0
      [] req[r].kind = "set_scale" /\ req[r].pc = "done" -> 2
      [] OTHER -> (IF req[r].forwarded THEN 1 ELSE 0) + (IF Waiting(r) THEN 0 ELSE 1)

CountOK(r) == Cardinality(Holds(r)) <= Budget(r)

CallOK(r) == AtOK(r) /\ ReportOK(r) /\ ReadOK(r) /\ AwaitOK(r) /\ AnswerOK(r) /\ CountOK(r)

ApiInv ==
    /\ Types
    /\ \A b \in Brain : MemberOK(b) /\ SeenOK(b)
    /\ \A r \in Req : CallOK(r)

----------------------------------------------------------------------------
(* Numbers.                                                                *)

\* A nonempty set of naturals below a bound has a greatest element.
LEMMA Greatest ==
    ASSUME NEW S \in SUBSET Nat, S # {}, NEW n \in Nat, \A x \in S : x <= n
    PROVE  \E x \in S : \A y \in S : y <= x
<1> DEFINE T == {y \in Nat : n - y \in S}
           R == OpToRel(<, Nat)
<1>1. T \in SUBSET Nat /\ \A x \in S : n - x \in T
  <2>1. ASSUME NEW x \in S PROVE n - x \in Nat /\ n - (n - x) = x
    OBVIOUS
  <2>. QED
    BY <2>1
<1>2. IsWellFoundedOn(R, Nat)
  BY NatLessThanWellFounded
<1>3. T # {}
  BY <1>1
<1>4. PICK y \in T : \A z \in T : ~(<<z, y>> \in R)
  <2> HIDE DEF R, T
  <2>. QED
    BY <1>1, <1>2, <1>3, WFMin
<1>5. \A z \in T : ~(z < y)
  BY <1>4 DEF OpToRel
<1>6. n - y \in S /\ y \in Nat
  OBVIOUS
<1>7. ASSUME NEW x \in S PROVE x <= n - y
  <2>1. n - x \in T /\ n - x \in Nat /\ ~(n - x < y)
    BY <1>1, <1>5
  <2>. QED
    BY <1>6, <2>1
<1>. QED
  BY <1>6, <1>7

\* The latest term is some member's.
LEMMA LastTermIs ==
    ASSUME Types, \A b \in Brain : MemberOK(b)
    PROVE  /\ LastTerm \in Nat /\ \E b \in Brain : LastTerm = brain[b].term
           /\ \A b \in Brain : brain[b].term <= LastTerm
<1> DEFINE S == {brain[b].term : b \in Brain}
<1>1. \A b \in Brain : brain[b].term \in Nat /\ brain[b].term <= MaxElections + 1
  BY BoundAssumption DEF Types, MemberType, MemberOK
<1>2. S \in SUBSET Nat /\ S # {} /\ MaxElections + 1 \in Nat /\ \A x \in S : x <= MaxElections + 1
  BY <1>1, BoundAssumption, BrainAssumption
<1>3. \E t \in S : \A u \in S : u <= t
  BY <1>2, Greatest
<1>4. \E t \in S : \A b \in Brain : brain[b].term <= t
  BY <1>3
<1>5. LastTerm \in S /\ \A b \in Brain : brain[b].term <= LastTerm
  BY <1>4 DEF LastTerm
<1>. QED
  BY <1>2, <1>5

\* The map a snapshot restores is no later than the snapshot.
LEMMA MapAtType ==
    ASSUME NEW n \in Nat PROVE MapAt(n) \in Nat /\ MapAt(n) <= n
<1> DEFINE S == {i \in 1 .. n : log[i].req = None}
<1>1. CASE S = {}
  BY <1>1 DEF MapAt
<1>2. CASE S # {}
  <2>1. S \in SUBSET Nat /\ \A x \in S : x <= n
    OBVIOUS
  <2>2. \E x \in S : \A y \in S : y <= x
    BY <1>2, <2>1, Greatest
  <2>3. MapAt(n) = CHOOSE i \in S : \A j \in S : j <= i
    BY <1>2 DEF MapAt
  <2>4. MapAt(n) \in S
    BY <2>2, <2>3
  <2>. QED
    BY <2>4
<1>. QED
  BY <1>1, <1>2

\* How often the log holds a request is a number.
LEMMA HoldsFinite ==
    ASSUME Types, NEW r
    PROVE  IsFiniteSet(Holds(r)) /\ Cardinality(Holds(r)) \in Nat
<1>1. Len(log) \in Nat
  BY DEF Types
<1>2. IsFiniteSet(1 .. Len(log)) /\ Holds(r) \subseteq 1 .. Len(log)
  BY <1>1, FS_Interval DEF Holds
<1>. QED
  BY <1>2, FS_Subset, FS_CardinalityType

----------------------------------------------------------------------------
(* The registry, and what a handler makes of a report.                     *)

\* The reports that the node numbers.
LEMMA ReportsOf ==
    ASSUME NEW seq \in Nat \ {0}
    PROVE  /\ ReportOf(seq) \in ReportType /\ ReportOf(seq).seq = seq
           /\ ReportOf(seq).hosted_shards = {0, seq}
BY DEF ReportOf, Report, ReportType

\* sanitize_report leaves of a report the shards that exist.
LEMMA Sanitized ==
    ASSUME NEW report \in ReportType,
           report.hosted_shards \in Named(report.seq) \cup {{0, report.seq}},
           report.hosted_shards = {} \/ report.seq # 0
    PROVE  LET clean == sanitize_report(report, Shards) IN
           /\ clean \in ReportType /\ clean.seq = report.seq
           /\ clean.hosted_shards \in Named(clean.seq)
           /\ clean.hosted_shards = {} \/ clean.seq # 0
<1> DEFINE clean == sanitize_report(report, Shards)
<1>1. /\ clean.seq = report.seq /\ clean.hosted_shards = report.hosted_shards \cap Shards
      /\ clean \in ReportType
  BY DEF sanitize_report, ReportType
<1> HIDE DEF clean
<1>2. report.hosted_shards \cap Shards \in Named(report.seq)
  BY DEF Named
<1>. QED
  BY <1>1, <1>2 DEF clean

\* A registry knows the one node at most.
LEMMA RegistryFields ==
    ASSUME NEW members \in Registry, NEW n \in DOMAIN members
    PROVE  n = Node /\ members[n] \in Info
BY DEF Registry

\* A heartbeat leaves every node with shards of its newest numbered report, or none.
LEMMA HeartbeatLemma ==
    ASSUME NEW members \in Registry, NEW report \in ReportType,
           report.hosted_shards \in Named(report.seq),
           report.hosted_shards = {} \/ report.seq # 0,
           \A n \in DOMAIN members : members[n].hosted_shards \in Named(members[n].last_seq)
    PROVE  LET new == heartbeat(members, Node, report) IN
           /\ new \in Registry
           /\ \A n \in DOMAIN new : new[n].hosted_shards \in Named(new[n].last_seq)
<1> DEFINE new == heartbeat(members, Node, report)
           known == Node \in DOMAIN members
           last_seq == IF known THEN members[Node].last_seq ELSE 0
           health == IF known /\ members[Node].health = "Draining" THEN "Draining" ELSE "Healthy"
           located == report.located \/ (known /\ members[Node].located)
           info == [health |-> health,
                    hosted_shards |-> report.hosted_shards, leading_shards |-> report.leading_shards,
                    last_seq |-> IF report.seq > last_seq THEN report.seq ELSE last_seq,
                    located |-> located]
<1>1. CASE stale(members, Node, report)
  <2>1. new = members
    BY <1>1 DEF heartbeat
  <2>. QED
    BY <2>1
<1>2. CASE ~stale(members, Node, report)
  <2>1. new = with(members, Node, info)
    BY <1>2 DEF heartbeat
  <2>2. last_seq \in Nat /\ report.seq \in Nat
    BY RegistryFields DEF Info, ReportType
  <2>3. info \in Info
    <3>1. located \in BOOLEAN
      BY RegistryFields DEF Info, ReportType
    <3>2. health \in Health
      BY DEF Health
    <3> HIDE DEF located, health, last_seq
    <3>. QED
      BY <2>2, <3>1, <3>2 DEF Info, ReportType
  <2>4. info.hosted_shards \in Named(info.last_seq)
    <3>1. CASE report.hosted_shards = {}
      BY <3>1 DEF Named
    <3>2. CASE report.hosted_shards # {}
      <4>1. report.seq > last_seq
        <5>1. report.seq # 0
          BY <3>2
        <5>2. known => ~(report.seq <= members[Node].last_seq)
          BY <1>2, <5>1 DEF stale
        <5>. QED
          BY <2>2, <5>1, <5>2
      <4>. QED
        BY <4>1
    <3>. QED
      BY <3>1, <3>2
  <2> HIDE DEF info
  <2>5. /\ DOMAIN new = DOMAIN members \cup {Node}
        /\ \A n \in DOMAIN new : new[n] = IF n = Node THEN info ELSE members[n]
    BY <2>1 DEF with
  <2>6. new \in [DOMAIN new -> Info]
    <3>1. new = [n \in DOMAIN members \cup {Node} |-> IF n = Node THEN info ELSE members[n]]
      BY <2>1 DEF with
    <3>. QED
      BY <2>3, <2>5, <3>1, RegistryFields
  <2>7. DOMAIN new \in SUBSET {Node}
    BY <2>5, RegistryFields
  <2> HIDE DEF new
  <2>8. new \in Registry
    BY <2>6, <2>7 DEF Registry
  <2>. QED
    BY <2>4, <2>5, <2>8 DEF new
<1>. QED
  BY <1>1, <1>2

\* drain changes the health of a node only.
LEMMA DrainLemma ==
    ASSUME NEW members \in Registry,
           \A n \in DOMAIN members : members[n].hosted_shards \in Named(members[n].last_seq)
    PROVE  LET new == drain(members, Node) IN
           /\ new \in Registry
           /\ \A n \in DOMAIN new : new[n].hosted_shards \in Named(new[n].last_seq)
<1> DEFINE new == drain(members, Node)
<1>1. CASE Node \notin DOMAIN members
  BY <1>1 DEF drain
<1>2. CASE Node \in DOMAIN members
  <2>1. PICK D \in SUBSET {Node} : members \in [D -> Info]
    BY DEF Registry
  <2>2. new = [members EXCEPT ![Node].health = "Draining"]
    BY <1>2 DEF drain
  <2>3. "Draining" \in Health
    BY DEF Health
  <2>4. members[Node] \in Info
    BY <1>2, RegistryFields
  <2>5. [members[Node] EXCEPT !.health = "Draining"] \in Info
    BY <2>3, <2>4 DEF Info
  <2>6. new \in [D -> Info]
    BY <2>1, <2>2, <2>5
  <2>7. new \in Registry
    BY <2>6 DEF Registry
  <2>8. ASSUME NEW n \in DOMAIN new PROVE new[n].hosted_shards \in Named(new[n].last_seq)
    <3>1. n \in DOMAIN members /\ n = Node
      BY <2>1, <2>6
    <3>2. new[n].hosted_shards = members[n].hosted_shards /\ new[n].last_seq = members[n].last_seq
      BY <2>1, <2>2, <2>4, <3>1 DEF Info
    <3>. QED
      BY <3>1, <3>2
  <2>. QED
    BY <2>7, <2>8
<1>. QED
  BY <1>1, <1>2

----------------------------------------------------------------------------
(* Requests that an action leaves where they are.                          *)

\* The committed prefix only grows, and log gains no entry of r.
LogKept(r) ==
    /\ committed <= committed'
    /\ \A i \in 1 .. committed : log'[i] = log[i]
    /\ Holds(r)' \subseteq Holds(r)

\* A plan that was acknowledged truthfully stays so while the committed prefix grows.
LEMMA AnswerKept ==
    ASSUME Types, NEW r, AnswerOK(r), committed' \in Nat, committed <= committed',
           \A i \in 1 .. committed : log'[i] = log[i],
           req'[r].kind = req[r].kind, answer'[r] = "ok" => answer[r] = "ok"
    PROVE  AnswerOK(r)'
<1> SUFFICES ASSUME req[r].kind = "set_scale", answer[r] = "ok"
             PROVE  \E i \in 1 .. committed' : log'[i].req = r
  BY DEF AnswerOK
<1>1. PICK i \in 1 .. committed : log[i].req = r
  BY DEF AnswerOK
<1>2. i \in 1 .. committed' /\ log'[i].req = r
  BY <1>1 DEF Types
<1>. QED
  BY <1>2

\* A request that stays in its place, at a member that stays up if it is being handled.
LEMMA CallKept ==
    ASSUME Types, Types', NEW r \in Req, CallOK(r),
           req'[r] = req[r], answer'[r] = "ok" => answer[r] = "ok",
           ~Waiting(r) => /\ brain'[req[r].at].up
                          /\ brain[req[r].at].generation <= brain'[req[r].at].generation,
           LogKept(r), AwaitOK(r)'
    PROVE  CallOK(r)'
<1>1. AtOK(r)' /\ ReportOK(r)'
  BY DEF CallOK, AtOK, ReportOK, Waiting
<1>2. ReadOK(r)'
  <2> SUFFICES ASSUME req[r].pc = "reading"
               PROVE  req[r].generation <= brain'[req[r].at].generation
    BY DEF ReadOK
  <2>1. /\ req[r].at \in Brain /\ ~Waiting(r) /\ req[r].generation <= brain[req[r].at].generation
    BY DEF CallOK, AtOK, ReadOK, Waiting
  <2>2. /\ req[r].generation \in Nat /\ brain[req[r].at].generation \in Nat
        /\ brain'[req[r].at].generation \in Nat
    BY <2>1 DEF Types, CallType, MemberType
  <2>. QED
    BY <2>1, <2>2
<1>3. AnswerOK(r)'
  BY AnswerKept DEF LogKept, CallOK, Types
<1>4. CountOK(r)'
  <2>1. Budget(r)' = Budget(r)
    BY DEF Budget, Waiting
  <2>2. IsFiniteSet(Holds(r)) /\ Cardinality(Holds(r)) \in Nat /\ Cardinality(Holds(r))' \in Nat
    <3>1. Types' => (IsFiniteSet(Holds(r)) /\ Cardinality(Holds(r)) \in Nat)'
      BY HoldsFinite, PTL
    <3>. QED
      BY <3>1, HoldsFinite
  <2>3. Cardinality(Holds(r)') <= Cardinality(Holds(r))
    BY <2>2, FS_Subset DEF LogKept
  <2>4. Budget(r) \in Nat /\ Cardinality(Holds(r)) <= Budget(r)
    BY DEF CallOK, CountOK, Budget
  <2>. QED
    BY <2>1, <2>2, <2>3, <2>4 DEF CountOK
<1>. QED
  BY <1>1, <1>2, <1>3, <1>4 DEF CallOK

\* An append keeps every entry.
Appends == log' = log \/ \E e \in Entry : log' = Append(log, e)

\* What an append leaves in place.
LEMMA AppendLemma ==
    ASSUME Types, Appends
    PROVE  /\ log' \in Seq(Entry) /\ Len(log) <= Len(log') /\ Len(log') \in Nat
           /\ \A i \in 1 .. Len(log) : log'[i] = log[i]
BY SMTT(30) DEF Types, Appends

\* A wait goes on under appends, at a member that notes no commit.
LEMMA AwaitKept ==
    ASSUME Types, Types', NEW r \in Req, AtOK(r), AwaitOK(r), req'[r] = req[r], Appends,
           \A c \in Brain : brain[c].term <= brain'[c].term,
           req[r].pc = "await" => brain'[req[r].at].commit = brain[req[r].at].commit
    PROVE  AwaitOK(r)'
<1> DEFINE q == req[r]
           b == req[r].at
<1> SUFFICES ASSUME q.pc = "await", q.waits # 0
             PROVE  /\ q.term <= brain'[b].term
                    /\ brain'[b].term = q.term =>
                          \/ brain'[b].commit < q.waits /\ \E c \in Brain : brain'[c].term > q.term
                          \/ q.waits <= Len(log') /\ log'[q.waits].req = r
  BY DEF AwaitOK
<1>1. b \in Brain
  BY DEF AtOK
<1>2. /\ q.term \in Nat /\ q.waits \in Nat /\ \A c \in Brain : brain[c].term \in Nat /\ brain'[c].term \in Nat
  BY DEF Types, CallType, MemberType
<1>3. q.term <= brain'[b].term
  BY <1>1, <1>2 DEF AwaitOK
<1>4. ASSUME brain'[b].term = q.term
      PROVE  \/ brain'[b].commit < q.waits /\ \E c \in Brain : brain'[c].term > q.term
             \/ q.waits <= Len(log') /\ log'[q.waits].req = r
  <2>1. brain[b].term = q.term
    BY <1>1, <1>2, <1>4 DEF AwaitOK
  <2>2. CASE brain[b].commit < q.waits /\ \E c \in Brain : brain[c].term > q.term
    <3>1. PICK c \in Brain : brain[c].term > q.term
      BY <2>2
    <3>2. brain'[c].term > q.term
      BY <1>2, <3>1
    <3>. QED
      BY <2>2, <3>2
  <2>3. CASE q.waits <= Len(log) /\ log[q.waits].req = r
    <3>1. q.waits \in 1 .. Len(log) /\ Len(log) \in Nat
      BY <1>2, <2>3 DEF Types
    <3>. QED
      BY <1>2, <2>3, <3>1, AppendLemma
  <2>. QED
    BY <2>1, <2>2, <2>3 DEF AwaitOK
<1>. QED
  BY <1>3, <1>4

\* An entry that is not r's does not count for r.
LEMMA AppendHolds ==
    ASSUME Types, NEW r, log' = log \/ \E e \in Entry : e.req # r /\ log' = Append(log, e),
           committed <= committed'
    PROVE  LogKept(r)
<1>1. Appends
  BY DEF Appends
<1>2. \A i \in 1 .. committed : log'[i] = log[i]
  BY <1>1, AppendLemma DEF Types
<1>3. ASSUME NEW i \in Holds(r)' PROVE i \in Holds(r)
  <2>1. i \in 1 .. Len(log') /\ log'[i].req = r
    BY <1>3 DEF Holds
  <2>2. i \in 1 .. Len(log)
    BY <2>1 DEF Types
  <2>. QED
    BY <1>1, <2>1, <2>2, AppendLemma DEF Holds
<1>. QED
  BY <1>2, <1>3 DEF LogKept

\* What a step changes of the members that no request under way can tell.
Still ==
    /\ UNCHANGED <<log, committed>>
    /\ \A b \in Brain : /\ brain'[b].up = brain[b].up /\ brain'[b].term = brain[b].term
                        /\ brain'[b].commit = brain[b].commit
                        /\ brain'[b].generation = brain[b].generation

\* Such a step keeps what holds of a request that does not move.
LEMMA StillKeeps ==
    ASSUME Types, Types', Still, NEW r \in Req, CallOK(r), req'[r] = req[r],
           answer'[r] = "ok" => answer[r] = "ok"
    PROVE  CallOK(r)'
<1>1. LogKept(r)
  BY DEF Still, LogKept, Types, Holds
<1>2. \A b \in Brain : brain[b].term \in Nat /\ brain[b].generation \in Nat
  BY DEF Types, MemberType
<1>3. AwaitOK(r)'
  <2>1. \A c \in Brain : brain[c].term <= brain'[c].term
    BY <1>2 DEF Still
  <2>2. req[r].pc = "await" => brain'[req[r].at].commit = brain[req[r].at].commit
    BY DEF Still, CallOK, AtOK
  <2>. QED
    BY <2>1, <2>2, AwaitKept DEF Appends, Still, CallOK
<1>4. ~Waiting(r) => /\ brain'[req[r].at].up
                     /\ brain[req[r].at].generation <= brain'[req[r].at].generation
  BY <1>2 DEF Still, CallOK, AtOK, Waiting
<1>. QED
  BY <1>1, <1>3, <1>4, CallKept

----------------------------------------------------------------------------
(* Requests that an action moves.                                          *)

\* Only r moves, and no member's state that a request under way depends on.
Alone(r) ==
    /\ Still
    /\ \A s \in Req \ {r} : req'[s] = req[s] /\ answer'[s] = answer[s]

\* The requests other than the one that moves.
LEMMA OthersKept ==
    ASSUME ApiInv, NEW r \in Req, Types', Alone(r), CallOK(r)'
    PROVE  \A s \in Req : CallOK(s)'
<1> SUFFICES ASSUME NEW s \in Req, s # r PROVE CallOK(s)'
  OBVIOUS
<1>. QED
  BY StillKeeps DEF ApiInv, Alone

\* A request, field by field.
LEMMA CallFields ==
    ASSUME Types, NEW r \in Req
    PROVE  /\ req[r] \in CallType /\ req[r].pc \in Places /\ req[r].kind \in Kinds \cup {None}
           /\ req[r].at \in Brain \cup {None} /\ req[r].forwarded \in BOOLEAN
           /\ req[r].report \in ReportType /\ req[r].waits \in Nat /\ req[r].term \in Nat
           /\ req[r].generation \in Nat /\ answer[r] \in Answers
BY DEF Types, CallType

\* A request starts with the empty report.
LEMMA EmptyReportType == EmptyReport \in ReportType /\ EmptyReport.hosted_shards = {} /\ EmptyReport.seq = 0
BY DEF EmptyReport, Report, ReportType

\* A request that is not under way.
LEMMA UnsentType ==
    ASSUME NEW kind \in Kinds \cup {None}
    PROVE  /\ Unsent(kind) \in CallType /\ [Unsent(kind) EXCEPT !.pc = "done"] \in CallType
           /\ Unsent(kind).kind = kind /\ Unsent(kind).forwarded = FALSE
           /\ Unsent(kind).report = EmptyReport /\ Unsent(kind).pc = "unsent"
           /\ Unsent(kind).waits = 0
<1>1. "unsent" \in Places /\ "done" \in Places
  BY DEF Places
<1>. QED
  BY <1>1, EmptyReportType DEF Unsent, CallType

\* A request that is done with: its client was told, truthfully if it was a scale plan
\* and the answer ok.
LEMMA DoneOK ==
    ASSUME Types, Types', NEW r \in Req, CallOK(r), UNCHANGED <<log, committed>>,
           req'[r] = [Unsent(req[r].kind) EXCEPT !.pc = "done"],
           answer'[r] = "ok" => \/ answer[r] = "ok"
                                \/ req[r].kind = "set_scale" => \E i \in 1 .. committed : log[i].req = r
    PROVE  CallOK(r)'
<1>1. /\ req'[r].pc = "done" /\ req'[r].kind = req[r].kind /\ req'[r].report = EmptyReport
  BY CallFields, UnsentType DEF Unsent
<1>2. AtOK(r)' /\ ReadOK(r)' /\ AwaitOK(r)'
  BY <1>1 DEF AtOK, ReadOK, AwaitOK, Waiting
<1>3. ReportOK(r)'
  BY <1>1, EmptyReportType DEF ReportOK, Named
<1>4. AnswerOK(r)'
  BY <1>1 DEF AnswerOK, CallOK
<1>5. CountOK(r)'
  <2>1. Holds(r)' = Holds(r)
    BY DEF Holds
  <2>2. Cardinality(Holds(r)) \in Nat /\ Cardinality(Holds(r)) <= Budget(r)
    BY HoldsFinite DEF CallOK, CountOK
  <2>3. Budget(r)' = IF req[r].kind = "set_scale" THEN 2 ELSE 0
    BY <1>1 DEF Budget
  <2>4. Budget(r) \in Nat /\ Budget(r) <= IF req[r].kind = "set_scale" THEN 2 ELSE 0
    BY DEF Budget
  <2>. QED
    BY <2>1, <2>2, <2>3, <2>4 DEF CountOK
<1>. QED
  BY <1>2, <1>3, <1>4, <1>5 DEF CallOK

\* Finish moves r alone.
LEMMA FinishLemma ==
    ASSUME ApiInv, NEW r \in Req, NEW what \in {"ok", "error"}, Finish(r, what)
    PROVE  /\ req' \in [Req -> CallType] /\ answer' \in [Req -> Answers]
           /\ req'[r] = [Unsent(req[r].kind) EXCEPT !.pc = "done"]
           /\ answer'[r] \in {answer[r], what}
           /\ \A s \in Req \ {r} : req'[s] = req[s] /\ answer'[s] = answer[s]
<1>1. Types
  BY DEF ApiInv
<1>2. req \in [Req -> CallType] /\ answer \in [Req -> Answers] /\ what \in Answers
  BY <1>1 DEF Types, Answers
<1>3. [Unsent(req[r].kind) EXCEPT !.pc = "done"] \in CallType
  BY <1>1, CallFields, UnsentType
<1>. QED
  BY <1>2, <1>3 DEF Finish, Tell

\* A step that finishes r and changes nothing that the others depend on.
LEMMA Finishes ==
    ASSUME ApiInv, NEW r \in Req, NEW what \in {"ok", "error"}, Finish(r, what), Types', Still,
           what = "ok" /\ req[r].kind = "set_scale" => \E i \in 1 .. committed : log[i].req = r
    PROVE  \A s \in Req : CallOK(s)'
<1>1. /\ req'[r] = [Unsent(req[r].kind) EXCEPT !.pc = "done"]
      /\ answer'[r] \in {answer[r], what}
      /\ \A s \in Req \ {r} : req'[s] = req[s] /\ answer'[s] = answer[s]
  BY FinishLemma
<1>2. CallOK(r)'
  BY <1>1, DoneOK DEF ApiInv, Still
<1>. QED
  BY <1>1, <1>2, OthersKept DEF Alone

\* r moves to another place of the same handler, or to another member.
LEMMA MoveOK ==
    ASSUME Types, Types', NEW r \in Req, CallOK(r), Still, answer' = answer,
           req'[r].kind = req[r].kind, AtOK(r)', ReportOK(r)', ReadOK(r)', AwaitOK(r)',
           req[r].pc # "done",
           req[r].kind = "set_scale" => Budget(r)' >= Budget(r)
    PROVE  CallOK(r)'
<1>1. AnswerOK(r)'
  BY DEF AnswerOK, CallOK, Still
<1>2. CountOK(r)'
  <2>1. Holds(r)' = Holds(r)
    BY DEF Holds, Still
  <2>2. Cardinality(Holds(r)) \in Nat /\ Cardinality(Holds(r)) <= Budget(r)
    BY HoldsFinite DEF CallOK, CountOK
  <2>3. Budget(r) \in Nat /\ Budget(r)' \in Nat
    BY DEF Budget
  <2>4. Budget(r)' >= Budget(r)
    BY <2>3 DEF Budget
  <2>. QED
    BY <2>1, <2>2, <2>3, <2>4 DEF CountOK
<1>. QED
  BY <1>1, <1>2 DEF CallOK

\* A forward hands the request to another member, with nothing that it waits for.
LEMMA ForwardLemma ==
    ASSUME ApiInv, NEW r \in Req, NEW l \in Brain, Forward(r, l), Types', Still,
           req[r].pc \in {"route", "refused"}, req[r].kind = "set_scale" => may_forward(r)
    PROVE  \A s \in Req : CallOK(s)'
<1>1. Types /\ CallOK(r) /\ req \in [Req -> CallType]
  BY DEF ApiInv, Types
<1>2. /\ req'[r].pc = "arrived" /\ req'[r].at = l /\ req'[r].forwarded = TRUE
      /\ req'[r].kind = req[r].kind /\ req'[r].report = req[r].report
      /\ req'[r].waits = 0 /\ answer' = answer /\ \A s \in Req \ {r} : req'[s] = req[s]
  BY <1>1 DEF Forward, CallType
<1>3. AtOK(r)' /\ ReadOK(r)' /\ AwaitOK(r)'
  BY <1>2 DEF AtOK, ReadOK, AwaitOK, Waiting
<1>4. ReportOK(r)'
  BY <1>1, <1>2 DEF CallOK, ReportOK
<1>5. req[r].kind = "set_scale" => Budget(r)' >= Budget(r)
  BY <1>2 DEF Budget, may_forward, Waiting
<1>6. CallOK(r)'
  BY <1>1, <1>2, <1>3, <1>4, <1>5, MoveOK
<1>. QED
  BY <1>2, <1>6, OthersKept DEF Alone

----------------------------------------------------------------------------
(* One action of a request after the other.                                *)

\* What an action of a request may leave as it is.
LEMMA MembersKept ==
    ASSUME ApiInv, UNCHANGED <<brain, committed, seen>>
    PROVE  \A b \in Brain : (MemberOK(b) /\ SeenOK(b))'
BY DEF ApiInv, MemberOK, SeenOK

\* A step of a request that leaves the members and the log as they are.
LEMMA UnchangedStill == UNCHANGED <<brain, log, committed>> => Still
BY DEF Still

\* A step of r alone that leaves the members alone.
LEMMA CallStep ==
    ASSUME ApiInv, NEW r \in Req, UNCHANGED <<brain, log, committed, seen>>,
           Types' => \A s \in Req : CallOK(s)',
           req' \in [Req -> CallType], answer' \in [Req -> Answers], reports' \in Nat
    PROVE  ApiInv'
<1>1. Types'
  BY DEF ApiInv, Types
<1>. QED
  BY <1>1, MembersKept DEF ApiInv

\* r is done, and nothing but r and its answer has changed.
LEMMA FinishStep ==
    ASSUME ApiInv, NEW r \in Req, NEW what \in {"ok", "error"}, Finish(r, what),
           UNCHANGED <<brain, log, committed, reports, seen>>,
           what = "ok" /\ req[r].kind = "set_scale" => \E i \in 1 .. committed : log[i].req = r
    PROVE  ApiInv'
<1>1. req' \in [Req -> CallType] /\ answer' \in [Req -> Answers] /\ reports' \in Nat
  BY FinishLemma DEF ApiInv, Types
<1>2. Types' => \A s \in Req : CallOK(s)'
  BY Finishes, UnchangedStill
<1>. QED
  BY <1>1, <1>2, CallStep

\* r goes on in its handler: q is where it is then.
LEMMA MoveStep ==
    ASSUME ApiInv, NEW r \in Req, NEW q \in CallType, req' = [req EXCEPT ![r] = q],
           UNCHANGED <<brain, log, committed, answer, seen>>, reports' \in Nat,
           q.kind = req[r].kind, req[r].pc # "done",
           AtOK(r)', ReportOK(r)', ReadOK(r)', AwaitOK(r)',
           req[r].kind = "set_scale" => Budget(r)' >= Budget(r)
    PROVE  ApiInv'
<1>1. req \in [Req -> CallType] /\ answer \in [Req -> Answers] /\ Types /\ CallOK(r)
  BY DEF ApiInv, Types
<1>2. req' \in [Req -> CallType] /\ req'[r] = q /\ \A s \in Req \ {r} : req'[s] = req[s]
  BY <1>1
<1>3. ASSUME Types' PROVE \A s \in Req : CallOK(s)'
  <2>1. CallOK(r)'
    BY <1>1, <1>2, <1>3, UnchangedStill, MoveOK
  <2>. QED
    BY <1>2, <1>3, <2>1, UnchangedStill, OthersKept DEF Alone
<1>. QED
  BY <1>1, <1>2, <1>3, CallStep

\* A client sends r; a sidecar may number its report.
LEMMA SendKeeps ==
    ASSUME ApiInv, NEW r \in Req, NEW b \in Brain, NEW numbered \in BOOLEAN, Send(r, b, numbered)
    PROVE  ApiInv'
<1> DEFINE report == IF reports' = reports THEN req[r].report ELSE ReportOf(reports')
           q == [req[r] EXCEPT !.pc = "arrived", !.at = b, !.origin = b, !.report = report]
<1>1. Types /\ CallOK(r) /\ reports \in Nat
  BY DEF ApiInv, Types
<1>2. /\ req[r].pc = "unsent" /\ reports' \in {reports, reports + 1}
      /\ req' = [req EXCEPT ![r] = q]
      /\ UNCHANGED <<brain, log, committed, answer, seen>>
  <2>1. req[r].pc = "unsent" /\ UNCHANGED <<brain, log, committed, answer, seen>>
    BY DEF Send
  <2>2. reports' \in {reports, reports + 1}
    BY DEF Send
  <2>3. req' = [req EXCEPT ![r] = q]
    BY DEF Send
  <2>. QED
    BY <2>1, <2>2, <2>3
<1>3. reports' \in Nat /\ (reports' # reports => reports' \in Nat \ {0})
  BY <1>1, <1>2
<1>4. /\ report \in ReportType
      /\ report.hosted_shards \in Named(report.seq) \cup {{0, report.seq}}
      /\ report.hosted_shards = {} \/ report.seq # 0
  <2>1. CASE reports' = reports
    BY <1>1, <2>1, CallFields DEF CallOK, ReportOK
  <2>2. CASE reports' # reports
    BY <1>3, <2>2, ReportsOf
  <2>. QED
    BY <2>1, <2>2
<1> HIDE DEF report
<1>5. q \in CallType
  BY <1>1, <1>4, CallFields DEF CallType, Places
<1>6. /\ q.pc = "arrived" /\ q.at = b /\ q.report = report /\ q.kind = req[r].kind
      /\ q.waits = req[r].waits /\ q.forwarded = req[r].forwarded
  BY <1>1, CallFields DEF CallType
<1>7. req'[r] = q
  BY <1>1, <1>2 DEF Types
<1> HIDE DEF q
<1>8. AtOK(r)' /\ ReadOK(r)' /\ AwaitOK(r)'
  BY <1>1, <1>2, <1>6, <1>7 DEF AtOK, ReadOK, AwaitOK, Waiting, CallOK
<1>9. ReportOK(r)'
  BY <1>4, <1>6, <1>7 DEF ReportOK
<1>10. Budget(r)' >= Budget(r)
  BY <1>2, <1>6, <1>7 DEF Budget, Waiting
<1>. QED
  BY <1>2, <1>3, <1>5, <1>6, <1>8, <1>9, <1>10, MoveStep

\* The head of a handler sanitizes the report.
LEMMA HandleKeeps ==
    ASSUME ApiInv, NEW r \in Req, Handle(r)
    PROVE  ApiInv'
<1> DEFINE clean == sanitize_report(req[r].report, Shards)
           place == IF ~is_leader(req[r].at) /\ may_forward(r) THEN "route" ELSE "local"
           q == [req[r] EXCEPT !.pc = place, !.report = clean]
<1>1. Types /\ CallOK(r) /\ reports \in Nat
  BY DEF ApiInv, Types
<1>2. /\ req[r].pc = "arrived" /\ brain[req[r].at].up /\ req[r].kind # "set_scale"
      /\ UNCHANGED <<brain, log, committed, reports, seen>>
  BY DEF Handle
<1>3. CASE Finish(r, "error")
  BY <1>2, <1>3, FinishStep
<1>4. CASE ~Finish(r, "error")
  <2>1. answer' = answer /\ req' = [req EXCEPT ![r] = q]
    BY <1>1, <1>4 DEF Handle, Types
  <2>2. /\ clean \in ReportType /\ clean.hosted_shards \in Named(clean.seq)
        /\ clean.hosted_shards = {} \/ clean.seq # 0
    BY <1>1, CallFields, Sanitized DEF CallOK, ReportOK
  <2> HIDE DEF clean
  <2>3. place \in {"route", "local"}
    OBVIOUS
  <2> HIDE DEF place
  <2>4. q \in CallType
    BY <1>1, <2>2, <2>3, CallFields DEF CallType, Places
  <2>5. q.pc = place /\ q.report = clean /\ q.kind = req[r].kind /\ q.at = req[r].at
    BY <1>1, CallFields DEF CallType
  <2>6. req'[r] = q
    BY <1>1, <2>1 DEF Types
  <2> HIDE DEF q
  <2>7. AtOK(r)' /\ ReadOK(r)' /\ AwaitOK(r)'
    BY <1>1, <1>2, <2>3, <2>5, <2>6 DEF AtOK, ReadOK, AwaitOK, Waiting, CallOK
  <2>8. ReportOK(r)'
    BY <2>2, <2>5, <2>6 DEF ReportOK
  <2>. QED
    BY <1>1, <1>2, <2>1, <2>4, <2>5, <2>7, <2>8, MoveStep
<1>. QED
  BY <1>3, <1>4

\* Only the place changes.
LEMMA GotoStep ==
    ASSUME ApiInv, NEW r \in Req, NEW place \in {"local", "await", "refused"}, Goto(r, place),
           UNCHANGED <<brain, log, committed, answer, reports, seen>>,
           req[r].pc # "done", req[r].at \in Brain, brain[req[r].at].up,
           place = "local" => req[r].pc = "route" /\ req[r].kind # "set_scale",
           place = "await" => req[r].waits = 0,
           place # "local" => req[r].kind = "set_scale"
    PROVE  ApiInv'
<1> DEFINE q == [req[r] EXCEPT !.pc = place]
<1>1. Types /\ CallOK(r) /\ reports \in Nat
  BY DEF ApiInv, Types
<1>2. req' = [req EXCEPT ![r] = q]
  BY <1>1 DEF Goto, Types
<1>3. q \in CallType
  BY <1>1, CallFields DEF CallType, Places
<1>4. /\ q.pc = place /\ q.report = req[r].report /\ q.kind = req[r].kind /\ q.at = req[r].at
      /\ q.waits = req[r].waits /\ q.forwarded = req[r].forwarded
  BY <1>1, CallFields DEF CallType
<1>5. req'[r] = q
  BY <1>1, <1>2 DEF Types
<1> HIDE DEF q
<1>6. AtOK(r)' /\ ReadOK(r)' /\ AwaitOK(r)'
  BY <1>4, <1>5 DEF AtOK, ReadOK, AwaitOK, Waiting
<1>7. ReportOK(r)'
  BY <1>1, <1>4, <1>5 DEF ReportOK, CallOK
<1>8. req[r].kind = "set_scale" => Budget(r)' >= Budget(r)
  BY <1>4, <1>5 DEF Budget, Waiting
<1>. QED
  BY <1>1, <1>2, <1>3, <1>4, <1>6, <1>7, <1>8, MoveStep

\* leader_addr names a member, if any.
LEMMA LeaderAddr ==
    ASSUME Types, NEW b \in Brain PROVE leader_addr(b) \in Brain \cup {None}
BY DEF Types, MemberType, leader_addr

\* r is forwarded, and nothing but r has changed.
LEMMA ForwardStep ==
    ASSUME ApiInv, NEW r \in Req, NEW l \in Brain, Forward(r, l),
           UNCHANGED <<brain, log, committed, reports, seen>>,
           req[r].pc \in {"route", "refused"}, req[r].kind = "set_scale" => may_forward(r)
    PROVE  ApiInv'
<1>1. req \in [Req -> CallType] /\ answer \in [Req -> Answers] /\ reports \in Nat
  BY DEF ApiInv, Types
<1>2. req' \in [Req -> CallType] /\ answer' = answer
  <2>1. [req[r] EXCEPT !.pc = "arrived", !.at = l, !.forwarded = TRUE, !.waits = 0, !.term = 0] \in CallType
    <3> DEFINE q == req[r]
    <3>1. q \in CallType
      BY <1>1
    <3>2. l \in Brain \cup {None} /\ "arrived" \in Places
      BY DEF Places
    <3> HIDE DEF q
    <3>3. [q EXCEPT !.pc = "arrived", !.at = l, !.forwarded = TRUE, !.waits = 0, !.term = 0] \in CallType
      BY ONLY <3>1, <3>2 DEF CallType
    <3> QED
      BY <3>3 DEF q
  <2>2. req' = [req EXCEPT ![r] = [req[r] EXCEPT !.pc = "arrived", !.at = l, !.forwarded = TRUE,
                                                 !.waits = 0, !.term = 0]]
    BY <1>1 DEF Forward
  <2>. QED
    BY <1>1, <2>1, <2>2 DEF Forward
<1>3. Types' => \A s \in Req : CallOK(s)'
  BY ForwardLemma, UnchangedStill
<1>. QED
  BY <1>1, <1>2, <1>3, CallStep

\* Forwarded, refused, or handled here.
LEMMA RouteKeeps ==
    ASSUME ApiInv, NEW r \in Req, Route(r)
    PROVE  ApiInv'
<1>1. Types /\ AtOK(r)
  BY DEF ApiInv, CallOK
<1>2. req[r].pc = "route" /\ UNCHANGED <<brain, log, committed, reports, seen>>
  BY DEF Route
<1>3. req[r].at \in Brain /\ brain[req[r].at].up /\ req[r].kind # "set_scale"
  BY <1>1, <1>2 DEF AtOK, Waiting
<1>4. CASE leader_addr(req[r].at) # None
  <2>1. leader_addr(req[r].at) \in Brain
    BY <1>1, <1>3, <1>4, LeaderAddr
  <2>2. Forward(r, leader_addr(req[r].at))
    BY <1>4 DEF Route
  <2>. QED
    BY <1>2, <1>3, <2>1, <2>2, ForwardStep
<1>5. CASE leader_addr(req[r].at) = None /\ req[r].kind = "set_policy"
  <2>1. Finish(r, "error")
    BY <1>5 DEF Route
  <2>. QED
    BY <1>2, <2>1, FinishStep
<1>6. CASE leader_addr(req[r].at) = None /\ req[r].kind # "set_policy"
  <2>1. Goto(r, "local") /\ answer' = answer
    BY <1>6 DEF Route
  <2>. QED
    BY <1>2, <1>3, <2>1, GotoStep
<1>. QED
  BY <1>4, <1>5, <1>6

\* The member is down.
LEMMA UnreachableKeeps ==
    ASSUME ApiInv, NEW r \in Req, Unreachable(r)
    PROVE  ApiInv'
BY FinishStep DEF Unreachable

\* A refused plan goes to the leader once.
LEMMA RefusedKeeps ==
    ASSUME ApiInv, NEW r \in Req, Refused(r)
    PROVE  ApiInv'
<1>1. Types /\ AtOK(r)
  BY DEF ApiInv, CallOK
<1>2. req[r].pc = "refused" /\ UNCHANGED <<brain, log, committed, reports, seen>>
  BY DEF Refused
<1>3. req[r].at \in Brain
  BY <1>1, <1>2 DEF AtOK
<1>4. CASE leader_addr(req[r].at) # None /\ may_forward(r)
  <2>1. leader_addr(req[r].at) \in Brain
    BY <1>1, <1>3, <1>4, LeaderAddr
  <2>2. Forward(r, leader_addr(req[r].at))
    BY <1>4 DEF Refused
  <2>. QED
    BY <1>2, <1>4, <2>1, <2>2, ForwardStep
<1>5. CASE ~(leader_addr(req[r].at) # None /\ may_forward(r))
  <2>1. Finish(r, "error")
    BY <1>5 DEF Refused
  <2>. QED
    BY <1>2, <2>1, FinishStep
<1>. QED
  BY <1>4, <1>5

\* A handler's effect is on the registry alone.
LEMMA EffectLemma ==
    ASSUME Types, NEW r \in Req, ReportOK(r), req[r].pc = "local", NEW b \in Brain, MemberOK(b)
    PROVE  LET m == effect(brain[b], req[r]) IN
           /\ m \in MemberType
           /\ \A n \in DOMAIN m.members : m.members[n].hosted_shards \in Named(m.members[n].last_seq)
           /\ m.up = brain[b].up /\ m.term = brain[b].term /\ m.commit = brain[b].commit
           /\ m.applied = brain[b].applied /\ m.map = brain[b].map
           /\ m.generation = brain[b].generation /\ m.bumps = brain[b].bumps
<1> DEFINE m == effect(brain[b], req[r])
           old == brain[b].members
           report == req[r].report
<1>1. brain[b] \in MemberType /\ old \in Registry
  BY DEF Types, MemberType
<1>2. \A n \in DOMAIN old : old[n].hosted_shards \in Named(old[n].last_seq)
  BY DEF MemberOK
<1>3. /\ report \in ReportType /\ report.hosted_shards \in Named(report.seq)
      /\ report.hosted_shards = {} \/ report.seq # 0
  BY CallFields DEF ReportOK
<1>4. ASSUME NEW new \in Registry, m = [brain[b] EXCEPT !.members = new],
             \A n \in DOMAIN new : new[n].hosted_shards \in Named(new[n].last_seq)
      PROVE  /\ m \in MemberType
             /\ \A n \in DOMAIN m.members : m.members[n].hosted_shards \in Named(m.members[n].last_seq)
             /\ m.up = brain[b].up /\ m.term = brain[b].term /\ m.commit = brain[b].commit
             /\ m.applied = brain[b].applied /\ m.map = brain[b].map
             /\ m.generation = brain[b].generation /\ m.bumps = brain[b].bumps
  <2> HIDE DEF m
  <2>1. m \in MemberType /\ m.members = new
    BY <1>1, <1>4 DEF MemberType
  <2>. QED
    BY <1>1, <1>4, <2>1 DEF MemberType
<1>5. CASE req[r].kind = "heartbeat"
  <2>1. m = [brain[b] EXCEPT !.members = heartbeat(old, Node, report)]
    BY <1>5 DEF effect
  <2>. QED
    BY <1>1, <1>2, <1>3, <1>4, <2>1, HeartbeatLemma
<1>6. CASE req[r].kind = "remove_node"
  <2>1. m = [brain[b] EXCEPT !.members = drain(old, Node)]
    BY <1>6 DEF effect
  <2>. QED
    BY <1>1, <1>2, <1>4, <2>1, DrainLemma
<1>7. CASE req[r].kind \notin {"heartbeat", "remove_node"}
  <2>1. m = brain[b]
    BY <1>7 DEF effect
  <2>. QED
    BY <1>1, <1>2, <2>1
<1>. QED
  BY <1>5, <1>6, <1>7

\* A handler runs here.
LEMMA LocalKeeps ==
    ASSUME ApiInv, NEW r \in Req, Local(r)
    PROVE  ApiInv'
<1> DEFINE b == req[r].at
<1>1. Types /\ CallOK(r)
  BY DEF ApiInv
<1>2. /\ req[r].pc = "local" /\ Finish(r, "ok") /\ UNCHANGED <<log, committed, reports, seen>>
      /\ brain' = [brain EXCEPT ![b] = effect(brain[b], req[r])]
  BY DEF Local
<1>3. b \in Brain /\ req[r].kind # "set_scale"
  BY <1>1, <1>2 DEF CallOK, AtOK
<1> HIDE DEF b
<1>4. PICK m : m = effect(brain[b], req[r])
  OBVIOUS
<1>5. /\ m \in MemberType
      /\ \A n \in DOMAIN m.members : m.members[n].hosted_shards \in Named(m.members[n].last_seq)
      /\ m.up = brain[b].up /\ m.term = brain[b].term /\ m.commit = brain[b].commit
      /\ m.applied = brain[b].applied /\ m.map = brain[b].map
      /\ m.generation = brain[b].generation /\ m.bumps = brain[b].bumps
  BY <1>1, <1>2, <1>3, <1>4, EffectLemma DEF ApiInv, CallOK
<1>6. /\ brain' \in [Brain -> MemberType] /\ brain'[b] = m
      /\ \A c \in Brain \ {b} : brain'[c] = brain[c]
  BY <1>1, <1>2, <1>3, <1>4, <1>5 DEF Types
<1>7. Still
  BY <1>2, <1>5, <1>6 DEF Still
<1>8. Types'
  BY <1>1, <1>2, <1>6, FinishLemma DEF Types
<1>9. \A c \in Brain : MemberOK(c)' /\ SeenOK(c)'
  <2> SUFFICES ASSUME NEW c \in Brain PROVE MemberOK(c)' /\ SeenOK(c)'
    OBVIOUS
  <2>1. MemberOK(c) /\ SeenOK(c)
    BY DEF ApiInv
  <2>2. CASE c = b
    BY <1>2, <1>5, <1>6, <2>1, <2>2 DEF MemberOK, SeenOK
  <2>3. CASE c # b
    BY <1>2, <1>6, <2>1, <2>3 DEF MemberOK, SeenOK
  <2>. QED
    BY <2>2, <2>3
<1>10. \A s \in Req : CallOK(s)'
  BY <1>2, <1>3, <1>7, <1>8, Finishes
<1>. QED
  BY <1>8, <1>9, <1>10 DEF ApiInv

\* A poller that is handed an older generation keeps nothing newer than what it means.
LEMMA PolledLemma ==
    ASSUME Types, NEW b \in Brain, SeenOK(b), NEW generation \in Nat,
           generation <= brain[b].generation, UNCHANGED brain,
           seen' = [seen EXCEPT ![b] = polled(seen[b], generation, brain[b].map)]
    PROVE  /\ seen' \in [Brain -> {None} \cup [generation : Nat, map : Nat]]
           /\ SeenOK(b)' /\ \A c \in Brain \ {b} : seen'[c] = seen[c]
<1> DEFINE new == [generation |-> generation, map |-> brain[b].map]
<1>1. brain[b].map \in Nat /\ brain[b].generation \in Nat
      /\ seen \in [Brain -> {None} \cup [generation : Nat, map : Nat]]
  BY DEF Types, MemberType
<1>2. seen'[b] \in {seen[b], new} /\ \A c \in Brain \ {b} : seen'[c] = seen[c]
  BY <1>1 DEF polled
<1>3. new \in [generation : Nat, map : Nat]
  BY <1>1
<1>4. seen' \in [Brain -> {None} \cup [generation : Nat, map : Nat]]
  BY <1>1, <1>2, <1>3
<1>5. ASSUME seen'[b] = seen[b] PROVE SeenOK(b)'
  <2>1. brain'[b] = brain[b]
    OBVIOUS
  <2>. QED
    BY <1>5, <2>1 DEF SeenOK
<1>6. ASSUME seen'[b] = new PROVE SeenOK(b)'
  BY <1>1, <1>6 DEF SeenOK
<1>. QED
  BY <1>2, <1>4, <1>5, <1>6

\* The generation is read first, and what a poller then keeps is not older than it.
LEMMA ServePlacementKeeps ==
    ASSUME ApiInv, NEW r \in Req, ServePlacement(r)
    PROVE  ApiInv'
<1>. PICK b : b = req[r].at
  OBVIOUS
<1>1. Types /\ CallOK(r) /\ req[r] \in CallType /\ reports \in Nat
  BY CallFields DEF ApiInv, Types
<1>2. UNCHANGED <<brain, log, committed, reports>>
  BY DEF ServePlacement
<1>3. CASE /\ req[r].pc = "local" /\ req[r].kind = "placement"
           /\ req' = [req EXCEPT ![r] = [req[r] EXCEPT !.pc = "reading",
                                                       !.generation = brain[b].generation]]
           /\ UNCHANGED <<answer, seen>>
  <2> DEFINE q == [req[r] EXCEPT !.pc = "reading", !.generation = brain[b].generation]
  <2>1. b \in Brain /\ brain[b].up
    BY <1>1, <1>3 DEF CallOK, AtOK, Waiting
  <2>2. brain[b].generation \in Nat
    BY <1>1, <2>1 DEF Types, MemberType
  <2>3. q \in CallType
    BY <1>1, <2>2 DEF CallType, Places
  <2>4. /\ q.pc = "reading" /\ q.generation = brain[b].generation /\ q.at = b
        /\ q.kind = req[r].kind /\ q.report = req[r].report
    BY <1>1 DEF CallType
  <2>5. req'[r] = q /\ req' = [req EXCEPT ![r] = q]
    BY <1>1, <1>3 DEF Types
  <2> HIDE DEF q
  <2>6. AtOK(r)' /\ ReadOK(r)' /\ AwaitOK(r)'
    <3>1. /\ req'[r].pc = "reading" /\ req'[r].generation = brain'[b].generation /\ req'[r].at = b
          /\ req'[r].kind = "placement" /\ brain'[b].up
      BY <1>2, <1>3, <2>1, <2>4, <2>5
    <3>2. AtOK(r)'
      BY <2>1, <3>1 DEF AtOK, Waiting
    <3>3. req'[r].generation <= brain'[b].generation
      BY <1>2, <2>2, <3>1
    <3>. QED
      BY <3>1, <3>2, <3>3 DEF ReadOK, AwaitOK
  <2>7. ReportOK(r)'
    BY <1>1, <2>4, <2>5 DEF CallOK, ReportOK
  <2>. QED
    BY <1>1, <1>2, <1>3, <2>3, <2>4, <2>5, <2>6, <2>7, MoveStep
<1>4. CASE /\ req[r].pc = "reading" /\ Finish(r, "ok")
           /\ seen' = [seen EXCEPT ![b] = polled(seen[b], req[r].generation, brain[b].map)]
  <2>1. b \in Brain /\ req[r].kind # "set_scale" /\ req[r].generation <= brain[b].generation
    BY <1>1, <1>4 DEF CallOK, AtOK, ReadOK
  <2>2. req[r].generation \in Nat
    BY <1>1 DEF CallType
  <2>3. /\ seen' \in [Brain -> {None} \cup [generation : Nat, map : Nat]]
        /\ SeenOK(b)' /\ \A c \in Brain \ {b} : seen'[c] = seen[c]
    <3>1. SeenOK(b) /\ UNCHANGED brain
      BY <1>2, <2>1 DEF ApiInv
    <3>. QED
      BY <1>1, <1>4, <2>1, <2>2, <3>1, PolledLemma
  <2>4. Types'
    BY <1>1, <1>2, <1>4, <2>3, FinishLemma DEF Types
  <2>5. \A c \in Brain : MemberOK(c)' /\ SeenOK(c)'
    <3> SUFFICES ASSUME NEW c \in Brain PROVE MemberOK(c)' /\ SeenOK(c)'
      OBVIOUS
    <3>1. MemberOK(c) /\ SeenOK(c) /\ brain' = brain /\ committed' = committed
      BY <1>2 DEF ApiInv
    <3>2. c # b => SeenOK(c)'
      BY <2>3, <3>1 DEF SeenOK
    <3>. QED
      BY <2>3, <3>1, <3>2 DEF MemberOK
  <2>6. \A s \in Req : CallOK(s)'
    BY <1>2, <1>4, <2>1, <2>4, Finishes, UnchangedStill
  <2>. QED
    BY <2>4, <2>5, <2>6 DEF ApiInv
<1>. QED
  BY <1>1, <1>3, <1>4 DEF ServePlacement, Placement, Types

\* The entry that a proposal appends is r's, at the index r waits for.
LEMMA ProposeKeeps ==
    ASSUME ApiInv, NEW r \in Req, Propose(r)
    PROVE  ApiInv'
<1> DEFINE b == req[r].at
<1>1. Types /\ CallOK(r) /\ req[r] \in CallType /\ reports \in Nat
  BY CallFields DEF ApiInv, Types
<1>2. /\ req[r].pc = "arrived" /\ brain[b].up /\ req[r].kind = "set_scale"
      /\ UNCHANGED <<brain, committed, reports, seen>>
  BY DEF Propose
<1>3. b \in Brain /\ req[r].waits = 0
  BY <1>1, <1>2 DEF CallOK, AtOK, AwaitOK
<1>4. CASE Finish(r, "error") /\ UNCHANGED log
  BY <1>2, <1>4, FinishStep
<1>5. ASSUME NEW place \in {"await", "refused"}, Goto(r, place), UNCHANGED <<log, answer>>
      PROVE  ApiInv'
  BY <1>2, <1>3, <1>5, GotoStep
<1>6. CASE /\ log' = Append(log, [term |-> brain[b].term, req |-> r]) /\ UNCHANGED answer
           /\ req' = [req EXCEPT ![r].pc = "await", ![r].waits = Len(log) + 1,
                                 ![r].term = brain[b].term]
  <2> DEFINE q == [req[r] EXCEPT !.pc = "await", !.waits = Len(log) + 1, !.term = brain[b].term]
             e == [term |-> brain[b].term, req |-> r]
  <2>1. /\ brain[b].term \in Nat /\ Len(log) \in Nat /\ log \in Seq(Entry) /\ committed \in Nat
        /\ committed <= Len(log)
    BY <1>1, <1>3 DEF Types, MemberType
  <2>2. q \in CallType
    <3>1. Len(log) + 1 \in Nat /\ "await" \in Places
      BY <2>1 DEF Places
    <3>2. ASSUME NEW w \in Nat, NEW t \in Nat
          PROVE  [req[r] EXCEPT !.pc = "await", !.waits = w, !.term = t] \in CallType
      BY <1>1, <3>1 DEF CallType
    <3>. QED
      BY <2>1, <3>1, <3>2
  <2>3. /\ q.pc = "await" /\ q.waits = Len(log) + 1 /\ q.term = brain[b].term /\ q.at = b
        /\ q.kind = req[r].kind /\ q.report = req[r].report /\ q.forwarded = req[r].forwarded
    BY <1>1 DEF CallType
  <2>4. req' = [req EXCEPT ![r] = q]
    BY <1>1, <1>6 DEF Types
  <2>5. req'[r] = q /\ req' \in [Req -> CallType] /\ \A s \in Req \ {r} : req'[s] = req[s]
    BY <1>1, <2>2, <2>4 DEF Types
  <2>6. e \in Entry /\ e.req = r
    BY <2>1 DEF Entry
  <2> HIDE DEF q, e, b
  <2>7. /\ log' = Append(log, e) /\ log' \in Seq(Entry) /\ Len(log') = Len(log) + 1
        /\ log'[Len(log) + 1] = e /\ \A i \in 1 .. Len(log) : log'[i] = log[i]
    BY <1>6, <2>1, <2>6 DEF e, b
  <2>8. Types'
    <3>1. committed <= Len(log')
      BY <2>1, <2>7
    <3>. QED
      BY <1>1, <1>2, <1>6, <2>5, <2>7, <3>1 DEF Types
  <2>9. AtOK(r)' /\ ReportOK(r)' /\ ReadOK(r)'
    BY <1>1, <1>2, <1>3, <2>3, <2>5 DEF AtOK, ReportOK, ReadOK, CallOK, Waiting, b
  <2>10. AwaitOK(r)'
    BY <1>2, <2>1, <2>3, <2>5, <2>6, <2>7 DEF AwaitOK
  <2>11. AnswerOK(r)'
    <3>1. \A i \in 1 .. committed : log'[i] = log[i]
      BY <2>1, <2>7
    <3>. QED
      BY <1>1, <1>2, <1>6, <2>1, <2>3, <2>5, <3>1, AnswerKept DEF CallOK
  <2>12. CountOK(r)'
    <3>1. Holds(r)' \subseteq Holds(r) \cup {Len(log) + 1}
      BY <2>1, <2>7 DEF Holds
    <3>2. /\ IsFiniteSet(Holds(r)) /\ Cardinality(Holds(r)) \in Nat
          /\ Len(log) + 1 \notin Holds(r)
      <4>1. Len(log) + 1 \notin Holds(r)
        BY <2>1 DEF Holds
      <4>. QED
        BY <1>1, <4>1, HoldsFinite
    <3>3. /\ IsFiniteSet(Holds(r) \cup {Len(log) + 1})
          /\ Cardinality(Holds(r) \cup {Len(log) + 1}) = Cardinality(Holds(r)) + 1
      BY <3>2, FS_AddElement
    <3>4. IsFiniteSet(Holds(r)') /\ Cardinality(Holds(r)') <= Cardinality(Holds(r)) + 1
      BY <3>1, <3>3, FS_Subset
    <3>5. Cardinality(Holds(r)') \in Nat
      BY <3>4, FS_CardinalityType
    <3>6. Cardinality(Holds(r)) <= Budget(r) /\ Budget(r) \in Nat /\ Budget(r)' = Budget(r) + 1
      BY <1>1, <1>2, <2>3, <2>5 DEF CallOK, CountOK, Budget, Waiting
    <3>. QED
      BY <3>2, <3>4, <3>5, <3>6 DEF CountOK
  <2>13. CallOK(r)'
    BY <2>9, <2>10, <2>11, <2>12 DEF CallOK
  <2>14. ASSUME NEW s \in Req, s # r PROVE CallOK(s)'
    <3>1. CallOK(s) /\ req'[s] = req[s] /\ answer'[s] = answer[s]
      BY <1>6, <2>5, <2>14 DEF ApiInv
    <3>2. LogKept(s)
      BY <1>1, <1>2, <2>1, <2>6, <2>7, <2>14, AppendHolds
    <3>3. \A c \in Brain : brain[c].term \in Nat /\ brain[c].generation \in Nat
      BY <1>1 DEF Types, MemberType
    <3>4. AwaitOK(s)'
      <4>1. Appends
        BY <2>6, <2>7 DEF Appends
      <4>2. \A c \in Brain : brain[c].term <= brain'[c].term
        BY <1>2, <3>3
      <4>. QED
        BY <1>1, <1>2, <2>8, <3>1, <4>1, <4>2, AwaitKept DEF CallOK
    <3>5. ~Waiting(s) => /\ brain'[req[s].at].up
                         /\ brain[req[s].at].generation <= brain'[req[s].at].generation
      BY <1>2, <3>1, <3>3 DEF CallOK, AtOK, Waiting
    <3>. QED
      BY <1>1, <2>8, <3>1, <3>2, <3>4, <3>5, CallKept
  <2>15. \A c \in Brain : (MemberOK(c) /\ SeenOK(c))'
    BY <1>2, MembersKept
  <2>. QED
    BY <2>8, <2>13, <2>14, <2>15 DEF ApiInv
<1>. QED
  BY <1>4, <1>5, <1>6 DEF Propose

\* An await that ends well has its own entry committed.
LEMMA AwaitTrueKeeps ==
    ASSUME ApiInv, NEW r \in Req, AwaitTrue(r)
    PROVE  ApiInv'
<1> DEFINE q == req[r]
<1>1. Types /\ CallOK(r) /\ q \in CallType
  BY CallFields DEF ApiInv
<1>2. /\ q.pc = "await" /\ q.waits # 0 /\ q.waits <= brain[q.at].commit /\ brain[q.at].term = q.term
      /\ Finish(r, "ok") /\ UNCHANGED <<brain, log, committed, reports, seen>>
  BY DEF AwaitTrue, durable
<1>3. q.at \in Brain
  BY <1>1, <1>2 DEF CallOK, AtOK
<1>4. /\ q.waits \in Nat /\ brain[q.at].commit \in Nat /\ brain[q.at].commit <= committed
      /\ committed \in Nat
  BY <1>1, <1>3 DEF ApiInv, Types, MemberType, MemberOK, CallType
<1>5. log[q.waits].req = r
  BY <1>1, <1>2, <1>4 DEF CallOK, AwaitOK
<1>6. q.waits \in 1 .. committed
  BY <1>2, <1>4
<1>. QED
  BY <1>2, <1>5, <1>6, FinishStep

\* A wait that ends badly is a refusal.
LEMMA AwaitEndsKeeps ==
    ASSUME ApiInv, NEW r \in Req, AwaitDeposed(r) \/ AwaitTimesOut(r)
    PROVE  ApiInv'
<1>1. /\ req[r].pc = "await" /\ Goto(r, "refused")
      /\ UNCHANGED <<brain, log, committed, answer, reports, seen>>
  BY DEF AwaitDeposed, AwaitTimesOut
<1>2. req[r].at \in Brain /\ brain[req[r].at].up /\ req[r].kind = "set_scale"
  BY <1>1 DEF ApiInv, CallOK, AtOK, Waiting
<1>. QED
  BY <1>1, <1>2, GotoStep

\* The client of a forward gives up, and its request runs on.
LEMMA ForwardTimesOutKeeps ==
    ASSUME ApiInv, NEW r \in Req, ForwardTimesOut(r)
    PROVE  ApiInv'
<1>1. /\ Tell(r, "error") /\ UNCHANGED <<brain, log, committed, req, reports, seen>>
  BY DEF ForwardTimesOut
<1>2. answer \in [Req -> Answers] /\ "error" \in Answers /\ Types
  BY DEF ApiInv, Types, Answers
<1>3. /\ answer' \in [Req -> Answers]
      /\ \A s \in Req : answer'[s] = "ok" => answer[s] = "ok"
  BY <1>1, <1>2 DEF Tell
<1>4. Types'
  BY <1>1, <1>2, <1>3 DEF Types
<1>5. \A s \in Req : CallOK(s)'
  BY <1>1, <1>2, <1>3, <1>4, StillKeeps, UnchangedStill DEF ApiInv
<1>. QED
  BY <1>1, <1>4, <1>5, MembersKept DEF ApiInv

\* All the steps of a request.
LEMMA RequestKeeps ==
    ASSUME ApiInv, NEW r \in Req,
           \/ \E b \in Brain, numbered \in BOOLEAN : Send(r, b, numbered)
           \/ Serve(r) \/ ForwardTimesOut(r)
    PROVE  ApiInv'
BY SendKeeps, UnreachableKeeps, HandleKeeps, RouteKeeps, LocalKeeps, ServePlacementKeeps,
   ProposeKeeps, AwaitTrueKeeps, AwaitEndsKeeps, RefusedKeeps, ForwardTimesOutKeeps DEF Serve

----------------------------------------------------------------------------
(* The steps of a member.                                                  *)

\* A step of member b: what is left to show of it.
LEMMA MemberStep ==
    ASSUME ApiInv, NEW b \in Brain, Types', UNCHANGED <<req, answer>>, committed <= committed',
           \A c \in Brain \ {b} : brain'[c] = brain[c] /\ seen'[c] = seen[c],
           MemberOK(b)', SeenOK(b)',
           brain[b].up => brain'[b].up /\ brain[b].generation <= brain'[b].generation,
           \A r \in Req : LogKept(r) /\ AwaitOK(r)'
    PROVE  ApiInv'
<1>1. Types
  BY DEF ApiInv
<1>2. ASSUME NEW c \in Brain PROVE MemberOK(c)' /\ SeenOK(c)'
  <2>1. CASE c = b
    BY <2>1
  <2>2. CASE c # b
    <3>1. MemberOK(c) /\ SeenOK(c) /\ brain'[c] = brain[c] /\ seen'[c] = seen[c]
      BY <2>2 DEF ApiInv
    <3>2. /\ committed \in Nat /\ committed' \in Nat /\ brain[c].commit \in Nat
          /\ brain[c].applied \in Nat /\ brain[c].map \in Nat
      BY <1>1 DEF Types, MemberType
    <3>3. MemberOK(c)'
      BY <3>1, <3>2 DEF MemberOK
    <3>4. SeenOK(c)'
      BY <3>1 DEF SeenOK
    <3>. QED
      BY <3>3, <3>4
  <2>. QED
    BY <2>1, <2>2
<1>3. ASSUME NEW r \in Req PROVE CallOK(r)'
  <2>1. CallOK(r) /\ req'[r] = req[r] /\ answer'[r] = answer[r]
    BY DEF ApiInv
  <2>2. ASSUME ~Waiting(r)
        PROVE  brain'[req[r].at].up /\ brain[req[r].at].generation <= brain'[req[r].at].generation
    <3>1. req[r].at \in Brain /\ brain[req[r].at].up
      BY <2>1, <2>2 DEF CallOK, AtOK, Waiting
    <3>2. brain[req[r].at].generation \in Nat
      BY <1>1, <3>1 DEF Types, MemberType
    <3>3. req[r].at = b \/ brain'[req[r].at] = brain[req[r].at]
      BY <3>1
    <3>. QED
      BY <3>1, <3>2, <3>3
  <2>. QED
    BY <1>1, <2>1, <2>2, CallKept
<1>. QED
  BY <1>2, <1>3 DEF ApiInv

\* One member is replaced.
LEMMA Replaced ==
    ASSUME Types, NEW b \in Brain, NEW m \in MemberType, brain' = [brain EXCEPT ![b] = m]
    PROVE  /\ brain' \in [Brain -> MemberType] /\ brain'[b] = m
           /\ \A c \in Brain \ {b} : brain'[c] = brain[c]
BY DEF Types

\* A log that stays the same is kept.
LEMMA LogKeptUnchanged ==
    ASSUME Types, UNCHANGED log, committed <= committed'
    PROVE  \A r \in Req : LogKept(r)
BY DEF LogKept, Holds, Types

\* A step of b that changes neither the log nor what b knows to be committed.
LEMMA QuietStep ==
    ASSUME ApiInv, NEW b \in Brain, NEW m \in MemberType, brain' = [brain EXCEPT ![b] = m],
           UNCHANGED <<log, committed, req, answer, reports, seen>>,
           brain[b].up => m.up, brain[b].term <= m.term, m.term <= MaxElections + 1,
           m.commit = brain[b].commit, m.applied <= committed, m.map <= committed,
           m.members = brain[b].members,
           \/ m.generation = brain[b].generation /\ (m.bumps \/ (m.bumps = brain[b].bumps /\ m.map = brain[b].map))
           \/ m.generation = brain[b].generation + 1
    PROVE  ApiInv'
<1>1. Types /\ MemberOK(b) /\ SeenOK(b) /\ m = brain'[b]
  BY Replaced DEF ApiInv
<1>2. /\ brain' \in [Brain -> MemberType] /\ brain'[b] = m
      /\ \A c \in Brain \ {b} : brain'[c] = brain[c]
  BY <1>1, Replaced
<1>3. Types'
  BY <1>1, <1>2 DEF Types
<1>4. /\ brain[b].generation \in Nat /\ brain[b].term \in Nat /\ m.term \in Nat /\ committed \in Nat
      /\ \A c \in Brain : brain[c].term \in Nat
  BY <1>1 DEF Types, MemberType
<1>5. MemberOK(b)'
  BY <1>1, <1>2, <1>4, BoundAssumption DEF MemberOK
<1>6. SeenOK(b)'
  <2> SUFFICES ASSUME seen[b] # None
               PROVE  /\ seen[b].generation <= m.generation
                      /\ seen[b].generation = m.generation /\ ~m.bumps => seen[b].map = m.map
    BY <1>2 DEF SeenOK
  <2>1. seen[b].generation \in Nat /\ seen[b].generation <= brain[b].generation
    BY <1>1 DEF Types, SeenOK
  <2>2. CASE m.generation = brain[b].generation + 1
    BY <1>4, <2>1, <2>2
  <2>3. CASE m.generation = brain[b].generation
    BY <1>1, <1>4, <2>1, <2>3 DEF SeenOK
  <2>. QED
    BY <2>2, <2>3
<1>7. brain[b].generation <= m.generation
  BY <1>4
<1>8. ASSUME NEW r \in Req PROVE AwaitOK(r)'
  <2>1. AtOK(r) /\ AwaitOK(r) /\ req'[r] = req[r] /\ Appends
    BY DEF ApiInv, CallOK, Appends
  <2>2. \A c \in Brain : brain[c].term <= brain'[c].term
    BY <1>2, <1>4
  <2>3. req[r].pc = "await" => brain'[req[r].at].commit = brain[req[r].at].commit
    BY <1>2, <2>1 DEF AtOK
  <2>. QED
    BY <1>1, <1>3, <2>1, <2>2, <2>3, AwaitKept
<1>9. \A r \in Req : LogKept(r)
  BY <1>1, <1>4, LogKeptUnchanged
<1>. QED
  BY <1>2, <1>3, <1>4, <1>5, <1>6, <1>7, <1>8, <1>9, MemberStep

\* A member, field by field.
LEMMA MemberFields ==
    ASSUME ApiInv, NEW b \in Brain
    PROVE  /\ brain[b] \in MemberType /\ brain[b].term \in Nat /\ brain[b].commit \in Nat
           /\ brain[b].applied \in Nat /\ brain[b].map \in Nat /\ brain[b].generation \in Nat
           /\ brain[b].bumps \in BOOLEAN /\ brain[b].members \in Registry
           /\ brain[b].term <= MaxElections + 1 /\ brain[b].commit <= committed
           /\ brain[b].applied <= committed /\ brain[b].map <= committed
           /\ committed \in Nat /\ Len(log) \in Nat /\ committed <= Len(log) /\ MaxElections \in Nat
BY BoundAssumption DEF ApiInv, Types, MemberType, MemberOK

\* Another leadership or another term is no concern of a request under way.
LEMMA ViewsKeep ==
    ASSUME ApiInv, NEW b \in Brain,
           (\E l \in Brain : Learn(b, l)) \/ LoseSight(b) \/ CheckQuorum(b) \/ FailClosed(b)
    PROVE  ApiInv'
<1>1. PICK old : old = brain[b]
  OBVIOUS
<1> DEFINE Same(m) ==
      /\ m.up = old.up /\ m.commit = old.commit /\ m.applied = old.applied /\ m.map = old.map
      /\ m.generation = old.generation /\ m.bumps = old.bumps /\ m.members = old.members
<1>2. /\ old \in MemberType /\ old.term \in Nat /\ old.term <= MaxElections + 1
      /\ old.applied <= committed /\ old.map <= committed /\ brain \in [Brain -> MemberType]
  BY <1>1, MemberFields DEF ApiInv, Types
<1>3. ASSUME NEW m \in MemberType, brain' = [brain EXCEPT ![b] = m], Same(m),
             old.term <= m.term, m.term <= MaxElections + 1,
             UNCHANGED <<log, committed, req, answer, reports, seen>>
      PROVE  ApiInv'
  BY <1>1, <1>2, <1>3, QuietStep
<1>4. ASSUME NEW l \in Brain, Learn(b, l) PROVE ApiInv'
  <2>1. PICK term : term = brain[l].term
    OBVIOUS
  <2>2. term \in Nat /\ term <= MaxElections + 1 /\ old.term <= term
    BY <1>1, <1>4, <2>1, MemberFields DEF Learn
  <2>3. PICK m : m = [old EXCEPT !.term = term, !.leads = FALSE, !.leader = l]
    OBVIOUS
  <2>4. brain' = [brain EXCEPT ![b] = m] /\ UNCHANGED <<log, committed, req, answer, reports, seen>>
    BY <1>1, <1>4, <2>1, <2>3 DEF Learn
  <2>5. m \in MemberType
    BY <1>2, <2>2, <2>3 DEF MemberType
  <2>6. m.term = term /\ Same(m)
    BY <1>2, <2>3 DEF MemberType
  <2>. QED
    BY <1>3, <2>2, <2>4, <2>5, <2>6
<1>5. CASE LoseSight(b)
  <2>1. PICK m : m = [old EXCEPT !.leader = None]
    OBVIOUS
  <2>2. brain' = [brain EXCEPT ![b] = m] /\ UNCHANGED <<log, committed, req, answer, reports, seen>>
    BY <1>1, <1>5, <2>1 DEF LoseSight
  <2>3. m \in MemberType
    BY <1>2, <2>1 DEF MemberType
  <2>4. m.term = old.term /\ Same(m)
    BY <1>2, <2>1 DEF MemberType
  <2>5. old.term <= m.term /\ m.term <= MaxElections + 1
    BY <1>2, <2>4
  <2>. QED
    BY <1>3, <2>2, <2>3, <2>4, <2>5
<1>6. CASE CheckQuorum(b)
  <2>1. PICK m : m = [old EXCEPT !.leads = FALSE, !.leader = None]
    OBVIOUS
  <2>2. brain' = [brain EXCEPT ![b] = m] /\ UNCHANGED <<log, committed, req, answer, reports, seen>>
    BY <1>1, <1>6, <2>1 DEF CheckQuorum
  <2>3. m \in MemberType
    BY <1>2, <2>1 DEF MemberType
  <2>4. m.term = old.term /\ Same(m)
    BY <1>2, <2>1 DEF MemberType
  <2>5. old.term <= m.term /\ m.term <= MaxElections + 1
    BY <1>2, <2>4
  <2>. QED
    BY <1>3, <2>2, <2>3, <2>4, <2>5
<1>7. CASE FailClosed(b)
  <2>1. PICK m : m = [old EXCEPT !.available = FALSE]
    OBVIOUS
  <2>2. brain' = [brain EXCEPT ![b] = m] /\ UNCHANGED <<log, committed, req, answer, reports, seen>>
    BY <1>1, <1>7, <2>1 DEF FailClosed
  <2>3. m \in MemberType
    BY <1>2, <2>1 DEF MemberType
  <2>4. m.term = old.term /\ Same(m)
    BY <1>2, <2>1 DEF MemberType
  <2>5. old.term <= m.term /\ m.term <= MaxElections + 1
    BY <1>2, <2>4
  <2>. QED
    BY <1>3, <2>2, <2>3, <2>4, <2>5
<1>. QED
  BY <1>4, <1>5, <1>6, <1>7

\* While the map has an assignment that the generation does not count, bumps says so.
LEMMA ApplyKeeps ==
    ASSUME ApiInv, NEW b \in Brain, Apply(b)
    PROVE  ApiInv'
<1>1. PICK old : old = brain[b]
  OBVIOUS
<1>2. PICK index : index = old.applied + 1
  OBVIOUS
<1>3. PICK m : m = IF log[index].req = None THEN assign(old, index) ELSE [old EXCEPT !.applied = index]
  OBVIOUS
<1>4. /\ brain' = [brain EXCEPT ![b] = m] /\ old.applied < committed
      /\ UNCHANGED <<log, committed, req, answer, reports, seen>>
  BY <1>1, <1>2, <1>3 DEF Apply
<1>5. /\ old \in MemberType /\ old.applied \in Nat /\ old.applied <= committed
      /\ old.map \in Nat /\ old.map <= committed /\ old.generation \in Nat /\ old.bumps \in BOOLEAN
      /\ old.term \in Nat /\ old.term <= MaxElections + 1 /\ committed \in Nat
  BY <1>1, MemberFields
<1>6. index \in Nat /\ index <= committed
  BY <1>2, <1>4, <1>5
<1> DEFINE Same(n) == /\ n.up = old.up /\ n.commit = old.commit /\ n.term = old.term
                      /\ n.members = old.members
<1>7. ASSUME m \in MemberType, Same(m), m.applied <= committed, m.map <= committed,
             \/ m.generation = old.generation /\ (m.bumps \/ (m.bumps = old.bumps /\ m.map = old.map))
             \/ m.generation = old.generation + 1
      PROVE  ApiInv'
  <2>1. old.term <= m.term /\ m.term <= MaxElections + 1
    BY <1>5, <1>7
  <2>. QED
    BY <1>1, <1>4, <1>7, <2>1, QuietStep
<1>8. CASE log[index].req = None /\ old.bumps
  <2>1. PICK generation : generation = old.generation + 1
    OBVIOUS
  <2>2. m = [old EXCEPT !.generation = generation, !.bumps = FALSE, !.applied = index]
    BY <1>3, <1>8, <2>1 DEF assign
  <2>3. generation \in Nat
    BY <1>5, <2>1
  <2>4. m \in MemberType
    BY <1>5, <1>6, <2>2, <2>3 DEF MemberType
  <2>5. Same(m) /\ m.applied = index /\ m.map = old.map /\ m.generation = generation
    BY <1>5, <2>2 DEF MemberType
  <2>. QED
    BY <1>5, <1>6, <1>7, <2>1, <2>4, <2>5
<1>9. CASE log[index].req = None /\ ~old.bumps
  <2>1. m = [old EXCEPT !.map = index, !.bumps = TRUE]
    BY <1>3, <1>9 DEF assign
  <2>2. m \in MemberType
    BY <1>5, <1>6, <2>1 DEF MemberType
  <2>3. /\ Same(m) /\ m.applied = old.applied /\ m.map = index
        /\ m.generation = old.generation /\ m.bumps
    BY <1>5, <2>1 DEF MemberType
  <2>4. m.generation = old.generation /\ (m.bumps \/ (m.bumps = old.bumps /\ m.map = old.map))
    BY <2>3
  <2>5. m.applied <= committed /\ m.map <= committed
    BY <1>5, <1>6, <2>3
  <2>. QED
    BY <1>7, <2>2, <2>3, <2>4, <2>5
<1>10. CASE log[index].req # None
  <2>1. m = [old EXCEPT !.applied = index]
    BY <1>3, <1>10
  <2>2. m \in MemberType
    BY <1>5, <1>6, <2>1 DEF MemberType
  <2>3. /\ Same(m) /\ m.applied = index /\ m.map = old.map
        /\ m.generation = old.generation /\ m.bumps = old.bumps
    BY <1>5, <2>1 DEF MemberType
  <2>. QED
    BY <1>5, <1>6, <1>7, <2>2, <2>3
<1>. QED
  BY <1>5, <1>8, <1>9, <1>10

\* A snapshot replaces the map and counts as a new generation.
LEMMA RestoreKeeps ==
    ASSUME ApiInv, NEW b \in Brain, NEW base \in 1 .. committed, Restore(b, base)
    PROVE  ApiInv'
<1>1. PICK old : old = brain[b]
  OBVIOUS
<1>2. PICK m : m = restore_from(old, base)
  OBVIOUS
<1>3. /\ brain' = [brain EXCEPT ![b] = m]
      /\ UNCHANGED <<log, committed, req, answer, reports, seen>>
  BY <1>1, <1>2 DEF Restore
<1>4. /\ old \in MemberType /\ old.generation \in Nat /\ committed \in Nat
      /\ old.term \in Nat /\ old.term <= MaxElections + 1
  BY <1>1, MemberFields
<1>5. base \in Nat /\ base <= committed
  BY <1>4
<1>6. PICK map : map = MapAt(base)
  OBVIOUS
<1>7. map \in Nat /\ map <= committed
  BY <1>4, <1>5, <1>6, MapAtType
<1>8. PICK generation : generation = old.generation + 1
  OBVIOUS
<1>9. generation \in Nat
  BY <1>4, <1>8
<1>10. m = [old EXCEPT !.map = map, !.applied = base, !.generation = generation]
  BY <1>2, <1>6, <1>8 DEF restore_from
<1>11. m \in MemberType
  BY <1>4, <1>5, <1>7, <1>9, <1>10 DEF MemberType
<1>12. /\ m.up = old.up /\ m.commit = old.commit /\ m.term = old.term /\ m.members = old.members
       /\ m.applied = base /\ m.map = map /\ m.generation = generation
  BY <1>4, <1>10 DEF MemberType
<1>13. old.term <= m.term /\ m.term <= MaxElections + 1 /\ m.map <= committed
  BY <1>4, <1>7, <1>12
<1>. QED
  BY <1>1, <1>3, <1>5, <1>8, <1>11, <1>12, <1>13, QuietStep

\* The leader of the latest term notes a commit: whoever waits on it for an entry still
\* has that entry there.
LEMMA CommitKeeps ==
    ASSUME ApiInv, NEW b \in Brain, Commit(b)
    PROVE  ApiInv'
<1>1. PICK old : old = brain[b]
  OBVIOUS
<1>2. PICK m : m = [old EXCEPT !.commit = committed + 1]
  OBVIOUS
<1>3. /\ brain' = [brain EXCEPT ![b] = m] /\ committed' = committed + 1 /\ committed < Len(log)
      /\ old.term = LastTerm /\ UNCHANGED <<log, req, answer, reports, seen>>
  BY <1>1, <1>2 DEF Commit, Rules
<1>4. /\ old \in MemberType /\ old.term \in Nat /\ committed \in Nat /\ Len(log) \in Nat
      /\ old.applied \in Nat /\ old.map \in Nat /\ old.generation \in Nat
      /\ old.applied <= committed /\ old.map <= committed
  BY <1>1, MemberFields
<1>5. committed' \in Nat /\ committed <= committed' /\ committed' <= Len(log)
  BY <1>3, <1>4
<1>6. m \in MemberType
  BY <1>2, <1>3, <1>4, <1>5 DEF MemberType
<1>7. /\ m.up = old.up /\ m.commit = committed' /\ m.term = old.term /\ m.members = old.members
      /\ m.applied = old.applied /\ m.map = old.map
      /\ m.generation = old.generation /\ m.bumps = old.bumps
  BY <1>2, <1>3, <1>4 DEF MemberType
<1>8. Types /\ MemberOK(b) /\ SeenOK(b)
  BY DEF ApiInv
<1>9. /\ brain' \in [Brain -> MemberType] /\ brain'[b] = m
      /\ \A c \in Brain \ {b} : brain'[c] = brain[c]
  BY <1>3, <1>6, <1>8, Replaced
<1>10. Types'
  BY <1>3, <1>5, <1>8, <1>9 DEF Types
<1>11. MemberOK(b)' /\ SeenOK(b)'
  <2>1. m.applied <= committed' /\ m.map <= committed' /\ m.commit <= committed'
    BY <1>4, <1>5, <1>7
  <2>2. MemberOK(b)'
    BY <1>1, <1>7, <1>8, <1>9, <2>1 DEF MemberOK
  <2>. QED
    BY <1>1, <1>3, <1>7, <1>8, <1>9, <2>2 DEF SeenOK
<1>12. ASSUME NEW r \in Req PROVE AwaitOK(r)'
  <2>1. AtOK(r) /\ AwaitOK(r) /\ req'[r] = req[r] /\ log' = log
    BY <1>3 DEF ApiInv, CallOK
  <2>2. \A c \in Brain : brain[c].term \in Nat /\ brain[c].term <= LastTerm /\ brain'[c].term = brain[c].term
    BY <1>1, <1>3, <1>7, <1>8, <1>9, LastTermIs, MemberFields DEF ApiInv
  <2>3. LastTerm \in Nat
    BY <1>3, <1>4
  <2> SUFFICES ASSUME req[r].pc = "await", req[r].waits # 0
               PROVE  /\ req[r].term <= brain'[req[r].at].term
                      /\ brain'[req[r].at].term = req[r].term =>
                            \/ /\ brain'[req[r].at].commit < req[r].waits
                               /\ \E c \in Brain : brain'[c].term > req[r].term
                            \/ req[r].waits <= Len(log) /\ log[req[r].waits].req = r
    BY <2>1 DEF AwaitOK
  <2>4. req[r].at \in Brain
    BY <2>1 DEF AtOK
  <2>5. CASE req[r].at = b
    <3>1. old.term = req[r].term => ~\E c \in Brain : brain[c].term > req[r].term
      BY <1>3, <2>2, <2>3
    <3>. QED
      BY <1>1, <2>1, <2>2, <2>5, <3>1 DEF AwaitOK
  <2>6. CASE req[r].at # b
    BY <1>9, <2>1, <2>2, <2>4, <2>6 DEF AwaitOK
  <2>. QED
    BY <2>5, <2>6
<1>13. \A r \in Req : LogKept(r)
  BY <1>3, <1>5, <1>8, LogKeptUnchanged
<1>14. old.up => m.up /\ old.generation <= m.generation
  BY <1>4, <1>7
<1>. QED
  BY <1>1, <1>3, <1>5, <1>9, <1>10, <1>11, <1>12, <1>13, <1>14, MemberStep

\* An assignment is no request's entry.
LEMMA ReconcileKeeps ==
    ASSUME ApiInv, NEW b \in Brain, Reconcile(b)
    PROVE  ApiInv'
<1> DEFINE e == [term |-> brain[b].term, req |-> None]
<1>1. log' = Append(log, e) /\ UNCHANGED <<brain, committed, req, answer, reports, seen>>
  BY DEF Reconcile
<1>2. Types /\ e \in Entry /\ e.req = None
  BY MemberFields DEF ApiInv, Entry
<1> HIDE DEF e
<1>3. Appends /\ committed \in Nat /\ committed <= Len(log) /\ Len(log) \in Nat
  BY <1>1, <1>2, MemberFields DEF Appends
<1>4. Types'
  <2>1. log' \in Seq(Entry) /\ Len(log) <= Len(log') /\ Len(log') \in Nat
    BY <1>2, <1>3, AppendLemma
  <2>2. committed <= Len(log')
    BY <1>3, <2>1
  <2>. QED
    BY <1>1, <1>2, <2>1, <2>2 DEF Types
<1>5. ASSUME NEW r \in Req PROVE CallOK(r)'
  <2>1. CallOK(r) /\ req'[r] = req[r] /\ answer'[r] = answer[r]
    BY <1>1 DEF ApiInv
  <2>2. LogKept(r)
    <3>1. e.req # r /\ committed <= committed'
      BY <1>1, <1>2, <1>3, BrainAssumption
    <3>. QED
      BY <1>1, <1>2, <3>1, AppendHolds
  <2>3. \A c \in Brain : brain[c].term <= brain'[c].term /\ brain[c].generation <= brain'[c].generation
    BY <1>1, MemberFields
  <2>4. AwaitOK(r)'
    BY <1>1, <1>2, <1>3, <1>4, <2>1, <2>3, AwaitKept DEF CallOK
  <2>5. ~Waiting(r) => /\ brain'[req[r].at].up
                       /\ brain[req[r].at].generation <= brain'[req[r].at].generation
    BY <1>1, <2>1, <2>3 DEF CallOK, AtOK, Waiting
  <2>. QED
    BY <1>2, <1>4, <2>1, <2>2, <2>4, <2>5, CallKept
<1>. QED
  BY <1>1, <1>4, <1>5, MembersKept DEF ApiInv

\* An election may cut off what is not committed; the entries it cuts off were proposed
\* in terms that are over for good.
LEMMA ElectKeeps ==
    ASSUME ApiInv, NEW b \in Brain, NEW kept \in committed .. Len(log), Elect(b, kept)
    PROVE  ApiInv'
<1>1. PICK old : old = brain[b]
  OBVIOUS
<1>2. PICK term : term = LastTerm + 1
  OBVIOUS
<1>3. PICK m : m = [old EXCEPT !.term = term, !.leads = TRUE, !.leader = b]
  OBVIOUS
<1>4. /\ brain' = [brain EXCEPT ![b] = m] /\ LastTerm < MaxElections + 1
      /\ log' = SubSeq(log, 1, kept) /\ UNCHANGED <<committed, req, answer, reports, seen>>
  BY <1>1, <1>2, <1>3 DEF Elect
<1>5. Types /\ MemberOK(b) /\ SeenOK(b)
  BY DEF ApiInv
<1>6. /\ old \in MemberType /\ committed \in Nat /\ Len(log) \in Nat /\ committed <= Len(log)
      /\ MaxElections \in Nat /\ old.generation \in Nat
  BY <1>1, MemberFields
<1>7. LastTerm \in Nat /\ \A c \in Brain : brain[c].term \in Nat /\ brain[c].term <= LastTerm
  BY <1>5, LastTermIs, MemberFields DEF ApiInv
<1>8. term \in 1 .. MaxElections + 1 /\ term \in Nat /\ \A c \in Brain : brain[c].term < term
  BY <1>2, <1>4, <1>6, <1>7
<1>9. m \in MemberType
  BY <1>3, <1>6, <1>8 DEF MemberType
<1>10. /\ m.up = old.up /\ m.term = term /\ m.commit = old.commit /\ m.members = old.members
       /\ m.applied = old.applied /\ m.map = old.map
       /\ m.generation = old.generation /\ m.bumps = old.bumps
  BY <1>3, <1>6 DEF MemberType
<1>11. /\ brain' \in [Brain -> MemberType] /\ brain'[b] = m
       /\ \A c \in Brain \ {b} : brain'[c] = brain[c]
  BY <1>4, <1>5, <1>9, Replaced
<1>12. /\ kept \in Nat /\ committed <= kept /\ kept <= Len(log)
       /\ log' \in Seq(Entry) /\ Len(log') = kept /\ \A i \in 1 .. kept : log'[i] = log[i]
  <2>1. kept \in Nat /\ committed <= kept /\ kept <= Len(log) /\ log \in Seq(Entry)
    BY <1>5, <1>6 DEF Types
  <2>2. \A i \in 1 .. kept : log[i] \in Entry
    BY <1>6, <2>1
  <2>. QED
    BY <1>4, <1>6, <2>1, <2>2, SubSeqProperties
<1>13. Types'
  BY <1>4, <1>5, <1>11, <1>12 DEF Types
<1>14. MemberOK(b)' /\ SeenOK(b)'
  <2>1. MemberOK(b)'
    BY <1>1, <1>4, <1>5, <1>8, <1>10, <1>11 DEF MemberOK
  <2>. QED
    BY <1>1, <1>4, <1>5, <1>10, <1>11, <2>1 DEF SeenOK
<1>15. ASSUME NEW r \in Req PROVE LogKept(r)
  <2>1. \A i \in 1 .. committed : log'[i] = log[i]
    BY <1>6, <1>12
  <2>2. Holds(r)' \subseteq Holds(r)
    <3> SUFFICES ASSUME NEW i \in 1 .. Len(log'), log'[i].req = r
                 PROVE  i \in 1 .. Len(log) /\ log[i].req = r
      BY DEF Holds
    <3>. QED
      BY <1>6, <1>12
  <2>. QED
    BY <1>4, <1>6, <2>1, <2>2 DEF LogKept
<1>16. ASSUME NEW r \in Req PROVE AwaitOK(r)'
  <2>1. AtOK(r) /\ AwaitOK(r) /\ req'[r] = req[r]
    BY <1>4 DEF ApiInv, CallOK
  <2>2. PICK c : c = req[r].at
    OBVIOUS
  <2>3. req[r].term \in Nat /\ req[r].waits \in Nat
    BY <1>5 DEF Types, CallType
  <2> SUFFICES ASSUME req[r].pc = "await", req[r].waits # 0
               PROVE  /\ req[r].term <= brain'[c].term
                      /\ brain'[c].term = req[r].term =>
                            \/ brain'[c].commit < req[r].waits /\ \E d \in Brain : brain'[d].term > req[r].term
                            \/ req[r].waits <= Len(log') /\ log'[req[r].waits].req = r
    BY <2>1, <2>2 DEF AwaitOK
  <2>4. c \in Brain /\ req[r].term <= brain[c].term
    BY <2>1, <2>2 DEF AtOK, AwaitOK
  <2>5. brain[c].term \in Nat /\ brain[c].term < term /\ brain[c].commit \in Nat /\ brain[c].commit <= committed
    BY <1>7, <1>8, <2>4, MemberFields
  <2>6. req[r].term < term /\ brain'[b].term = term
    BY <1>8, <1>10, <1>11, <2>3, <2>4, <2>5
  <2>7. CASE c = b
    BY <1>8, <2>3, <2>6, <2>7
  <2>8. CASE c # b
    <3>1. brain'[c] = brain[c]
      BY <1>11, <2>4, <2>8
    <3>2. CASE req[r].waits <= kept
      <4>1. req[r].waits \in 1 .. kept
        BY <1>12, <2>3, <3>2
      <4>2. log'[req[r].waits] = log[req[r].waits]
        BY <1>12, <4>1
      <4>3. brain[c].term = req[r].term =>
               \/ brain[c].commit < req[r].waits
               \/ log[req[r].waits].req = r
        BY <2>1, <2>2 DEF AwaitOK
      <4>4. \E d \in Brain : brain'[d].term > req[r].term
        BY <1>8, <2>3, <2>6
      <4>. QED
        BY <1>12, <2>4, <3>1, <3>2, <4>2, <4>3, <4>4
    <3>3. CASE ~(req[r].waits <= kept)
      <4>1. brain[c].commit < req[r].waits
        BY <1>6, <1>12, <2>3, <2>5, <3>3
      <4>2. brain'[b].term > req[r].term
        BY <1>8, <2>3, <2>6
      <4>. QED
        BY <2>4, <3>1, <4>1, <4>2
    <3>. QED
      BY <3>2, <3>3
  <2>. QED
    BY <2>7, <2>8
<1>17. old.up => m.up /\ old.generation <= m.generation
  BY <1>6, <1>10
<1>. QED
  BY <1>1, <1>4, <1>6, <1>11, <1>13, <1>14, <1>15, <1>16, <1>17, MemberStep

\* A crash ends the requests that the member was handling, without an ok.
LEMMA CrashKeeps ==
    ASSUME ApiInv, NEW b \in Brain, Crash(b)
    PROVE  ApiInv'
<1> DEFINE dies == {r \in Req : req[r].at = b /\ req[r].pc # "arrived"}
<1>1. PICK old : old = brain[b]
  OBVIOUS
<1>2. PICK m : m = [old EXCEPT !.up = FALSE, !.available = FALSE, !.leads = FALSE]
  OBVIOUS
<1>3. /\ brain' = [brain EXCEPT ![b] = m] /\ UNCHANGED <<log, committed, reports, seen>>
      /\ req' = [r \in Req |-> IF r \in dies THEN [Unsent(req[r].kind) EXCEPT !.pc = "done"] ELSE req[r]]
  BY <1>1, <1>2 DEF Crash
<1>4. answer' = [r \in Req |-> IF answer[r] = None /\ (r \in dies \/ (req[r].origin = b /\ req[r].forwarded))
                               THEN "error" ELSE answer[r]]
  BY DEF Crash
<1> HIDE DEF dies
<1>5. Types /\ MemberOK(b) /\ SeenOK(b) /\ old \in MemberType
  BY <1>1, MemberFields DEF ApiInv
<1>6. m \in MemberType
  BY <1>2, <1>5 DEF MemberType
<1>7. /\ m.commit = old.commit /\ m.term = old.term /\ m.members = old.members
      /\ m.applied = old.applied /\ m.map = old.map
      /\ m.generation = old.generation /\ m.bumps = old.bumps
  BY <1>2, <1>5 DEF MemberType
<1>8. /\ brain' \in [Brain -> MemberType] /\ brain'[b] = m
      /\ \A c \in Brain \ {b} : brain'[c] = brain[c]
  BY <1>3, <1>5, <1>6, Replaced
<1>9. /\ answer' \in [Req -> Answers]
      /\ \A r \in Req : answer'[r] = "ok" => answer[r] = "ok"
  BY <1>4, <1>5 DEF Types, Answers
<1>10. req' \in [Req -> CallType]
  <2>1. ASSUME NEW r \in Req
        PROVE  req[r] \in CallType /\ [Unsent(req[r].kind) EXCEPT !.pc = "done"] \in CallType
    BY <1>5, CallFields, UnsentType
  <2>. QED
    BY <1>3, <2>1
<1>11. Types'
  BY <1>3, <1>5, <1>8, <1>9, <1>10 DEF Types
<1>12. ASSUME NEW c \in Brain PROVE MemberOK(c)' /\ SeenOK(c)'
  <2>1. MemberOK(c) /\ SeenOK(c)
    BY DEF ApiInv
  <2>2. CASE c = b
    BY <1>1, <1>3, <1>7, <1>8, <2>1, <2>2 DEF MemberOK, SeenOK
  <2>3. CASE c # b
    BY <1>3, <1>8, <2>1, <2>3 DEF MemberOK, SeenOK
  <2>. QED
    BY <2>2, <2>3
<1>13. ASSUME NEW r \in Req PROVE CallOK(r)'
  <2>1. CallOK(r) /\ (answer'[r] = "ok" => answer[r] = "ok") /\ UNCHANGED <<log, committed>>
    BY <1>3, <1>9 DEF ApiInv
  <2>2. CASE r \in dies
    <3>1. req'[r] = [Unsent(req[r].kind) EXCEPT !.pc = "done"]
      BY <1>3, <2>2
    <3>. QED
      BY <1>5, <1>11, <2>1, <3>1, DoneOK
  <2>3. CASE r \notin dies
    <3>1. req'[r] = req[r]
      BY <1>3, <2>3
    <3>2. ~Waiting(r) => req[r].at \in Brain \ {b} /\ brain[req[r].at].up
      BY <2>1, <2>3 DEF CallOK, AtOK, Waiting, dies
    <3>3. \A c \in Brain : /\ brain[c].term <= brain'[c].term
                           /\ brain[c].generation <= brain'[c].generation
                           /\ brain'[c].commit = brain[c].commit
      BY SMTT(30), <1>1, <1>7, <1>8, MemberFields
    <3>4. AwaitOK(r)'
      <4>1. req[r].pc = "await" => brain'[req[r].at].commit = brain[req[r].at].commit
        BY <3>2, <3>3 DEF Waiting
      <4>. QED
        BY <1>5, <1>11, <2>1, <3>1, <3>3, <4>1, AwaitKept DEF CallOK, Appends
    <3>5. LogKept(r)
      BY <1>5, <2>1, LogKeptUnchanged DEF Types
    <3>6. ~Waiting(r) => /\ brain'[req[r].at].up
                         /\ brain[req[r].at].generation <= brain'[req[r].at].generation
      BY <1>8, <3>2, <3>3
    <3>. QED
      BY <1>5, <1>11, <2>1, <3>1, <3>4, <3>5, <3>6, CallKept
  <2>. QED
    BY <2>2, <2>3
<1>. QED
  BY <1>11, <1>12, <1>13 DEF ApiInv

\* A member starts with an empty registry.
LEMMA EmptyRegistry == <<>> \in Registry
<1>1. <<>> \in [{} -> Info]
  OBVIOUS
<1>. QED
  BY <1>1 DEF Registry

\* A process that starts.
LEMMA NewBrainType ==
    ASSUME NEW term \in Nat, NEW base \in Nat, NEW map \in Nat
    PROVE  /\ NewBrain(term, base, map) \in MemberType
           /\ NewBrain(term, base, map).term = term /\ NewBrain(term, base, map).commit = base
           /\ NewBrain(term, base, map).applied = base /\ NewBrain(term, base, map).map = map
           /\ NewBrain(term, base, map).members = <<>>
<1>1. (IF base = 0 THEN 0 ELSE 1) \in Nat
  OBVIOUS
<1>. QED
  BY <1>1, EmptyRegistry DEF NewBrain, MemberType

\* A member that restarts has no request to answer for, and its pollers start over.
LEMMA RestartKeeps ==
    ASSUME ApiInv, NEW b \in Brain, NEW base \in 0 .. brain[b].applied, Restart(b, base)
    PROVE  ApiInv'
<1>1. PICK term : term = brain[b].term
  OBVIOUS
<1>2. PICK map : map = MapAt(base)
  OBVIOUS
<1>3. PICK m : m = NewBrain(term, base, map)
  OBVIOUS
<1>4. /\ ~brain[b].up /\ brain' = [brain EXCEPT ![b] = m] /\ seen' = [seen EXCEPT ![b] = None]
      /\ UNCHANGED <<log, committed, req, answer, reports>>
  BY <1>1, <1>2, <1>3 DEF Restart
<1>5. Types /\ MemberOK(b) /\ committed \in Nat /\ term \in Nat /\ term \in 1 .. MaxElections + 1
  BY <1>1, MemberFields DEF ApiInv, MemberOK
<1>6. base \in Nat /\ base <= committed
  BY MemberFields
<1>7. map \in Nat /\ map <= committed
  BY <1>2, <1>5, <1>6, MapAtType
<1>8. /\ m \in MemberType /\ m.term = term /\ m.commit = base /\ m.applied = base /\ m.map = map
      /\ m.members = <<>>
  BY <1>3, <1>5, <1>6, <1>7, NewBrainType
<1>9. /\ brain' \in [Brain -> MemberType] /\ brain'[b] = m
      /\ \A c \in Brain \ {b} : brain'[c] = brain[c]
  BY <1>4, <1>5, <1>8, Replaced
<1>10. /\ seen' \in [Brain -> {None} \cup [generation : Nat, map : Nat]] /\ seen'[b] = None
       /\ \A c \in Brain \ {b} : seen'[c] = seen[c]
  BY <1>4, <1>5 DEF Types
<1>11. Types'
  BY <1>4, <1>5, <1>9, <1>10 DEF Types
<1>12. MemberOK(b)' /\ SeenOK(b)'
  BY <1>4, <1>5, <1>6, <1>7, <1>8, <1>9, <1>10 DEF MemberOK, SeenOK
<1>13. ASSUME NEW r \in Req PROVE LogKept(r) /\ AwaitOK(r)'
  <2>1. AtOK(r) /\ AwaitOK(r) /\ req'[r] = req[r]
    BY <1>4 DEF ApiInv, CallOK
  <2>2. LogKept(r)
    BY <1>4, <1>5, LogKeptUnchanged
  <2>3. \A c \in Brain : brain[c].term <= brain'[c].term
    BY <1>1, <1>5, <1>8, <1>9, MemberFields
  <2>4. req[r].pc = "await" => brain'[req[r].at].commit = brain[req[r].at].commit
    BY <1>4, <1>9, <2>1 DEF AtOK, Waiting
  <2>5. AwaitOK(r)'
    BY <1>4, <1>5, <1>11, <2>1, <2>3, <2>4, AwaitKept DEF Appends
  <2>. QED
    BY <2>2, <2>5
<1>. QED
  BY <1>4, <1>5, <1>9, <1>10, <1>11, <1>12, <1>13, MemberStep

----------------------------------------------------------------------------
(* The invariant, and what it says.                                        *)

\* The invariant holds at first.
LEMMA ApiInit == Init => ApiInv
<1> SUFFICES ASSUME Init PROVE ApiInv
  OBVIOUS
<1>1. PICK first \in Brain : brain = [b \in Brain |-> [NewBrain(1, 0, 0) EXCEPT !.leads = (b = first),
                                                                               !.leader = first]]
  BY BrainAssumption DEF Init
<1>2. /\ log = <<>> /\ committed = 0 /\ reports = 0 /\ seen = [b \in Brain |-> None]
      /\ answer = [r \in Req |-> None]
  BY DEF Init
<1>3. PICK w \in Workloads : req = [r \in Req |-> Unsent(w[r])]
  BY DEF Init
<1>4. ASSUME NEW b \in Brain
      PROVE  /\ brain[b] \in MemberType /\ brain[b].term = 1 /\ brain[b].commit = 0
             /\ brain[b].applied = 0 /\ brain[b].map = 0 /\ brain[b].members = <<>>
  <2>1. PICK new : new = NewBrain(1, 0, 0)
    OBVIOUS
  <2>2. brain[b] = [new EXCEPT !.leads = (b = first), !.leader = first]
    BY <1>1, <2>1
  <2>3. /\ new \in MemberType /\ new.term = 1 /\ new.commit = 0 /\ new.applied = 0
        /\ new.map = 0 /\ new.members = <<>>
    BY <2>1, NewBrainType
  <2>4. brain[b] \in MemberType
    BY <2>2, <2>3 DEF MemberType
  <2>. QED
    BY <2>2, <2>3, <2>4 DEF MemberType
<1>5. ASSUME NEW r \in Req
      PROVE  /\ req[r] \in CallType /\ req[r].pc = "unsent" /\ req[r].report = EmptyReport
             /\ req[r].forwarded = FALSE /\ req[r].waits = 0
  <2>1. w[r] \in Kinds \cup {None}
    BY WorkloadsAssumption
  <2>2. req[r] = Unsent(w[r])
    BY <1>3
  <2>. QED
    BY <2>1, <2>2, UnsentType
<1>6. Types
  <2>1. brain \in [Brain -> MemberType]
    BY <1>1, <1>4
  <2>2. req \in [Req -> CallType]
    BY <1>3, <1>5
  <2>3. log \in Seq(Entry) /\ Len(log) = 0
    BY <1>2
  <2>4. answer \in [Req -> Answers]
    BY <1>2 DEF Answers
  <2>. QED
    BY <1>2, <2>1, <2>2, <2>3, <2>4 DEF Types
<1>7. ASSUME NEW b \in Brain PROVE MemberOK(b) /\ SeenOK(b)
  <2>1. 1 \in 1 .. MaxElections + 1
    BY BoundAssumption
  <2>2. DOMAIN brain[b].members = {}
    BY <1>4
  <2>3. seen[b] = None
    BY <1>2
  <2>. QED
    BY <1>2, <1>4, <2>1, <2>2, <2>3 DEF MemberOK, SeenOK
<1>8. ASSUME NEW r \in Req PROVE CallOK(r)
  <2>1. AtOK(r) /\ ReadOK(r) /\ AwaitOK(r)
    BY <1>5 DEF AtOK, ReadOK, AwaitOK, Waiting
  <2>2. ReportOK(r)
    BY <1>5, EmptyReportType DEF ReportOK, Named
  <2>3. answer[r] # "ok"
    BY <1>2, AnswerAssumption
  <2>4. Holds(r) = {}
    BY <1>2 DEF Holds
  <2>5. Cardinality(Holds(r)) = 0
    BY <2>4, FS_EmptySet
  <2>6. Budget(r) = 0
    <3>1. Waiting(r) /\ ~req[r].forwarded /\ req[r].pc # "done"
      BY <1>5 DEF Waiting
    <3>. QED
      BY <3>1 DEF Budget
  <2>. QED
    BY <2>1, <2>2, <2>3, <2>5, <2>6 DEF CallOK, AnswerOK, CountOK
<1>. QED
  BY <1>6, <1>7, <1>8 DEF ApiInv

\* Every step keeps it.
LEMMA ApiNext == ApiInv /\ [Next]_vars => ApiInv'
<1> SUFFICES ASSUME ApiInv, [Next]_vars PROVE ApiInv'
  OBVIOUS
<1>1. CASE UNCHANGED vars
  <2>1. Types'
    BY <1>1 DEF ApiInv, Types, vars
  <2>2. \A b \in Brain : (MemberOK(b) /\ SeenOK(b))'
    BY <1>1, MembersKept DEF vars
  <2>3. \A r \in Req : CallOK(r)'
    BY <1>1, <2>1, StillKeeps, UnchangedStill DEF ApiInv, vars
  <2>. QED
    BY <2>1, <2>2, <2>3 DEF ApiInv
<1>2. CASE Next
  <2>1. ASSUME NEW r \in Req,
               \/ \E b \in Brain, numbered \in BOOLEAN : Send(r, b, numbered)
               \/ Serve(r) \/ ForwardTimesOut(r)
        PROVE  ApiInv'
    BY <2>1, RequestKeeps
  <2>2. ASSUME NEW b \in Brain,
               \/ \E kept \in committed .. Len(log) : Elect(b, kept)
               \/ \E l \in Brain : Learn(b, l)
               \/ LoseSight(b) \/ Commit(b) \/ Reconcile(b) \/ Apply(b)
               \/ \E base \in 1 .. committed : Restore(b, base)
               \/ CheckQuorum(b) \/ FailClosed(b) \/ Crash(b)
               \/ \E base \in 0 .. brain[b].applied : Restart(b, base)
        PROVE  ApiInv'
    BY <2>2, ElectKeeps, ViewsKeep, CommitKeeps, ReconcileKeeps, ApplyKeeps, RestoreKeeps,
       CrashKeeps, RestartKeeps
  <2>. QED
    BY <1>2, <2>1, <2>2 DEF Next
<1>. QED
  BY <1>1, <1>2

\* The invariant holds of every run.
LEMMA ApiAlways == Spec => []ApiInv
BY ApiInit, ApiNext, PTL DEF Spec

\* No map, no commit index and no applied index is ahead of the committed log, and no
\* registry names a shard that does not exist, whatever the reports claimed
\* (sanitize_report, api.rs).
THEOREM ApiTypes == Spec => []TypeOK
<1>1. ApiInv => TypeOK
  <2> SUFFICES ASSUME ApiInv PROVE TypeOK
    OBVIOUS
  <2>1. ASSUME NEW b \in Brain
        PROVE  /\ brain[b].applied <= committed /\ brain[b].map <= committed
               /\ brain[b].leader \in Brain \cup {None} /\ DOMAIN brain[b].members \subseteq {Node}
               /\ \A n \in DOMAIN brain[b].members : brain[b].members[n].hosted_shards \subseteq Shards
    <3>1. brain[b] \in MemberType /\ brain[b].members \in Registry /\ MemberOK(b)
      BY MemberFields DEF ApiInv
    <3>2. DOMAIN brain[b].members \subseteq {Node}
      BY <3>1, RegistryFields
    <3>. QED
      BY <3>1, <3>2 DEF MemberOK, MemberType, Named
  <2>2. answer \in [Req -> {"ok", "error", None}] /\ committed <= Len(log)
    BY DEF ApiInv, Types, Answers
  <2>3. \A r \in Req : req[r].kind \in Kinds \cup {None} /\ req[r].at \in Brain \cup {None}
    BY CallFields DEF ApiInv
  <2>. QED
    BY <2>1, <2>2, <2>3 DEF TypeOK
<1>. QED
  BY <1>1, ApiAlways, PTL

\* A scale plan that a client was told is accepted is in the committed log, whoever
\* answered, and however leaders, waits, forwards and members failed meanwhile
\* (set_scale, await_commit).
THEOREM AckedPlansLast == Spec => []AckedPlanCommitted
<1>1. ApiInv => AckedPlanCommitted
  BY DEF ApiInv, CallOK, AnswerOK, AckedPlanCommitted
<1>. QED
  BY <1>1, ApiAlways, PTL

\* A scale plan is proposed twice at most: the marker of the hop is what bounds it,
\* however often waits end badly and leaders change (set_scale, forward).
THEOREM PlansProposedTwice == Spec => []ProposedTwiceAtMost
<1>1. ApiInv => ProposedTwiceAtMost
  <2> SUFFICES ASSUME ApiInv, NEW r \in Req PROVE Cardinality(Holds(r)) <= 2
    BY DEF ProposedTwiceAtMost, Holds
  <2>1. Types /\ CountOK(r)
    BY DEF ApiInv, CallOK
  <2>2. Cardinality(Holds(r)) \in Nat
    BY <2>1, HoldsFinite
  <2>3. Budget(r) \in Nat /\ Budget(r) <= 2
    BY DEF Budget
  <2>. QED
    BY <2>1, <2>2, <2>3 DEF CountOK
<1>. QED
  BY <1>1, ApiAlways, PTL

\* A poller that has the member's current generation has its current map: the map is
\* written before the generation and read after it (Placement::assign, placement()).
THEOREM GenerationsAreTruthful == Spec => []CurrentGenerationCurrentMap
<1>1. ApiInv => CurrentGenerationCurrentMap
  BY DEF ApiInv, SeenOK, CurrentGenerationCurrentMap
<1>. QED
  BY <1>1, ApiAlways, PTL

\* Heartbeats that overtake each other leave the newest report, or none, on whichever
\* member's registry they reach (heartbeat, membership.rs).
THEOREM NewestReportsKept == Spec => []NewestReportKept
<1>1. ApiInv => NewestReportKept
  <2> SUFFICES ASSUME ApiInv, NEW b \in Brain, Node \in DOMAIN brain[b].members
               PROVE  brain[b].members[Node].hosted_shards
                        \in {{}, ReportOf(brain[b].members[Node].last_seq).hosted_shards \cap Shards}
    BY DEF NewestReportKept
  <2>1. brain[b].members[Node].hosted_shards \in Named(brain[b].members[Node].last_seq)
    BY DEF ApiInv, MemberOK
  <2>2. \A seq : ReportOf(seq).hosted_shards = {0, seq}
    BY DEF ReportOf, Report
  <2>. QED
    BY <2>1, <2>2 DEF Named
<1>. QED
  BY <1>1, ApiAlways, PTL
=============================================================================
