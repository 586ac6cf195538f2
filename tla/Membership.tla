----------------------------- MODULE Membership -----------------------------
(***************************************************************************)
(* The registry of data-plane nodes of one brain member (membership.rs):   *)
(* a function from the nodes it has heard of to what it knows of them.     *)
(* Times are left out: how long a node has been silent, by the detector's  *)
(* two thresholds, is an argument of the sweep, and so is what the cache   *)
(* of the Kubernetes oracle (oracle.rs) says of its pod.                   *)
(***************************************************************************)
EXTENDS Naturals

Health == {"Healthy", "Suspect", "Dead", "Draining"}

\* A report as its sender built it.  seq = 0: it does not number its reports;
\* located: it says where the node is (failure domain, region, provider).
Report(seq, hosted, leading, located) ==
    [seq |-> seq, hosted_shards |-> hosted, leading_shards |-> leading, located |-> located]

\* A heartbeat posted without a body is the default report.
EmptyReport == Report(0, {}, {}, FALSE)

\* Mutant: a report is taken at its word.
sanitize_report_none(report, shards) == report

\* sanitize_report(): shards that exist, and leadership only of shards hosted.
sanitize_report(report, shards) ==
    [report EXCEPT !.hosted_shards = @ \cap shards,
                   !.leading_shards = @ \cap report.hosted_shards \cap shards]

with(members, n, info) == [m \in DOMAIN members \cup {n} |-> IF m = n THEN info ELSE members[m]]

without(members, n) == [m \in DOMAIN members \ {n} |-> members[m]]

\* Mutant: reports are applied in the order they arrive.
stale_never(members, n, report) == FALSE

\* A numbered report that is not newer than the newest one applied.
stale(members, n, report) ==
    n \in DOMAIN members /\ report.seq # 0 /\ report.seq <= members[n].last_seq

\* heartbeat(): register the node, or refresh it; Draining stays Draining, and where
\* the node is stays known when a later report leaves it out.
heartbeat(members, n, report) ==
    LET known == n \in DOMAIN members
        last_seq == IF known THEN members[n].last_seq ELSE 0
    IN  IF stale(members, n, report) THEN members
        ELSE with(members, n,
               [health |-> IF known /\ members[n].health = "Draining" THEN "Draining" ELSE "Healthy",
                hosted_shards |-> report.hosted_shards, leading_shards |-> report.leading_shards,
                last_seq |-> IF report.seq > last_seq THEN report.seq ELSE last_seq,
                located |-> report.located \/ (known /\ members[n].located)])

drain(members, n) ==
    IF n \in DOMAIN members THEN [members EXCEPT ![n].health = "Draining"] ELSE members

forget(members, n) == without(members, n)

----------------------------------------------------------------------------
(* The oracle: a cache of the pods the Kubernetes API listed last.         *)

\* One pod of the list, by what pod_liveness() looks at.
Pod(terminating, phase, crash_looping) ==
    [terminating |-> terminating, phase |-> phase, crash_looping |-> crash_looping]

\* Positive evidence only.
pod_liveness(pod) ==
    CASE pod.terminating \/ pod.phase = "Failed" \/ pod.crash_looping -> "Gone"
      [] ~pod.terminating /\ ~pod.crash_looping /\ pod.phase = "Running" -> "Running"
      [] OTHER -> "Unknown"

\* A cache older than STALE_AFTER says nothing, nor does one that lacks the pod.
liveness(cache, n) ==
    IF cache.fresh /\ n \in DOMAIN cache.pods THEN pod_liveness(cache.pods[n]) ELSE "Unknown"

\* The timeout verdict, tempered by the oracle's: a gone pod is dead at once, a
\* running one is not declared dead for its silence.
verdict(by_timeout, pod) ==
    CASE pod = "Gone" -> "Dead"
      [] pod = "Running" /\ by_timeout = "Dead" -> "Suspect"
      [] OTHER -> by_timeout

\* sweep(): every node but the draining ones, by its silence and its pod.
sweep(members, by_timeout, cache) ==
    [n \in DOMAIN members |->
        IF members[n].health = "Draining" THEN members[n]
        ELSE [members[n] EXCEPT !.health = verdict(by_timeout[n], liveness(cache, n))]]
=============================================================================
