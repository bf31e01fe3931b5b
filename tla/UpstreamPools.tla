--------------------------- MODULE UpstreamPools ---------------------------
(***************************************************************************)
(* How a gateway picks the backend of a request: the proxy handler         *)
(* (src/internal/gateway/handler/proxy_handler.go), the load balancing     *)
(* strategies, and the health checker, which probes on its own while the   *)
(* loader exchanges the pools and reconciles the checker's watch list one  *)
(* URL at a time.  One upstream; GatewayConfig says how its pool comes     *)
(* from the tables.                                                        *)
(***************************************************************************)
EXTENDS Naturals, Sequences, FiniteSets

CONSTANTS
    Targets,    \* ids of targets
    URLs,       \* base URLs of backends
    URLOf,      \* URL of each target; two targets may share one
    OwnURL,     \* target_url of the upstream itself
    Pools,      \* pools that snapshots bring: an lb_strategy and targets in order
    Requests,   \* requests handled at the same time
    Loads,      \* what happens in one behaviour: bounds on the reloads after the first and on
                \* how often backends fail or recover, the requests, the backends down at first
    None

ASSUME URLAssumption == URLOf \in [Targets -> URLs] /\ OwnURL \in URLs
ASSUME RequestsAssumption == IsFiniteSet(Requests)
ASSUME NoneAssumption == None \notin Targets /\ None \notin [targets : Seq(Targets), lb : Nat]
ASSUME LoadsAssumption ==
    Loads \subseteq [reloads : Nat, flips : Nat, requests : SUBSET Requests, down : SUBSET URLs]
ASSUME PoolsAssumption ==
    \A p \in Pools : p.lb \in {"least_conn", "round_robin", ""} /\ p.targets \in Seq(Targets) \ {<<>>}

VARIABLES
    snap,       \* the pool in the current snapshot and its strategy, or None without the upstream
    strategies, \* strategies made so far; the last one is in Loader.strategies
    statuses,   \* the checker's watch list: URL -> Healthy
    probes,     \* round under way: URL -> "sent", or the answer not recorded yet
    sync,       \* SyncTargets under way
    up,         \* which backends answer 2xx
    req,        \* requests
    load        \* what is left to happen

vars == <<snap, strategies, statuses, probes, sync, up, req, load>>

Elements(s) == {s[i] : i \in DOMAIN s}

URLsOf(pool) == {URLOf[t] : t \in Elements(pool.targets)}

Watched == IF snap = None THEN {} ELSE URLsOf(snap)

Synced == [pc |-> "idle", todo |-> {}, remove |-> {}]

Idle == [pc |-> "idle", pool |-> <<>>, healthy |-> <<>>, lb |-> 0, target |-> None]

NormalizeLBStrategy(s) == IF s = "least_conn" THEN "least_conn" ELSE "round_robin"

\* NewStrategy
Fresh(lb) == [name |-> NormalizeLBStrategy(lb), inFlight |-> [t \in Targets |-> 0]]

\* Loader.Start has installed a first snapshot before the checker starts and requests come.
Init ==
    /\ \E p \in Pools :
         /\ strategies = <<Fresh(p.lb)>>
         /\ snap = [targets |-> p.targets, lb |-> 1]
         /\ statuses = [u \in URLsOf(p) |-> TRUE]
    /\ probes = <<>>
    /\ sync = Synced
    /\ load \in Loads
    /\ up = [u \in URLs |-> u \notin load.down]
    /\ req = [r \in Requests |-> Idle]

----------------------------------------------------------------------------
(* Loader.reload from its snapshot on, and Checker.SyncTargets *)

\* Mutant: every reload makes a new strategy.
StrategyFor_Fresh(lb) == Append(strategies, Fresh(lb))

\* A strategy is kept as long as its name does not change.
StrategyFor(lb) ==
    IF strategies[Len(strategies)].name = NormalizeLBStrategy(lb) THEN strategies
    ELSE Append(strategies, Fresh(lb))

Reload ==
    /\ sync = Synced /\ load.reloads > 0
    /\ load' = [load EXCEPT !.reloads = @ - 1]
    /\ \/ \E p \in Pools :
            /\ strategies' = StrategyFor(p.lb)
            /\ snap' = [targets |-> p.targets, lb |-> Len(strategies')]
       \/ snap' = None /\ UNCHANGED strategies
    /\ sync' = [Synced EXCEPT !.pc = "scan"]
    /\ UNCHANGED <<statuses, probes, up, req>>

\* Under RLock: what to unregister after the desired URLs are registered.
ScanTargets ==
    /\ sync.pc = "scan"
    /\ sync' = [pc |-> "register", todo |-> Watched, remove |-> DOMAIN statuses \ Watched]
    /\ UNCHANGED <<snap, strategies, statuses, probes, up, req, load>>

\* A URL watched already keeps its status.
Register(u) ==
    [x \in DOMAIN statuses \cup {u} |-> IF x \in DOMAIN statuses THEN statuses[x] ELSE TRUE]

Unregister(u) == [x \in DOMAIN statuses \ {u} |-> statuses[x]]

SyncTarget ==
    /\ \/ /\ sync.pc = "register"
          /\ \/ /\ sync.todo = {}
                /\ sync' = [sync EXCEPT !.pc = "unregister"]
                /\ UNCHANGED statuses
             \/ \E u \in sync.todo :
                  /\ statuses' = Register(u)
                  /\ sync' = [sync EXCEPT !.todo = @ \ {u}]
       \/ /\ sync.pc = "unregister"
          /\ \/ sync.remove = {} /\ sync' = Synced /\ UNCHANGED statuses
             \/ \E u \in sync.remove :
                  /\ statuses' = Unregister(u)
                  /\ sync' = [sync EXCEPT !.remove = @ \ {u}]
    /\ UNCHANGED <<snap, strategies, probes, up, req, load>>

----------------------------------------------------------------------------
(* The health checker *)

\* Mutant: what is down is not asked again.
ProbeAll_Healthy ==
    /\ probes = <<>>
    /\ probes' = [u \in {x \in DOMAIN statuses : statuses[x]} |-> "sent"]
    /\ UNCHANGED <<snap, strategies, statuses, sync, up, req, load>>

\* A round begins when all of the last one is done; it may have nothing to ask.
ProbeAll ==
    /\ probes = <<>>
    /\ probes' = [u \in DOMAIN statuses |-> "sent"]
    /\ UNCHANGED <<snap, strategies, statuses, sync, up, req, load>>

\* Any answer but 2xx, no answer in time included, is "down".
Probe(u) ==
    /\ u \in DOMAIN probes /\ probes[u] = "sent"
    /\ probes' = [probes EXCEPT ![u] = IF up[u] THEN "up" ELSE "down"]
    /\ UNCHANGED <<snap, strategies, statuses, sync, up, req, load>>

\* Mutant: the status is written whether or not the URL is still watched.
Recorded_Adds(u, healthy) ==
    [x \in DOMAIN statuses \cup {u} |-> IF x = u THEN healthy ELSE statuses[x]]

\* A URL that was unregistered meanwhile stays so.
Recorded(u, healthy) ==
    IF u \in DOMAIN statuses THEN [statuses EXCEPT ![u] = healthy] ELSE statuses

SetStatus(u) ==
    /\ u \in DOMAIN probes /\ probes[u] # "sent"
    /\ statuses' = Recorded(u, probes[u] = "up")
    /\ probes' = [x \in DOMAIN probes \ {u} |-> probes[x]]
    /\ UNCHANGED <<snap, strategies, sync, up, req, load>>

\* A backend fails or recovers.
Flip(u) ==
    /\ load.flips > 0
    /\ load' = [load EXCEPT !.flips = @ - 1]
    /\ up' = [up EXCEPT ![u] = ~@]
    /\ UNCHANGED <<snap, strategies, statuses, probes, sync, req>>

IsHealthy(u) == u \in DOMAIN statuses => statuses[u]

----------------------------------------------------------------------------
(* DynamicProxy.ServeHTTP *)

SetReq(r, rec) == req' = [req EXCEPT ![r] = rec]

\* RouteMatch finds the route in the snapshot of this moment; its upstream is there.
Match(r) ==
    /\ r \in load.requests /\ req[r].pc = "idle" /\ snap # None
    /\ SetReq(r, [Idle EXCEPT !.pc = "matched"])
    /\ UNCHANGED <<snap, strategies, statuses, probes, sync, up, load>>

\* resolveTarget reads the snapshot again: the upstream may be gone, and then the URL
\* the route was joined with is used, without a strategy.
ResolveTarget(r) ==
    /\ req[r].pc = "matched"
    /\ SetReq(r, IF snap # None
                 THEN [Idle EXCEPT !.pc = "filter", !.pool = snap.targets, !.lb = snap.lb]
                 ELSE IF IsHealthy(OwnURL) THEN [Idle EXCEPT !.pc = "forward"]
                 ELSE [Idle EXCEPT !.pc = "refused"])
    /\ UNCHANGED <<snap, strategies, statuses, probes, sync, up, load>>

\* One target after the other, each under its own RLock.
FilterHealthy(r) ==
    /\ req[r].pc = "filter" /\ req[r].pool # <<>>
    /\ LET t == Head(req[r].pool) IN
       SetReq(r, [req[r] EXCEPT !.pool = Tail(@),
                    !.healthy = IF IsHealthy(URLOf[t]) THEN Append(@, t) ELSE @])
    /\ UNCHANGED <<snap, strategies, statuses, probes, sync, up, load>>

\* The first of the targets with the fewest requests in flight.
LeastConn(pool, n) ==
    pool[CHOOSE i \in DOMAIN pool : \A j \in DOMAIN pool :
           n[pool[i]] < n[pool[j]] \/ (n[pool[i]] = n[pool[j]] /\ i <= j)]

\* The counter of round robin is shared by lists that differ from pick to pick, so that
\* any healthy target may be next.
Choices(i, healthy) ==
    IF strategies[i].name = "least_conn" THEN {LeastConn(healthy, strategies[i].inFlight)}
    ELSE Elements(healthy)

Counted(i, t) ==
    IF strategies[i].name # "least_conn" THEN strategies
    ELSE [strategies EXCEPT ![i].inFlight[t] = @ + 1]

Pick(r) ==
    /\ req[r].pc = "filter" /\ req[r].pool = <<>>
    /\ LET i == req[r].lb IN
       \/ /\ req[r].healthy = <<>>
          /\ SetReq(r, [Idle EXCEPT !.pc = "refused"])
          /\ UNCHANGED strategies
       \/ /\ req[r].healthy # <<>>
          /\ \E t \in Choices(i, req[r].healthy) :
               /\ SetReq(r, [Idle EXCEPT !.pc = "forward", !.lb = i, !.target = t])
               /\ strategies' = Counted(i, t)
    /\ UNCHANGED <<snap, statuses, probes, sync, up, load>>

\* Mutant: released at the strategy of the current snapshot.
Release_Current(i, t) ==
    IF snap = None THEN strategies
    ELSE IF strategies[snap.lb].name # "least_conn" THEN strategies
    ELSE [strategies EXCEPT ![snap.lb].inFlight[t] = IF @ <= 1 THEN 0 ELSE @ - 1]

\* Release of the strategy that picked the target
Release(i, t) ==
    IF i = 0 THEN strategies
    ELSE IF strategies[i].name # "least_conn" THEN strategies
    ELSE [strategies EXCEPT ![i].inFlight[t] = IF @ <= 1 THEN 0 ELSE @ - 1]

\* The backend answers, cannot be reached, or its proxy cannot be built: Release is
\* deferred.
Finish(r) ==
    /\ req[r].pc = "forward"
    /\ strategies' = Release(req[r].lb, req[r].target)
    /\ SetReq(r, Idle)
    /\ UNCHANGED <<snap, statuses, probes, sync, up, load>>

\* 503
Refused(r) ==
    /\ req[r].pc = "refused"
    /\ SetReq(r, Idle)
    /\ UNCHANGED <<snap, strategies, statuses, probes, sync, up, load>>

----------------------------------------------------------------------------

Serve(r) == ResolveTarget(r) \/ FilterHealthy(r) \/ Pick(r) \/ Finish(r) \/ Refused(r)

Check(u) == Probe(u) \/ SetStatus(u)

Next ==
    \/ Reload \/ ScanTargets \/ SyncTarget
    \/ ProbeAll
    \/ \E u \in URLs : Check(u) \/ Flip(u)
    \/ \E r \in Requests : Match(r) \/ Serve(r)

Spec == Init /\ [][Next]_vars

\* The checker's ticker ticks, probes time out at the latest, a reload ends, and requests
\* are answered; nothing says that requests arrive.
FairSpec ==
    /\ Spec
    /\ WF_vars(ScanTargets \/ SyncTarget)
    /\ WF_vars(ProbeAll)
    /\ \A u \in URLs : WF_vars(Check(u))
    /\ \A r \in Requests : WF_vars(Serve(r))

----------------------------------------------------------------------------
(* Properties *)

Statuses == UNION {[U -> BOOLEAN] : U \in SUBSET URLs}

TypeOK ==
    /\ snap \in {[targets |-> p.targets, lb |-> i] : p \in Pools, i \in DOMAIN strategies} \cup {None}
    /\ \A i \in DOMAIN strategies :
         /\ strategies[i].name \in {"least_conn", "round_robin"}
         /\ strategies[i].inFlight \in [Targets -> 0 .. Cardinality(Requests)]
    /\ statuses \in Statuses
    /\ probes \in UNION {[U -> {"sent", "up", "down"}] : U \in SUBSET URLs}
    /\ sync \in [pc : {"idle", "scan", "register", "unregister"}, todo : SUBSET URLs, remove : SUBSET URLs]
    /\ up \in [URLs -> BOOLEAN]
    /\ \A r \in Requests :
         /\ req[r].pc \in {"idle", "matched", "filter", "forward", "refused"}
         /\ req[r].lb \in {0} \cup DOMAIN strategies /\ req[r].target \in Targets \cup {None}
    /\ load \in [reloads : Nat, flips : Nat, requests : SUBSET Requests, down : SUBSET URLs]

Forwarded(i, t) == {r \in Requests : req[r].pc = "forward" /\ req[r].lb = i /\ req[r].target = t}

\* LeastConn.inFlight counts exactly the requests that this strategy sent to a target and
\* that are still under way, also when the loader put another strategy in its place
\* between Pick and Release, or took the target or the upstream away.
InFlightExact ==
    \A i \in DOMAIN strategies : strategies[i].name = "least_conn" =>
        \A t \in Targets : strategies[i].inFlight[t] = Cardinality(Forwarded(i, t))

\* LeastConn.Pick with Loader.strategyFor: as long as the strategy's name has always been
\* least_conn, the target picked has no more requests under way than any other healthy
\* one, those picked from earlier snapshots included.
LeastLoaded ==
    [][ \A r \in Requests :
          (/\ req[r].pc = "filter" /\ req'[r].pc = "forward"
           /\ \A i \in DOMAIN strategies : strategies[i].name = "least_conn") =>
          LET Load(t) == Cardinality({q \in Requests : req[q].pc = "forward" /\ req[q].target = t})
          IN \A t \in Elements(req[r].healthy) : Load(req'[r].target) <= Load(t) ]_vars

\* Checker.SyncTargets: once it returns, the URLs watched are those of the pool served,
\* although answers to probes of URLs that were unregistered still come in.
WatchListExact == sync.pc = "idle" => DOMAIN statuses = Watched

\* Checker.Register: reconciling the watch list never makes a URL that is down look
\* healthy; only a probe does.
OnlyProbesRecover ==
    [][ \A u \in DOMAIN statuses \cap DOMAIN statuses' :
          (~statuses[u] /\ statuses'[u]) => (u \in DOMAIN probes /\ probes[u] = "up") ]_vars

\* Checker.loop: once backends and the pool stop changing, each status is right and stays
\* so, whatever answers were still under way then.
HealthConverges ==
    <>[][FALSE]_<<up, snap>> => <>[](\A u \in DOMAIN statuses : statuses[u] = up[u])

\* resolveTarget, filterHealthy: while some backend of the pool stays up, requests stop
\* being refused, though statuses are read one by one while probes are recorded.
NoLastingRefusal ==
    <>[](snap # None /\ \E u \in Watched : up[u]) => <>[](\A r \in Requests : req[r].pc # "refused")

=============================================================================
