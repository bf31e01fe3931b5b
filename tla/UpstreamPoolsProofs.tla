------------------------- MODULE UpstreamPoolsProofs -------------------------
(***************************************************************************)
(* The connection counts of least_conn, what it picks by them, and the     *)
(* watch list of the health checker, for any number of targets, requests   *)
(* and reloads.                                                            *)
(***************************************************************************)
EXTENDS UpstreamPools, FiniteSetTheorems, WellFoundedInduction, TLAPS

----------------------------------------------------------------------------
(* The watch list *)

\* While SyncTargets is under way, what it has still to do is what is missing.
SyncInv ==
    /\ sync.pc \in {"idle", "scan", "register", "unregister"}
    /\ sync.pc = "idle" => sync = Synced /\ DOMAIN statuses = Watched
    /\ sync.pc = "register" => /\ Watched \ sync.todo \subseteq DOMAIN statuses
                               /\ sync.todo \subseteq Watched
                               /\ sync.remove \cap Watched = {}
                               /\ DOMAIN statuses \subseteq Watched \cup sync.remove
    /\ sync.pc = "unregister" => /\ Watched \subseteq DOMAIN statuses
                                 /\ sync.remove \cap Watched = {}
                                 /\ DOMAIN statuses \subseteq Watched \cup sync.remove
    /\ sync = [pc |-> sync.pc, todo |-> sync.todo, remove |-> sync.remove]

\* Only Reload changes the pool, and only between two calls of SyncTargets.
LEMMA SyncStep == SyncInv /\ [Next]_vars => SyncInv'
<1> SUFFICES ASSUME SyncInv, [Next]_vars
             PROVE  SyncInv'
  OBVIOUS
<1>1. CASE Reload
  <2>1. sync' = [Synced EXCEPT !.pc = "scan"]
    BY <1>1 DEF Reload
  <2> QED  BY <2>1 DEF SyncInv, Synced
<1>2. CASE ScanTargets
  <2>1. /\ sync' = [pc |-> "register", todo |-> Watched, remove |-> DOMAIN statuses \ Watched]
        /\ UNCHANGED <<snap, statuses>>
    BY <1>2 DEF ScanTargets
  <2>2. Watched' = Watched
    BY <2>1 DEF Watched
  <2> QED  BY <2>1, <2>2 DEF SyncInv
<1>3. CASE SyncTarget
  <2>0. UNCHANGED snap /\ Watched' = Watched
    BY <1>3 DEF SyncTarget, Watched
  <2>1. CASE sync.pc = "register" /\ sync.todo = {}
    <3>1. sync' = [sync EXCEPT !.pc = "unregister"] /\ UNCHANGED statuses
      BY <1>3, <2>1 DEF SyncTarget
    <3> QED  BY <2>0, <2>1, <3>1 DEF SyncInv
  <2>2. ASSUME NEW u \in sync.todo, sync.pc = "register", statuses' = Register(u),
               sync' = [sync EXCEPT !.todo = @ \ {u}]
        PROVE  SyncInv'
    <3>1. DOMAIN statuses' = DOMAIN statuses \cup {u}
      BY <2>2 DEF Register
    <3> QED  BY <2>0, <2>2, <3>1 DEF SyncInv
  <2>3. CASE sync.pc = "unregister" /\ sync.remove = {}
    <3>1. sync' = Synced /\ UNCHANGED statuses
      BY <1>3, <2>3 DEF SyncTarget
    <3> QED  BY <2>0, <2>3, <3>1 DEF SyncInv, Synced
  <2>4. ASSUME NEW u \in sync.remove, sync.pc = "unregister", statuses' = Unregister(u),
               sync' = [sync EXCEPT !.remove = @ \ {u}]
        PROVE  SyncInv'
    <3>1. DOMAIN statuses' = DOMAIN statuses \ {u}
      BY <2>4 DEF Unregister
    <3> QED  BY <2>0, <2>4, <3>1 DEF SyncInv
  <2> QED  BY <1>3, <2>1, <2>2, <2>3, <2>4 DEF SyncTarget
<1>4. ASSUME DOMAIN statuses' = DOMAIN statuses, UNCHANGED <<snap, sync>>
      PROVE  SyncInv'
  BY <1>4 DEF SyncInv, Watched
<1>5. ASSUME NEW u \in URLs, SetStatus(u)
      PROVE  SyncInv'
  <2>1. DOMAIN statuses' = DOMAIN statuses
    BY <1>5 DEF SetStatus, Recorded
  <2> QED  BY <1>4, <1>5, <2>1 DEF SetStatus
<1>6. CASE UNCHANGED <<snap, sync, statuses>>
  BY <1>4, <1>6
<1>7. ASSUME NEW r \in Requests, Match(r) \/ Serve(r)
      PROVE  UNCHANGED <<snap, sync, statuses>>
  BY <1>7 DEF Match, Serve, ResolveTarget, FilterHealthy, Pick, Finish, Refused
<1>8. ASSUME NEW u \in URLs, Probe(u) \/ Flip(u)
      PROVE  UNCHANGED <<snap, sync, statuses>>
  BY <1>8 DEF Probe, Flip
<1>9. CASE ProbeAll \/ UNCHANGED vars
  BY <1>6, <1>9 DEF ProbeAll, vars
<1> QED  BY <1>1, <1>2, <1>3, <1>5, <1>6, <1>7, <1>8, <1>9 DEF Next, Check

\* Once SyncTargets has returned, the URLs watched are exactly those of the pool the
\* gateway serves, whatever answers of earlier probes are still to be recorded.
THEOREM WatchListFollows == Spec => []WatchListExact
<1>1. ASSUME Init
      PROVE  SyncInv
  <2>1. PICK p \in Pools : /\ snap = [targets |-> p.targets, lb |-> 1]
                           /\ statuses = [u \in URLsOf(p) |-> TRUE]
    BY <1>1 DEF Init
  <2>2. snap # None
    <3>1. p.targets \in Seq(Targets)
      BY PoolsAssumption
    <3>2. [targets |-> p.targets, lb |-> 1] \in [targets : Seq(Targets), lb : Nat]
      BY <3>1
    <3> QED  BY <2>1, <3>2, NoneAssumption
  <2>3. URLsOf(snap) = URLsOf(p)
    BY <2>1 DEF URLsOf, Elements
  <2> QED  BY <1>1, <2>1, <2>2, <2>3 DEF Init, SyncInv, Synced, Watched
<1>2. SyncInv => WatchListExact
  BY DEF SyncInv, WatchListExact
<1> QED  BY <1>1, <1>2, SyncStep, PTL DEF Spec

\* A URL that is down is only shown as healthy again because a probe was answered.
THEOREM ProbesRecover == Spec => OnlyProbesRecover
<1> DEFINE Recovers ==
      \A u \in DOMAIN statuses \cap DOMAIN statuses' :
          (~statuses[u] /\ statuses'[u]) => (u \in DOMAIN probes /\ probes[u] = "up")
<1>1. ASSUME Next
      PROVE  Recovers
  <2>1. CASE SyncTarget
    BY <2>1 DEF SyncTarget, Register, Unregister
  <2>2. ASSUME NEW u \in URLs, SetStatus(u)
        PROVE  Recovers
    BY <2>2 DEF SetStatus, Recorded
  <2>3. CASE UNCHANGED statuses
    BY SMTT(30), <2>3
  <2>4. ASSUME NEW r \in Requests, Match(r) \/ Serve(r)
        PROVE  UNCHANGED statuses
    BY <2>4 DEF Match, Serve, ResolveTarget, FilterHealthy, Pick, Finish, Refused
  <2>5. ASSUME NEW u \in URLs, Probe(u) \/ Flip(u)
        PROVE  UNCHANGED statuses
    BY <2>5 DEF Probe, Flip
  <2>6. CASE Reload \/ ScanTargets \/ ProbeAll
    BY <2>3, <2>6 DEF Reload, ScanTargets, ProbeAll
  <2> QED  BY <1>1, <2>1, <2>2, <2>3, <2>4, <2>5, <2>6 DEF Next, Check
<1>2. [Next]_vars => [Recovers]_vars
  BY <1>1
<1> QED  BY <1>2, PTL DEF Spec, OnlyProbesRecover

----------------------------------------------------------------------------
(* The counts of least_conn *)

Strategy == [name : {"least_conn", "round_robin"}, inFlight : [Targets -> Nat]]

\* What the counts rest on: a request that is past resolveTarget names a strategy that
\* exists, so that one made later starts with no request of its own.  Nothing is said of
\* the target it names.
CountInv ==
    /\ strategies \in Seq(Strategy) /\ strategies # <<>>
    /\ snap # None => snap.lb \in DOMAIN strategies
    /\ DOMAIN req = Requests
    /\ \A r \in Requests :
         /\ req[r] = [pc |-> req[r].pc, pool |-> req[r].pool, healthy |-> req[r].healthy,
                      lb |-> req[r].lb, target |-> req[r].target]
         /\ req[r].lb \in {0} \cup DOMAIN strategies
         /\ req[r].pc = "filter" => req[r].lb \in DOMAIN strategies
    /\ InFlightExact

\* Forwarded is a finite set, as Requests is.
LEMMA ForwardedFinite ==
    ASSUME NEW i, NEW t
    PROVE  IsFiniteSet(Forwarded(i, t)) /\ Cardinality(Forwarded(i, t)) \in Nat
BY RequestsAssumption, FS_Subset, FS_CardinalityType DEF Forwarded

\* A request that is not forwarded before or after a step leaves all counts as they are.
LEMMA NotForwarded ==
    ASSUME NEW r \in Requests, NEW rec, DOMAIN req = Requests, SetReq(r, rec),
           req[r].pc # "forward", rec.pc # "forward", NEW i, NEW t
    PROVE  Forwarded(i, t)' = Forwarded(i, t)
BY DEF Forwarded, SetReq

\* Reload: the strategies made so far stay as they are, and a new one has no request.
LEMMA ReloadCounts == CountInv /\ Reload => CountInv'
<1> SUFFICES ASSUME CountInv, Reload
             PROVE  CountInv'
  OBVIOUS
<1>0. UNCHANGED req /\ \A i, t : Forwarded(i, t)' = Forwarded(i, t)
  BY DEF Reload, Forwarded
<1>1. CASE UNCHANGED strategies
  <2>1. snap' # None => snap'.lb \in DOMAIN strategies
    BY <1>1 DEF Reload, CountInv
  <2> QED  BY <1>0, <1>1, <2>1 DEF CountInv, InFlightExact
<1>2. ASSUME NEW p \in Pools, strategies' = Append(strategies, Fresh(p.lb)),
             snap' = [targets |-> p.targets, lb |-> Len(strategies')]
      PROVE  CountInv'
  <2> DEFINE n == Len(strategies) + 1
  <2>1. Fresh(p.lb) \in Strategy
    BY DEF Fresh, NormalizeLBStrategy, Strategy
  <2>2. /\ strategies' \in Seq(Strategy) /\ strategies' # <<>>
        /\ DOMAIN strategies' = 1 .. n /\ DOMAIN strategies = 1 .. Len(strategies)
        /\ Len(strategies') = n /\ Len(strategies) \in Nat
        /\ strategies'[n] = Fresh(p.lb)
        /\ \A i \in DOMAIN strategies : strategies'[i] = strategies[i]
    BY <1>2, <2>1 DEF CountInv
  <2>3. \A t \in Targets : Forwarded(n, t) = {} /\ Fresh(p.lb).inFlight[t] = 0
    BY <2>2 DEF CountInv, Forwarded, Fresh
  <2>4. InFlightExact'
    <3> SUFFICES ASSUME NEW j \in DOMAIN strategies', strategies'[j].name = "least_conn",
                        NEW x \in Targets
                 PROVE  strategies'[j].inFlight[x] = Cardinality(Forwarded(j, x)')
      BY DEF InFlightExact
    <3>1. CASE j = n
      BY <1>0, <2>2, <2>3, <3>1, FS_EmptySet
    <3>2. CASE j \in DOMAIN strategies
      BY <1>0, <2>2, <3>2 DEF CountInv, InFlightExact
    <3> QED  BY <2>2, <3>1, <3>2
  <2> QED  BY <1>0, <1>2, <2>2, <2>4 DEF CountInv
<1> QED  BY <1>1, <1>2 DEF Reload, StrategyFor

SetCount(s, i, t, v) == [s EXCEPT ![i].inFlight[t] = v]

\* What an update of one count changes; one of a target that has no count does nothing.
OneChange(s, new, i, t, v) ==
    /\ new \in Seq(Strategy) /\ DOMAIN new = DOMAIN s
    /\ \A j \in DOMAIN s : new[j].name = s[j].name
    /\ \A j \in DOMAIN s, x \in Targets :
         new[j].inFlight[x] = IF j = i /\ x = t THEN v ELSE s[j].inFlight[x]

\* An update of a count changes that count.
LEMMA OneCount ==
    ASSUME NEW s \in Seq(Strategy), NEW i \in DOMAIN s, NEW t, NEW v,
           t \in Targets => v \in Nat
    PROVE  OneChange(s, SetCount(s, i, t, v), i, t, v)
<1> DEFINE new == SetCount(s, i, t, v)
<1>1. s[i] \in Strategy
  OBVIOUS
<1> DEFINE g == [s[i].inFlight EXCEPT ![t] = v]
           rec == [s[i] EXCEPT !.inFlight = g]
<1>2. g \in [Targets -> Nat] /\ \A x \in Targets : g[x] = IF x = t THEN v ELSE s[i].inFlight[x]
  BY <1>1 DEF Strategy
<1> HIDE DEF g
<1>3. rec \in Strategy /\ rec.name = s[i].name /\ rec.inFlight = g
  BY ZenonT(40), <1>1, <1>2 DEF Strategy
<1>4. new = [s EXCEPT ![i] = rec]
  BY DEF g, SetCount
<1> HIDE DEF rec, new
<1>5. new \in Seq(Strategy) /\ DOMAIN new = DOMAIN s
  BY <1>3, <1>4
<1>6. \A j \in DOMAIN s : new[j] = IF j = i THEN rec ELSE s[j]
  BY <1>4
<1>7. OneChange(s, new, i, t, v)
  BY SMTT(30), <1>2, <1>3, <1>5, <1>6 DEF OneChange
<1> QED  BY <1>7 DEF new

\* An update of a count, of a target or of something else, changes no name.
LEMMA NamesKept ==
    ASSUME NEW s \in Seq(Strategy), NEW i \in DOMAIN s, NEW t, NEW v
    PROVE  /\ DOMAIN SetCount(s, i, t, v) = DOMAIN s
           /\ \A j \in DOMAIN s : SetCount(s, i, t, v)[j].name = s[j].name
<1>1. PICK g : g = [s[i].inFlight EXCEPT ![t] = v]
  OBVIOUS
<1>2. PICK rec : rec = [s[i] EXCEPT !.inFlight = g]
  BY ZenonT(40)
<1>3. s[i] \in Strategy
  OBVIOUS
<1>4. rec.name = s[i].name
  BY <1>2, <1>3 DEF Strategy
<1>5. SetCount(s, i, t, v) = [s EXCEPT ![i] = rec]
  BY <1>1, <1>2 DEF SetCount
<1> QED  BY <1>4, <1>5

\* Pick: the request joins those forwarded to its target, and least_conn counts it.
LEMMA PickCounts ==
    ASSUME NEW r \in Requests, CountInv, Pick(r)
    PROVE  CountInv'
<1>i. PICK i : i = req[r].lb
  BY SMTT(30)
<1>0. i \in DOMAIN strategies /\ req[r].pc = "filter"
  BY ZenonT(40), <1>i DEF Pick, CountInv
<1>1. CASE SetReq(r, [Idle EXCEPT !.pc = "refused"]) /\ UNCHANGED strategies
  <2>1. \A j, t : Forwarded(j, t)' = Forwarded(j, t)
    BY <1>0, <1>1, NotForwarded DEF CountInv, Idle
  <2> QED  BY ZenonT(40), <1>1, <2>1 DEF CountInv, InFlightExact, Pick, SetReq, Idle
<1>2. ASSUME NEW t, SetReq(r, [Idle EXCEPT !.pc = "forward", !.lb = i, !.target = t]),
             strategies' = Counted(i, t)
      PROVE  CountInv'
  <2>1. Forwarded(i, t)' = Forwarded(i, t) \cup {r} /\ r \notin Forwarded(i, t)
    BY <1>0, <1>2 DEF CountInv, Forwarded, SetReq, Idle
  <2>2. \A j, x : <<j, x>> # <<i, t>> => Forwarded(j, x)' = Forwarded(j, x)
    BY <1>0, <1>2 DEF CountInv, Forwarded, SetReq, Idle
  <2>3. /\ strategies' \in Seq(Strategy) /\ DOMAIN strategies' = DOMAIN strategies
        /\ strategies' # <<>>
        /\ \A j \in DOMAIN strategies : strategies'[j].name = strategies[j].name
        /\ \A j \in DOMAIN strategies, x \in Targets :
             strategies'[j].inFlight[x] =
               IF strategies[j].name = "least_conn" /\ j = i /\ x = t
               THEN strategies[j].inFlight[x] + 1 ELSE strategies[j].inFlight[x]
    <3>1. CASE strategies[i].name # "least_conn"
      BY <1>2, <3>1 DEF CountInv, Counted
    <3>2. CASE strategies[i].name = "least_conn"
      <4>0. strategies \in Seq(Strategy) /\ strategies[i] \in Strategy /\ strategies # <<>>
        BY <1>0 DEF CountInv
      <4>1. PICK v : v = strategies[i].inFlight[t] + 1
        OBVIOUS
      <4>2. t \in Targets => v \in Nat
        BY <4>0, <4>1 DEF Strategy
      <4>3. strategies' = SetCount(strategies, i, t, v)
        BY <1>2, <3>2, <4>1 DEF Counted, SetCount
      <4>4. OneChange(strategies, strategies', i, t, v)
        BY <1>0, <4>0, <4>2, <4>3, OneCount
      <4> QED  BY <1>0, <3>2, <4>0, <4>1, <4>4 DEF OneChange
    <3> QED  BY <3>1, <3>2
  <2>4. InFlightExact'
    <3> SUFFICES ASSUME NEW j \in DOMAIN strategies, strategies[j].name = "least_conn",
                        NEW x \in Targets
                 PROVE  strategies'[j].inFlight[x] = Cardinality(Forwarded(j, x)')
      BY <2>3 DEF InFlightExact
    <3>1. strategies[j].inFlight[x] = Cardinality(Forwarded(j, x))
      BY DEF CountInv, InFlightExact
    <3>2. CASE j = i /\ x = t
      <4>1. Cardinality(Forwarded(i, t) \cup {r}) = Cardinality(Forwarded(i, t)) + 1
        BY <2>1, ForwardedFinite, FS_AddElement
      <4> QED  BY <2>1, <2>3, <3>1, <3>2, <4>1
    <3>3. CASE ~(j = i /\ x = t)
      BY <2>2, <2>3, <3>1, <3>3
    <3> QED  BY <3>2, <3>3
  <2> QED  BY <1>0, <1>2, <2>3, <2>4 DEF CountInv, Pick, SetReq, Idle
<1> QED  BY <1>i, <1>1, <1>2 DEF Pick

\* Finish: the request leaves those forwarded to its target, and the strategy that picked
\* the target forgets it; the test for zero in Release never matters.
LEMMA FinishCounts ==
    ASSUME NEW r \in Requests, CountInv, Finish(r)
    PROVE  CountInv'
<1>1. PICK i, t : i = req[r].lb /\ t = req[r].target
  OBVIOUS
<1>2. /\ i \in {0} \cup DOMAIN strategies /\ req[r].pc = "forward"
      /\ SetReq(r, Idle) /\ strategies' = Release(i, t) /\ UNCHANGED snap
  BY <1>1 DEF Finish, CountInv
<1>3. Forwarded(i, t)' = Forwarded(i, t) \ {r} /\ r \in Forwarded(i, t)
  BY <1>1, <1>2 DEF CountInv, Forwarded, SetReq, Idle
<1>4. \A j, x : <<j, x>> # <<i, t>> => Forwarded(j, x)' = Forwarded(j, x)
  BY <1>1, <1>2 DEF CountInv, Forwarded, SetReq, Idle
<1>5. strategies \in Seq(Strategy) /\ strategies # <<>> /\ 0 \notin DOMAIN strategies
  BY DEF CountInv
<1>6. CASE i = 0 \/ strategies[i].name # "least_conn"
  <2>1. UNCHANGED strategies
    BY <1>2, <1>6 DEF Release
  <2>2. InFlightExact'
    BY <1>4, <1>5, <1>6, <2>1 DEF CountInv, InFlightExact
  <2> QED  BY <1>2, <2>1, <2>2 DEF CountInv, SetReq, Idle
<1>7. CASE i \in DOMAIN strategies /\ i # 0 /\ strategies[i].name = "least_conn"
  <2>1. PICK n : n = strategies[i].inFlight[t]
    OBVIOUS
  <2>2. PICK v : v = IF n <= 1 THEN 0 ELSE n - 1
    OBVIOUS
  <2>3. t \in Targets => /\ n \in Nat /\ n = Cardinality(Forwarded(i, t))
                         /\ v \in Nat /\ v = Cardinality(Forwarded(i, t)')
    <3> SUFFICES ASSUME t \in Targets
                 PROVE  /\ n \in Nat /\ n = Cardinality(Forwarded(i, t))
                        /\ v \in Nat /\ v = Cardinality(Forwarded(i, t)')
      OBVIOUS
    <3>1. n \in Nat /\ n = Cardinality(Forwarded(i, t))
      BY <1>7, <2>1, ForwardedFinite DEF CountInv, InFlightExact
    <3>2. Cardinality(Forwarded(i, t) \ {r}) = n - 1
      BY <1>3, <3>1, ForwardedFinite, FS_RemoveElement
    <3>3. n # 0
      BY <1>3, <3>1, ForwardedFinite, FS_EmptySet
    <3> QED  BY <1>3, <2>2, <3>1, <3>2, <3>3
  <2>4. strategies' = SetCount(strategies, i, t, v)
    BY <1>2, <1>7, <2>1, <2>2 DEF Release, SetCount
  <2>5. OneChange(strategies, strategies', i, t, v)
    BY <1>5, <1>7, <2>3, <2>4, OneCount
  <2>6. InFlightExact'
    <3> SUFFICES ASSUME NEW j \in DOMAIN strategies, strategies[j].name = "least_conn",
                        NEW x \in Targets
                 PROVE  strategies'[j].inFlight[x] = Cardinality(Forwarded(j, x)')
      BY <2>5 DEF InFlightExact, OneChange
    <3>1. CASE j = i /\ x = t
      BY <2>3, <2>5, <3>1 DEF OneChange
    <3>2. CASE ~(j = i /\ x = t)
      BY <1>4, <2>5, <3>2 DEF OneChange, CountInv, InFlightExact
    <3> QED  BY <3>1, <3>2
  <2>7. strategies' \in Seq(Strategy) /\ strategies' # <<>> /\ DOMAIN strategies' = DOMAIN strategies
    BY <1>7, <2>5 DEF OneChange
  <2> QED  BY <1>2, <2>6, <2>7 DEF CountInv, SetReq, Idle
<1> QED  BY <1>2, <1>6, <1>7

\* The other steps of a request do not touch a strategy.
LEMMA RequestCounts ==
    ASSUME NEW r \in Requests, CountInv,
           Match(r) \/ ResolveTarget(r) \/ FilterHealthy(r) \/ Refused(r)
    PROVE  CountInv'
<1>0. UNCHANGED <<snap, strategies>>
  BY DEF Match, ResolveTarget, FilterHealthy, Refused
<1>1. ASSUME NEW rec, SetReq(r, rec), req[r].pc # "forward",
             rec = [pc |-> rec.pc, pool |-> rec.pool, healthy |-> rec.healthy,
                    lb |-> rec.lb, target |-> rec.target],
             rec.lb \in {0} \cup DOMAIN strategies,
             rec.pc = "filter" => rec.lb \in DOMAIN strategies,
             rec.pc = "forward" => rec.lb = 0
      PROVE  CountInv'
  <2>1. \A i \in DOMAIN strategies : \A t : Forwarded(i, t)' = Forwarded(i, t)
    BY <1>1 DEF CountInv, Forwarded, SetReq
  <2> QED  BY <1>0, <1>1, <2>1 DEF CountInv, InFlightExact, SetReq
<1>2. CASE Match(r)
  BY <1>1, <1>2 DEF Match, Idle
<1>3. CASE ResolveTarget(r)
  <2>1. CASE snap # None
    <3>1. PICK rec : rec = [pc |-> "filter", pool |-> snap.targets, healthy |-> <<>>,
                            lb |-> snap.lb, target |-> None]
      OBVIOUS
    <3>2. SetReq(r, rec) /\ req[r].pc = "matched"
      BY <1>3, <2>1, <3>1 DEF ResolveTarget, Idle
    <3>3. snap.lb \in DOMAIN strategies
      BY <2>1 DEF CountInv
    <3> QED  BY <1>1, <3>1, <3>2, <3>3
  <2>2. CASE snap = None
    BY <1>1, <1>3, <2>2 DEF ResolveTarget, Idle
  <2> QED  BY <2>1, <2>2
<1>4. CASE FilterHealthy(r)
  <2>1. PICK rec : /\ SetReq(r, rec)
                   /\ \E pool, healthy : rec = [req[r] EXCEPT !.pool = pool, !.healthy = healthy]
    BY <1>4 DEF FilterHealthy
  <2>2. req[r].pc = "filter"
    BY <1>4 DEF FilterHealthy
  <2>3. /\ rec = [pc |-> rec.pc, pool |-> rec.pool, healthy |-> rec.healthy,
                  lb |-> rec.lb, target |-> rec.target]
        /\ rec.pc = req[r].pc /\ rec.lb = req[r].lb
    BY <2>1 DEF CountInv
  <2>4. req[r].lb \in DOMAIN strategies
    BY <2>2 DEF CountInv
  <2> QED  BY SMTT(30), <1>1, <2>1, <2>2, <2>3, <2>4
<1>5. CASE Refused(r)
  BY <1>1, <1>5 DEF Refused, Idle
<1> QED  BY <1>2, <1>3, <1>4, <1>5

\* CountInv holds at first, and every step keeps it.
LEMMA CountInvariant == Spec => []CountInv
<1>1. ASSUME Init
      PROVE  CountInv
  <2>1. PICK p \in Pools : /\ strategies = <<Fresh(p.lb)>>
                           /\ snap = [targets |-> p.targets, lb |-> 1]
    BY <1>1 DEF Init
  <2>2. Fresh(p.lb) \in Strategy /\ \A t \in Targets : Fresh(p.lb).inFlight[t] = 0
    BY DEF Fresh, NormalizeLBStrategy, Strategy
  <2>3. \A i, t : Forwarded(i, t) = {}
    BY <1>1 DEF Init, Forwarded, Idle
  <2>4. /\ strategies \in Seq(Strategy) /\ strategies # <<>> /\ DOMAIN strategies = {1}
        /\ strategies[1] = Fresh(p.lb)
    BY <2>1, <2>2
  <2>5. InFlightExact
    BY <2>2, <2>3, <2>4, FS_EmptySet DEF InFlightExact
  <2> QED  BY <1>1, <2>1, <2>4, <2>5 DEF Init, CountInv, Idle
<1>2. ASSUME CountInv, [Next]_vars
      PROVE  CountInv'
  <2>1. CASE UNCHANGED <<snap, strategies, req>>
    BY <1>2, <2>1 DEF CountInv, InFlightExact, Forwarded
  <2>2. CASE Reload
    BY <1>2, <2>2, ReloadCounts
  <2>3. CASE ScanTargets \/ SyncTarget \/ ProbeAll \/ UNCHANGED vars
    BY <2>1, <2>3 DEF ScanTargets, SyncTarget, ProbeAll, vars
  <2>4. ASSUME NEW u \in URLs, Check(u) \/ Flip(u)
        PROVE  CountInv'
    BY <2>1, <2>4 DEF Check, Probe, SetStatus, Flip
  <2>5. ASSUME NEW r \in Requests, Match(r) \/ Serve(r)
        PROVE  CountInv'
    BY <1>2, <2>5, PickCounts, FinishCounts, RequestCounts DEF Serve
  <2> QED  BY <1>2, <2>2, <2>3, <2>4, <2>5 DEF Next
<1> QED  BY <1>1, <1>2, PTL DEF Spec

\* LeastConn.inFlight counts exactly the requests under way, for any number of targets,
\* requests and reloads: Release goes to the strategy that picked the target.
THEOREM CountsExact == Spec => []InFlightExact
<1>1. CountInv => InFlightExact
  BY DEF CountInv
<1> QED  BY <1>1, CountInvariant, PTL

----------------------------------------------------------------------------
(* What least_conn picks *)

\* A set of natural numbers that is not empty has a smallest member.
LEMMA Smallest ==
    ASSUME NEW S \in SUBSET Nat, S # {}
    PROVE  \E m \in S : \A k \in S : m <= k
<1> DEFINE Less == OpToRel(<, Nat)
<1>1. IsWellFoundedOn(Less, Nat)
  BY NatLessThanWellFounded
<1>2. \A x, y \in Nat : x < y => <<x, y>> \in Less
  BY DEF OpToRel
<1> HIDE DEF Less
<1>3. PICK x \in S : \A y \in S : ~(<<y, x>> \in Less)
  BY Zenon, <1>1, WFMin
<1>4. \A y \in S : y \in Nat /\ x \in Nat /\ ~(y < x)
  BY Zenon, <1>2, <1>3
<1>5. \A y \in S : x <= y
  BY <1>4
<1> QED  BY Zenon, <1>5

\* The loop of LeastConn.Pick ends at a target of the list that has the smallest count.
LEMMA LeastConnIsLeast ==
    ASSUME NEW pool \in Seq(Targets), pool # <<>>, NEW n \in [Targets -> Nat]
    PROVE  /\ LeastConn(pool, n) \in Elements(pool)
           /\ \A t \in Elements(pool) : n[LeastConn(pool, n)] <= n[t]
<1>1. /\ DOMAIN pool \subseteq Nat /\ 1 \in DOMAIN pool
      /\ \A i \in DOMAIN pool : pool[i] \in Targets /\ n[pool[i]] \in Nat
  OBVIOUS
<1> DEFINE Counts == {n[pool[i]] : i \in DOMAIN pool}
<1>2. Counts \in SUBSET Nat /\ Counts # {}
  BY <1>1
<1>3. PICK m \in Counts : \A k \in Counts : m <= k
  BY Zenon, <1>2, Smallest
<1> DEFINE Places == {i \in DOMAIN pool : n[pool[i]] = m}
<1>4. Places \in SUBSET Nat /\ Places # {}
  BY Zenon, <1>1, <1>3
<1>5. PICK p \in Places : \A k \in Places : p <= k
  BY Zenon, <1>4, Smallest
<1> DEFINE First(i) == \A j \in DOMAIN pool :
             n[pool[i]] < n[pool[j]] \/ (n[pool[i]] = n[pool[j]] /\ i <= j)
<1>6. p \in DOMAIN pool /\ n[pool[p]] = m /\ m \in Nat
  BY Zenon, <1>2, <1>3, <1>5
<1>7. ASSUME NEW j \in DOMAIN pool
      PROVE  n[pool[p]] < n[pool[j]] \/ (n[pool[p]] = n[pool[j]] /\ p <= j)
  <2>1. m <= n[pool[j]] /\ n[pool[j]] \in Nat
    BY Zenon, <1>1, <1>3
  <2>2. n[pool[j]] = m => p <= j
    BY Zenon, <1>5
  <2> QED  BY <1>6, <2>1, <2>2
<1>8. First(p)
  BY Zenon, <1>7
<1> DEFINE c == CHOOSE i \in DOMAIN pool : First(i)
<1>9. c \in DOMAIN pool /\ First(c)
  <2> HIDE DEF First
  <2> QED  BY Zenon, <1>6, <1>8
<1>10. LeastConn(pool, n) = pool[c]
  BY Zenon DEF LeastConn
<1> HIDE DEF c
<1>11. \A j \in DOMAIN pool : n[pool[c]] <= n[pool[j]]
  BY SMTT(30), <1>1, <1>9
<1> QED  BY Zenon, <1>9, <1>10, <1>11 DEF Elements

\* strategyFor makes a new strategy only for another name, so that as long as every name
\* has been least_conn there is one strategy; and a request without a strategy names no
\* target of a pool.
LoadInv ==
    /\ \A i \in DOMAIN strategies :
         i - 1 \in DOMAIN strategies => strategies[i].name # strategies[i - 1].name
    /\ snap # None => snap.targets \in Seq(Targets)
    /\ \A r \in Requests :
         /\ req[r].pool \in Seq(Targets) /\ req[r].healthy \in Seq(Targets)
         /\ req[r].pc = "forward" /\ req[r].lb = 0 => req[r].target = None

\* A request of LoadInv, once more for a record that takes its place.
ReqLoads(rec) ==
    /\ rec.pool \in Seq(Targets) /\ rec.healthy \in Seq(Targets)
    /\ rec.pc = "forward" /\ rec.lb = 0 => rec.target = None

\* A step of one request changes no name.
LEMMA RequestLoads ==
    ASSUME CountInv, LoadInv, NEW r \in Requests, NEW rec, SetReq(r, rec), ReqLoads(rec),
           UNCHANGED snap, DOMAIN strategies' = DOMAIN strategies,
           \A i \in DOMAIN strategies : strategies'[i].name = strategies[i].name
    PROVE  LoadInv'
<1>1. \A q \in Requests : req'[q] = IF q = r THEN rec ELSE req[q]
  BY DEF CountInv, SetReq
<1>2. \A q \in Requests : ReqLoads(req'[q])
  BY Zenon, <1>1 DEF LoadInv, ReqLoads
<1>3. \A i \in DOMAIN strategies :
         i - 1 \in DOMAIN strategies => strategies'[i].name # strategies'[i - 1].name
  BY Zenon DEF LoadInv
<1> QED  BY Zenon, <1>2, <1>3 DEF LoadInv, ReqLoads

\* Reload: the strategy made last has another name than the one before it.
LEMMA ReloadLoads == CountInv /\ LoadInv /\ Reload => LoadInv'
<1> SUFFICES ASSUME CountInv, LoadInv, Reload
             PROVE  LoadInv'
  OBVIOUS
<1>1. UNCHANGED req
  BY DEF Reload
<1>2. snap' # None => snap'.targets \in Seq(Targets)
  <2>1. \/ snap' = None
        \/ \E p \in Pools : snap' = [targets |-> p.targets, lb |-> Len(strategies')]
    BY Zenon DEF Reload
  <2>2. \A p \in Pools : p.targets \in Seq(Targets)
    BY Zenon, PoolsAssumption
  <2> QED  BY <2>1, <2>2
<1>3. \A i \in DOMAIN strategies' :
         i - 1 \in DOMAIN strategies' => strategies'[i].name # strategies'[i - 1].name
  <2>1. CASE UNCHANGED strategies
    BY <2>1 DEF LoadInv
  <2>2. ASSUME NEW p \in Pools, strategies' = Append(strategies, Fresh(p.lb)),
               strategies[Len(strategies)].name # NormalizeLBStrategy(p.lb)
        PROVE  \A i \in DOMAIN strategies' :
                  i - 1 \in DOMAIN strategies' => strategies'[i].name # strategies'[i - 1].name
    <3>1. PICK n : n = Len(strategies) + 1
      OBVIOUS
    <3>2. Fresh(p.lb).name = NormalizeLBStrategy(p.lb)
      BY DEF Fresh
    <3>3. strategies \in Seq(Strategy) /\ strategies # <<>>
      BY DEF CountInv
    <3>4. PICK s : s = Fresh(p.lb)
      OBVIOUS
    <3>5. /\ DOMAIN strategies' = 1 .. n /\ DOMAIN strategies = 1 .. n - 1 /\ n \in Nat
          /\ strategies'[n] = s /\ n > 1
          /\ \A i \in 1 .. n - 1 : strategies'[i] = strategies[i]
      BY <2>2, <3>1, <3>3, <3>4
    <3>6. strategies[n - 1].name # s.name
      BY <2>2, <3>1, <3>2, <3>3, <3>4
    <3> SUFFICES ASSUME NEW i \in 1 .. n, i - 1 \in 1 .. n
                 PROVE  strategies'[i].name # strategies'[i - 1].name
      BY <3>5
    <3>7. CASE i = n
      BY <3>5, <3>6, <3>7
    <3>8. CASE i # n
      <4>1. i \in 1 .. n - 1 /\ i - 1 \in 1 .. n - 1
        BY <3>5, <3>8
      <4> QED  BY <3>5, <4>1 DEF LoadInv
    <3> QED  BY <3>7, <3>8
  <2> QED  BY <2>1, <2>2 DEF Reload, StrategyFor
<1> QED  BY <1>1, <1>2, <1>3 DEF LoadInv

\* The steps of a request: the list of healthy targets is a part of the pool.
LEMMA ServeLoads ==
    ASSUME CountInv, LoadInv, NEW r \in Requests, Match(r) \/ Serve(r)
    PROVE  LoadInv'
<1>0. /\ req[r] = [pc |-> req[r].pc, pool |-> req[r].pool, healthy |-> req[r].healthy,
                   lb |-> req[r].lb, target |-> req[r].target]
      /\ ReqLoads(req[r])
  BY Zenon DEF CountInv, LoadInv, ReqLoads
<1>1. ASSUME NEW rec, SetReq(r, rec), ReqLoads(rec), UNCHANGED <<snap, strategies>>
      PROVE  LoadInv'
  BY <1>1, RequestLoads
<1>2. ASSUME NEW pc
      PROVE  ReqLoads([Idle EXCEPT !.pc = pc])
  BY DEF ReqLoads, Idle
<1>3. CASE Match(r) \/ Refused(r)
  <2>1. UNCHANGED <<snap, strategies>>
    BY <1>3 DEF Match, Refused
  <2>2. SetReq(r, [Idle EXCEPT !.pc = "matched"]) \/ SetReq(r, [Idle EXCEPT !.pc = "idle"])
    BY <1>3 DEF Match, Refused, Idle
  <2> QED  BY <1>1, <1>2, <2>1, <2>2
<1>4. CASE ResolveTarget(r)
  <2>1. UNCHANGED <<snap, strategies>>
    BY <1>4 DEF ResolveTarget
  <2>2. CASE snap # None
    <3>1. PICK rec : rec = [Idle EXCEPT !.pc = "filter", !.pool = snap.targets, !.lb = snap.lb]
      OBVIOUS
    <3>2. SetReq(r, rec)
      BY <1>4, <2>2, <3>1 DEF ResolveTarget
    <3>3. snap.targets \in Seq(Targets)
      BY <2>2 DEF LoadInv
    <3>4. ReqLoads(rec)
      BY <3>1, <3>3 DEF ReqLoads, Idle
    <3> QED  BY <1>1, <2>1, <3>2, <3>4
  <2>3. CASE snap = None
    <3>1. SetReq(r, [Idle EXCEPT !.pc = "forward"]) \/ SetReq(r, [Idle EXCEPT !.pc = "refused"])
      BY <1>4, <2>3 DEF ResolveTarget
    <3> QED  BY <1>1, <1>2, <2>1, <3>1
  <2> QED  BY <2>2, <2>3
<1>5. CASE FilterHealthy(r)
  <2>1. PICK pool, healthy : pool = req[r].pool /\ healthy = req[r].healthy
    OBVIOUS
  <2>2. pool \in Seq(Targets) /\ healthy \in Seq(Targets) /\ pool # <<>> /\ req[r].pc = "filter"
    BY <1>0, <1>5, <2>1 DEF ReqLoads, FilterHealthy
  <2>3. PICK now : now = IF IsHealthy(URLOf[Head(pool)]) THEN Append(healthy, Head(pool)) ELSE healthy
    OBVIOUS
  <2>4. Tail(pool) \in Seq(Targets) /\ Head(pool) \in Targets
    BY <2>2
  <2>5. now \in Seq(Targets)
    BY <2>2, <2>3, <2>4
  <2>6. PICK rest : rest = Tail(pool)
    OBVIOUS
  <2>7. PICK rec : rec = [pc |-> "filter", pool |-> rest, healthy |-> now,
                          lb |-> req[r].lb, target |-> req[r].target]
    OBVIOUS
  <2>8. SetReq(r, [req[r] EXCEPT !.pool = rest, !.healthy = now])
    BY Zenon, <1>5, <2>1, <2>3, <2>6 DEF FilterHealthy
  <2>9. [req[r] EXCEPT !.pool = rest, !.healthy = now] = rec
    <3>1. PICK pc, lb, target, old : /\ pc = req[r].pc /\ lb = req[r].lb /\ target = req[r].target
                                     /\ old = req[r]
      OBVIOUS
    <3>2. old = [pc |-> pc, pool |-> pool, healthy |-> healthy, lb |-> lb, target |-> target]
      BY Zenon, <1>0, <2>1, <3>1
    <3>3. [old EXCEPT !.pool = rest, !.healthy = now]
            = [pc |-> pc, pool |-> rest, healthy |-> now, lb |-> lb, target |-> target]
      <4>1. PICK mid : mid = [old EXCEPT !.pool = rest]
        BY ZenonT(40)
      <4>2. mid = [pc |-> pc, pool |-> rest, healthy |-> healthy, lb |-> lb, target |-> target]
        BY <3>2, <4>1
      <4>3. [mid EXCEPT !.healthy = now]
              = [pc |-> pc, pool |-> rest, healthy |-> now, lb |-> lb, target |-> target]
        BY <4>2
      <4> QED  BY Zenon, <4>1, <4>3
    <3> QED  BY Zenon, <2>2, <2>7, <3>1, <3>3
  <2>10. ReqLoads(rec)
    BY <2>4, <2>5, <2>6, <2>7 DEF ReqLoads
  <2>11. UNCHANGED <<snap, strategies>>
    BY <1>5 DEF FilterHealthy
  <2> QED  BY Zenon, <1>1, <2>8, <2>9, <2>10, <2>11
<1>6. CASE Pick(r)
  <2>0. UNCHANGED snap /\ req[r].pc = "filter"
    BY <1>6 DEF Pick
  <2>1. CASE SetReq(r, [Idle EXCEPT !.pc = "refused"]) /\ UNCHANGED strategies
    BY <1>1, <1>2, <2>0, <2>1
  <2>2. ASSUME NEW i, i = req[r].lb, NEW t, strategies' = Counted(i, t),
               SetReq(r, [Idle EXCEPT !.pc = "forward", !.lb = i, !.target = t])
        PROVE  LoadInv'
    <3>1. i \in DOMAIN strategies /\ i # 0 /\ strategies \in Seq(Strategy)
      BY <2>0, <2>2 DEF CountInv
    <3>2. ReqLoads([Idle EXCEPT !.pc = "forward", !.lb = i, !.target = t])
      BY <3>1 DEF ReqLoads, Idle
    <3>3. /\ DOMAIN strategies' = DOMAIN strategies
          /\ \A j \in DOMAIN strategies : strategies'[j].name = strategies[j].name
      BY <2>2, <3>1, NamesKept DEF Counted, SetCount
    <3> QED  BY Zenon, <2>0, <2>2, <3>2, <3>3, RequestLoads
  <2> QED  BY <1>6, <2>1, <2>2 DEF Pick
<1>7. CASE Finish(r)
  <2>1. PICK i, t : i = req[r].lb /\ t = req[r].target
    OBVIOUS
  <2>2. /\ SetReq(r, Idle) /\ strategies' = Release(i, t) /\ UNCHANGED snap
        /\ i \in {0} \cup DOMAIN strategies /\ strategies \in Seq(Strategy)
    BY <1>7, <2>1 DEF Finish, CountInv
  <2>3. /\ DOMAIN strategies' = DOMAIN strategies
        /\ \A j \in DOMAIN strategies : strategies'[j].name = strategies[j].name
    BY <2>2, NamesKept DEF Release, SetCount
  <2>4. ReqLoads(Idle)
    BY DEF ReqLoads, Idle
  <2> QED  BY Zenon, <2>2, <2>3, <2>4, RequestLoads
<1> QED  BY <1>3, <1>4, <1>5, <1>6, <1>7 DEF Serve

\* LoadInv holds at first, and every step keeps it.
LEMMA LoadInvariant == Spec => []LoadInv
<1>1. ASSUME Init
      PROVE  LoadInv
  <2>1. PICK p \in Pools : /\ strategies = <<Fresh(p.lb)>>
                           /\ snap = [targets |-> p.targets, lb |-> 1]
    BY <1>1 DEF Init
  <2>2. p.targets \in Seq(Targets)
    BY Zenon, PoolsAssumption
  <2>3. DOMAIN strategies = {1}
    BY <2>1
  <2>4. \A i \in DOMAIN strategies : i - 1 \notin DOMAIN strategies
    BY <2>3
  <2>5. ReqLoads(Idle) /\ \A r \in Requests : req[r] = Idle
    BY <1>1 DEF Init, ReqLoads, Idle
  <2>6. \A r \in Requests : ReqLoads(req[r])
    BY Zenon, <2>5
  <2>7. snap.targets \in Seq(Targets)
    BY <2>1, <2>2
  <2> QED  BY Zenon, <2>4, <2>6, <2>7 DEF LoadInv, ReqLoads
<1>2. ASSUME CountInv, LoadInv, [Next]_vars
      PROVE  LoadInv'
  <2>1. CASE UNCHANGED <<snap, strategies, req>>
    BY <1>2, <2>1 DEF LoadInv
  <2>2. CASE Reload
    BY <1>2, <2>2, ReloadLoads
  <2>3. CASE ScanTargets \/ SyncTarget \/ ProbeAll \/ UNCHANGED vars
    BY <2>1, <2>3 DEF ScanTargets, SyncTarget, ProbeAll, vars
  <2>4. ASSUME NEW u \in URLs, Check(u) \/ Flip(u)
        PROVE  LoadInv'
    BY <2>1, <2>4 DEF Check, Probe, SetStatus, Flip
  <2>5. ASSUME NEW r \in Requests, Match(r) \/ Serve(r)
        PROVE  LoadInv'
    BY <1>2, <2>5, ServeLoads
  <2> QED  BY SMTT(30), <1>2, <2>2, <2>3, <2>4, <2>5 DEF Next
<1> QED  BY <1>1, <1>2, CountInvariant, PTL DEF Spec

\* While every strategy made has the name least_conn there is one, and it counts all the
\* requests under way to a target.
LEMMA OneStrategy ==
    ASSUME CountInv, LoadInv, \A i \in DOMAIN strategies : strategies[i].name = "least_conn",
           NEW t \in Targets
    PROVE  /\ DOMAIN strategies = {1}
           /\ strategies[1].inFlight[t]
                = Cardinality({q \in Requests : req[q].pc = "forward" /\ req[q].target = t})
<1>1. PICK n : n = Len(strategies) /\ n \in Nat /\ n # 0 /\ DOMAIN strategies = 1 .. n
  BY DEF CountInv
<1>2. ~(2 <= n)
  <2> SUFFICES ASSUME 2 <= n
               PROVE  FALSE
    OBVIOUS
  <2>1. 2 \in DOMAIN strategies /\ 1 \in DOMAIN strategies /\ 2 - 1 = 1
    BY <1>1
  <2>2. strategies[2].name # strategies[1].name
    BY <2>1 DEF LoadInv
  <2> QED  BY Zenon, <2>1, <2>2
<1>3. DOMAIN strategies = {1}
  BY <1>1, <1>2
<1>4. \A q \in Requests : req[q].pc = "forward" /\ req[q].target = t => req[q].lb = 1
  <2>1. t # None
    BY Zenon, NoneAssumption
  <2>2. \A q \in Requests : req[q].lb \in {0} \cup DOMAIN strategies
    BY Zenon DEF CountInv
  <2>3. \A q \in Requests : req[q].pc = "forward" /\ req[q].lb = 0 => req[q].target = None
    BY Zenon DEF LoadInv
  <2> QED  BY Zenon, <1>3, <2>1, <2>2, <2>3
<1>5. {q \in Requests : req[q].pc = "forward" /\ req[q].target = t} = Forwarded(1, t)
  BY Zenon, <1>4 DEF Forwarded
<1>6. strategies[1].inFlight[t] = Cardinality(Forwarded(1, t))
  BY Zenon, <1>3 DEF CountInv, InFlightExact
<1> QED  BY Zenon, <1>3, <1>5, <1>6

\* As long as the strategy's name has always been least_conn, the target picked has no
\* more requests under way than any other healthy one, with any number of targets and
\* requests and however often the pool changed (LeastConn.Pick, Loader.strategyFor).
THEOREM PicksLeastLoaded == Spec => LeastLoaded
<1> DEFINE Load(t) == Cardinality({q \in Requests : req[q].pc = "forward" /\ req[q].target = t})
           Least(r) == \A t \in Elements(req[r].healthy) : Load(req'[r].target) <= Load(t)
           AllLeast == \A i \in DOMAIN strategies : strategies[i].name = "least_conn"
<1>1. ASSUME CountInv, LoadInv, Next, AllLeast, NEW r \in Requests,
             req[r].pc = "filter", req'[r].pc = "forward"
      PROVE  Least(r)
  <2>1. Pick(r)
    <3>1. ~UNCHANGED req
      BY <1>1
    <3>2. PICK q \in Requests : Match(q) \/ Serve(q)
      BY <1>1, <3>1 DEF Next, Reload, ScanTargets, SyncTarget, ProbeAll, Check, Probe, SetStatus,
                        Flip
    <3>3. q = r
      BY <1>1, <3>2 DEF CountInv, Match, Serve, ResolveTarget, FilterHealthy, Pick, Finish,
                        Refused, SetReq
    <3>4. ~FilterHealthy(r)
      BY <1>1 DEF FilterHealthy, SetReq, CountInv
    <3> QED  BY <1>1, <3>2, <3>3, <3>4 DEF Match, Serve, ResolveTarget, Finish, Refused
  <2>2. PICK healthy, i : healthy = req[r].healthy /\ i = req[r].lb
    OBVIOUS
  <2>3. /\ healthy \in Seq(Targets) /\ i \in DOMAIN strategies
    BY <1>1, <2>2 DEF LoadInv, CountInv
  <2>4. PICK t \in Choices(i, healthy) : /\ healthy # <<>>
                    /\ SetReq(r, [Idle EXCEPT !.pc = "forward", !.lb = i, !.target = t])
    BY ZenonT(40), <1>1, <2>1, <2>2 DEF Pick, SetReq, Idle, CountInv
  <2>5. req'[r].target = t
    BY <1>1, <2>4 DEF SetReq, Idle, CountInv
  <2>6. PICK n : n = strategies[i].inFlight
    OBVIOUS
  <2>7. t = LeastConn(healthy, n)
    BY Zenon, <1>1, <2>3, <2>4, <2>6 DEF Choices
  <2>8. n \in [Targets -> Nat]
    <3>1. strategies[i] \in Strategy
      BY <1>1, <2>3 DEF CountInv
    <3> QED  BY <2>6, <3>1 DEF Strategy
  <2>9. t \in Elements(healthy) /\ \A x \in Elements(healthy) : n[t] <= n[x]
    BY Zenon, <2>3, <2>4, <2>7, <2>8, LeastConnIsLeast
  <2>10. \A x \in Targets : n[x] = Load(x)
    BY Zenon, <1>1, <2>3, <2>6, OneStrategy
  <2>11. Elements(healthy) \subseteq Targets
    BY <2>3 DEF Elements
  <2> HIDE DEF Load
  <2>12. \A x \in Elements(healthy) : Load(t) <= Load(x)
    BY Zenon, <2>9, <2>10, <2>11
  <2> QED  BY Zenon, <2>2, <2>5, <2>12
<1> DEFINE Picked ==
      \A r \in Requests :
          (/\ req[r].pc = "filter" /\ req'[r].pc = "forward"
           /\ \A i \in DOMAIN strategies : strategies[i].name = "least_conn") =>
          \A t \in Elements(req[r].healthy) :
             Cardinality({q \in Requests : req[q].pc = "forward" /\ req[q].target = req'[r].target})
               <= Cardinality({q \in Requests : req[q].pc = "forward" /\ req[q].target = t})
<1>2. CountInv /\ LoadInv /\ Next => Picked
  BY Zenon, <1>1
<1>3. CountInv /\ LoadInv /\ [Next]_vars => [Picked]_vars
  BY <1>2
<1> QED  BY <1>3, CountInvariant, LoadInvariant, PTL DEF Spec, LeastLoaded

============================================================================
