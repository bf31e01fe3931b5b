--------------------------- MODULE GatewayConfig ---------------------------
(***************************************************************************)
(* From the tables of a project to the configuration its gateway serves.   *)
(* The admin API changes routes, upstreams, targets, policies, API keys    *)
(* and the JWT settings, one transaction per request.  The gateway's       *)
(* loader (src/internal/gateway/runtime/loader.go) fetches a snapshot of   *)
(* them, every interval and when /reload is called; GetTenantSnapshot      *)
(* reads each part in a transaction of its own, so that changes fall       *)
(* between the parts.  The JWT settings stand for what ProjectJWT models   *)
(* in full; custom domains are in CustomDomains.                           *)
(***************************************************************************)
EXTENDS Naturals, FiniteSets

CONSTANTS
    Routes, Upstreams, Targets, Policies, Keys,     \* row identifiers
    Values,     \* target URLs of upstreams, settings of policies and of JWT
    Loads,      \* sets of operations that administrators use together
    MaxWrites,  \* bound on the changes of the tables
    MaxFaults,  \* bound on failed reads, failed calls and crashes
    None

ASSUME BoundsAssumption == MaxWrites \in Nat /\ MaxFaults \in Nat
ASSUME NoneAssumption == None \notin Routes \cup Upstreams \cup Policies \cup Values
\* There is a name for a first route, upstream and policy, and a setting for each.
ASSUME RowsAssumption == {} \notin {Routes, Upstreams, Policies, Values}

VARIABLES
    db,         \* the tables
    rev,        \* transactions committed so far
    assign,     \* an AssignPolicy between its two statements
    gw,         \* the gateway process
    loader,     \* its two callers of reload: the ticker and /reload
    redis,      \* API keys cached in Redis
    faults,
    load        \* operations in use

vars == <<db, rev, assign, gw, loader, redis, faults, load>>

Callers == {"tick", "push"}

State == {"absent", "live", "deleted"}

DB == [route : [Routes -> [state : State, enabled : BOOLEAN,
                           up : Upstreams \cup {None}, pol : Policies \cup {None}]],
       up : [Upstreams -> [state : State, url : Values]],
       target : [Targets -> [state : State, enabled : BOOLEAN, up : Upstreams \cup {None}]],
       pol : [Policies -> [state : State, set : Values]],
       key : [Keys -> {"absent", "active", "expired", "revoked"}],
       jwt : Values]

\* A route as ListEnabled returns it, joined with its upstream and policy.
Route == [id : Routes, up : Upstreams \cup {None}, url : Values \cup {None},
          set : Values \cup {None}]

Pool == SUBSET (Targets \cup Values)

\* at is the revision a snapshot was begun at.
Gateway == [up : BOOLEAN, at : Nat, routes : SUBSET Route,
            pools : UNION {[U -> Pool] : U \in SUBSET Upstreams},
            jwt : Values \cup {None}, jwtAt : Nat, local : SUBSET Keys]

Reload == [pc : {"idle", "wait", "routes", "upstreams", "targets", "keys", "jwt", "apply",
                 "install", "local", "redis", "ok"},
           asked : Nat, at : Nat, routes : SUBSET Route,
           ups : SUBSET [id : Upstreams, url : Values],
           targets : UNION {[U -> SUBSET [id : Targets, enabled : BOOLEAN]] :
                              U \in SUBSET Upstreams},
           keys : SUBSET Keys, jwt : Values \cup {None}, jwtAt : Nat]

NoTargets == [u \in {} |-> {}]

Idle == [pc |-> "idle", asked |-> 0, at |-> 0, routes |-> {}, ups |-> {},
         targets |-> NoTargets, keys |-> {}, jwt |-> None, jwtAt |-> 0]

Down == [up |-> FALSE, at |-> 0, routes |-> {}, pools |-> NoTargets, jwt |-> None,
         jwtAt |-> 0, local |-> {}]

\* One route to one upstream under a policy, one target and one key if the operations
\* in use are about them, created while the gateway was not running yet; or a new
\* project, without any.
Seed(r, u, t, p, k, v) ==
    [route |-> [x \in Routes |->
        IF x = r /\ "new" \notin load
        THEN [state |-> "live", enabled |-> TRUE, up |-> u, pol |-> p]
        ELSE [state |-> "absent", enabled |-> FALSE, up |-> None, pol |-> None]],
     up |-> [x \in Upstreams |->
        [state |-> IF x = u /\ "new" \notin load THEN "live" ELSE "absent", url |-> v]],
     target |-> [x \in Targets |->
        IF x = t /\ "target" \in load THEN [state |-> "live", enabled |-> TRUE, up |-> u]
        ELSE [state |-> "absent", enabled |-> FALSE, up |-> None]],
     pol |-> [x \in Policies |->
        [state |-> IF x = p /\ "new" \notin load THEN "live" ELSE "absent", set |-> v]],
     key |-> [x \in Keys |-> IF x = k /\ "key" \in load THEN "active" ELSE "absent"],
     jwt |-> v]

Init ==
    /\ load \in Loads
    /\ db = Seed(CHOOSE r \in Routes : TRUE, CHOOSE u \in Upstreams : TRUE,
                 CHOOSE t \in Targets : TRUE, CHOOSE p \in Policies : TRUE,
                 CHOOSE k \in Keys : TRUE, CHOOSE v \in Values : TRUE)
    /\ rev = 0
    /\ assign = None
    /\ gw = Down
    /\ loader = [l \in Callers |-> Idle]
    /\ redis = {}
    /\ faults = 0

----------------------------------------------------------------------------
(* The statements of the repositories *)

LiveRoute(r) == db.route[r].state = "live"

LiveUpstream(u) == u # None /\ db.up[u].state = "live"

LivePolicy(p) == p # None /\ db.pol[p].state = "live"

\* Foreign keys: rows that were soft-deleted still count.
References(u, p) == db.up[u].state # "absent" /\ (p # None => db.pol[p].state # "absent")

\* Nothing checks that the upstream or the policy is live: only the foreign keys.
RouteCreate(r, u, p, e) ==
    [db EXCEPT !.route[r] = [state |-> "live", enabled |-> e, up |-> u, pol |-> p]]

RouteUpdate(r, u, p, e) ==
    [db EXCEPT !.route[r].up = u, !.route[r].pol = p, !.route[r].enabled = e]

RouteDelete(r) == [db EXCEPT !.route[r].state = "deleted"]

RouteDisable(r) == [db EXCEPT !.route[r].enabled = FALSE]

RouteEnable(r) == [db EXCEPT !.route[r].enabled = TRUE]

RouteAssignPolicy(r, p) == [db EXCEPT !.route[r].pol = p]

RouteRemovePolicy(r) == [db EXCEPT !.route[r].pol = None]

UpstreamCreate(u, v) == [db EXCEPT !.up[u] = [state |-> "live", url |-> v]]

UpstreamUpdate(u, v) == [db EXCEPT !.up[u].url = v]

\* The routes lose their reference, and the targets go, with the upstream.
UpstreamDelete(u) ==
    [db EXCEPT !.up[u].state = "deleted",
               !.route = [r \in Routes |->
                   IF db.route[r].up = u /\ LiveRoute(r) THEN [db.route[r] EXCEPT !.up = None]
                   ELSE db.route[r]],
               !.target = [t \in Targets |->
                   IF db.target[t].up = u /\ db.target[t].state = "live"
                   THEN [db.target[t] EXCEPT !.state = "deleted"] ELSE db.target[t]]]

TargetAdd(t, u, e) == [db EXCEPT !.target[t] = [state |-> "live", enabled |-> e, up |-> u]]

TargetRemove(t) == [db EXCEPT !.target[t].state = "deleted"]

PolicyCreate(p, v) == [db EXCEPT !.pol[p] = [state |-> "live", set |-> v]]

PolicyUpdate(p, v) == [db EXCEPT !.pol[p].set = v]

\* The routes lose their reference with the policy.
PolicyDelete(p) ==
    [db EXCEPT !.pol[p].state = "deleted",
               !.route = [r \in Routes |->
                   IF db.route[r].pol = p /\ LiveRoute(r) THEN [db.route[r] EXCEPT !.pol = None]
                   ELSE db.route[r]]]

KeyCreate(k) == [db EXCEPT !.key[k] = "active"]

KeyRevoke(k) == [db EXCEPT !.key[k] = "revoked"]

\* The replacement inherits expires_at; both rows change in one transaction.
KeyRotate(k, new) == [db EXCEPT !.key[k] = "revoked", !.key[new] = db.key[k]]

\* A transaction of an operation in use commits.
Commit(op, d) ==
    /\ op \in load
    /\ rev < MaxWrites
    /\ db' = d
    /\ rev' = rev + 1
    /\ UNCHANGED <<gw, loader, redis, faults, load>>

----------------------------------------------------------------------------
(* The handlers of the admin API *)

CreateRoute ==
    \E r \in Routes, u \in Upstreams, p \in Policies \cup {None}, e \in BOOLEAN :
        /\ db.route[r].state = "absent" /\ References(u, p)
        /\ Commit("route", RouteCreate(r, u, p, e))
        /\ UNCHANGED assign

UpdateRoute ==
    \E r \in Routes, u \in Upstreams, p \in Policies \cup {None}, e \in BOOLEAN :
        /\ LiveRoute(r) /\ References(u, p)
        /\ Commit("route", RouteUpdate(r, u, p, e))
        /\ UNCHANGED assign

DeleteRoute ==
    \E r \in Routes :
        /\ LiveRoute(r)
        /\ Commit("route", RouteDelete(r))
        /\ UNCHANGED assign

DisableRoute ==
    \E r \in Routes :
        /\ LiveRoute(r)
        /\ Commit("switch", RouteDisable(r))
        /\ UNCHANGED assign

EnableRoute ==
    \E r \in Routes :
        /\ LiveRoute(r)
        /\ Commit("switch", RouteEnable(r))
        /\ UNCHANGED assign

\* The enabled flag of an upstream is stored; nothing on the gateway's path reads it.
CreateUpstream ==
    \E u \in Upstreams, v \in Values :
        /\ db.up[u].state = "absent"
        /\ Commit("upstream", UpstreamCreate(u, v))
        /\ UNCHANGED assign

UpdateUpstream ==
    \E u \in Upstreams, v \in Values :
        /\ LiveUpstream(u)
        /\ Commit("upstream", UpstreamUpdate(u, v))
        /\ UNCHANGED assign

DeleteUpstream ==
    \E u \in Upstreams :
        /\ LiveUpstream(u)
        /\ Commit("deleteUpstream", UpstreamDelete(u))
        /\ UNCHANGED assign

\* Also to an upstream that was soft-deleted.
AddTarget ==
    \E t \in Targets, u \in Upstreams, e \in BOOLEAN :
        /\ db.target[t].state = "absent" /\ db.up[u].state # "absent"
        /\ Commit("target", TargetAdd(t, u, e))
        /\ UNCHANGED assign

RemoveTarget ==
    \E t \in Targets :
        /\ db.target[t].state = "live"
        /\ Commit("target", TargetRemove(t))
        /\ UNCHANGED assign

CreatePolicy ==
    \E p \in Policies, v \in Values :
        /\ db.pol[p].state = "absent"
        /\ Commit("policy", PolicyCreate(p, v))
        /\ UNCHANGED assign

UpdatePolicy ==
    \E p \in Policies, v \in Values :
        /\ LivePolicy(p)
        /\ Commit("policy", PolicyUpdate(p, v))
        /\ UNCHANGED assign

DeletePolicy ==
    \E p \in Policies :
        /\ LivePolicy(p)
        /\ Commit("policy", PolicyDelete(p))
        /\ UNCHANGED assign

\* The first statement looks for the policy ...
CheckPolicy ==
    /\ "policy" \in load /\ assign = None
    /\ \E r \in Routes, p \in Policies : LivePolicy(p) /\ assign' = [route |-> r, pol |-> p]
    /\ UNCHANGED <<db, rev, gw, loader, redis, faults, load>>

\* ... and the second assigns it, deleted by now or not.
AssignPolicy ==
    /\ assign # None
    /\ assign' = None
    /\ \/ LiveRoute(assign.route)
          /\ Commit("policy", RouteAssignPolicy(assign.route, assign.pol))
       \/ UNCHANGED <<db, rev, gw, loader, redis, faults, load>>

RemovePolicy ==
    \E r \in Routes :
        /\ LiveRoute(r)
        /\ Commit("policy", RouteRemovePolicy(r))
        /\ UNCHANGED assign

CreateApiKey ==
    \E k \in Keys :
        /\ db.key[k] = "absent"
        /\ Commit("key", KeyCreate(k))
        /\ UNCHANGED assign

RevokeApiKey ==
    \E k \in Keys :
        /\ db.key[k] \in {"active", "expired"}
        /\ Commit("key", KeyRevoke(k))
        /\ UNCHANGED assign

RotateApiKey ==
    \E k, new \in Keys :
        /\ db.key[k] \in {"active", "expired"} /\ db.key[new] = "absent"
        /\ Commit("key", KeyRotate(k, new))
        /\ UNCHANGED assign

\* expires_at passes: time, not a transaction, but the snapshot compares it.
KeyExpires ==
    \E k \in Keys :
        /\ db.key[k] = "active"
        /\ Commit("key", [db EXCEPT !.key[k] = "expired"])
        /\ UNCHANGED assign

UpdateJWT ==
    \E v \in Values :
        /\ Commit("jwt", [db EXCEPT !.jwt = v])
        /\ UNCHANGED assign

----------------------------------------------------------------------------
(* GetTenantSnapshot, part by part, on behalf of a reload *)

\* Mutant: the join does not ask for deleted_at IS NULL.
ListEnabled_Deleted ==
    {[id |-> r, up |-> db.route[r].up,
      url |-> IF db.route[r].up # None THEN db.up[db.route[r].up].url ELSE None,
      set |-> IF db.route[r].pol # None THEN db.pol[db.route[r].pol].set ELSE None] :
       r \in {x \in Routes : LiveRoute(x) /\ db.route[x].enabled}}

\* listQuery
ListEnabled ==
    {[id |-> r, up |-> db.route[r].up,
      url |-> IF LiveUpstream(db.route[r].up) THEN db.up[db.route[r].up].url ELSE None,
      set |-> IF LivePolicy(db.route[r].pol) THEN db.pol[db.route[r].pol].set ELSE None] :
       r \in {x \in Routes : LiveRoute(x) /\ db.route[x].enabled}}

\* Mutant: an inner join with the targets.
ListUpstreams_Joined ==
    {[id |-> u, url |-> db.up[u].url] :
       u \in {x \in Upstreams : LiveUpstream(x)
                 /\ \E t \in Targets : db.target[t].state = "live" /\ db.target[t].up = x}}

ListUpstreams == {[id |-> u, url |-> db.up[u].url] : u \in {x \in Upstreams : LiveUpstream(x)}}

ListByUpstream(u) ==
    {[id |-> t, enabled |-> db.target[t].enabled] :
       t \in {x \in Targets : db.target[x].state = "live" /\ db.target[x].up = u
                              /\ LiveUpstream(u)}}

\* Status and expires_at are compared in Go.
ActiveKeys == {k \in Keys : db.key[k] = "active"}

Fault == faults < MaxFaults /\ faults' = faults + 1

Set(l, rec) == loader' = [loader EXCEPT ![l] = rec]

Steps == UNCHANGED <<db, rev, assign, gw, redis, load>>

ReadRoutes(l) ==
    /\ loader[l].pc = "routes"
    /\ Set(l, [loader[l] EXCEPT !.pc = "upstreams", !.routes = ListEnabled, !.at = rev])
    /\ Steps /\ UNCHANGED faults

ReadUpstreams(l) ==
    /\ loader[l].pc = "upstreams"
    /\ Set(l, [loader[l] EXCEPT !.pc = "targets", !.ups = ListUpstreams])
    /\ Steps /\ UNCHANGED faults

\* One upstream after the other; one whose targets cannot be read is left out.
ReadTargets(l) ==
    /\ loader[l].pc = "targets"
    /\ LET todo == {x.id : x \in loader[l].ups} \ DOMAIN loader[l].targets IN
       \/ todo = {} /\ Set(l, [loader[l] EXCEPT !.pc = "keys"]) /\ UNCHANGED faults
       \/ \E u \in todo : \E ts \in {ListByUpstream(u), {}} :
            /\ Set(l, [loader[l] EXCEPT !.targets =
                         [x \in DOMAIN @ \cup {u} |-> IF x = u THEN ts ELSE @[x]]])
            /\ IF ts = ListByUpstream(u) THEN UNCHANGED faults ELSE Fault
    /\ Steps

ReadKeys(l) ==
    /\ loader[l].pc = "keys"
    /\ Set(l, [loader[l] EXCEPT !.pc = "jwt", !.keys = ActiveKeys])
    /\ Steps /\ UNCHANGED faults

ReadJWT(l) ==
    /\ loader[l].pc = "jwt"
    /\ Set(l, [loader[l] EXCEPT !.pc = "apply", !.jwt = db.jwt, !.jwtAt = rev])
    /\ Steps /\ UNCHANGED faults

\* A part cannot be read, or the answer is lost: the last good snapshot stays.
FetchFails(l) ==
    /\ loader[l].pc \in {"routes", "upstreams", "targets", "keys", "jwt"}
    /\ Set(l, Idle)
    /\ Fault
    /\ Steps

----------------------------------------------------------------------------
(* Loader.reload *)

\* The ticker, or Start when the process begins.
Tick ==
    /\ loader["tick"] = Idle
    /\ Set("tick", [Idle EXCEPT !.pc = "wait"])
    /\ Steps /\ UNCHANGED faults

\* POST /reload with the gateway's token, once Start has succeeded.
PostReload ==
    /\ gw.up
    /\ loader["push"].pc \in {"idle", "ok"}
    /\ Set("push", [Idle EXCEPT !.pc = "wait", !.asked = rev])
    /\ Steps /\ UNCHANGED faults

Holds(l) == loader[l].pc \notin {"idle", "wait", "ok"}

\* Mutant: a reload that finds another one running leaves the work to it.
Lock_Try(l) ==
    /\ loader[l].pc = "wait"
    /\ IF \E k \in Callers : Holds(k) THEN Set(l, [loader[l] EXCEPT !.pc = "ok"])
       ELSE Set(l, [loader[l] EXCEPT !.pc = "routes"])
    /\ Steps /\ UNCHANGED faults

\* reloadMu
Lock(l) ==
    /\ loader[l].pc = "wait"
    /\ \A k \in Callers : ~Holds(k)
    /\ Set(l, [loader[l] EXCEPT !.pc = "routes"])
    /\ Steps /\ UNCHANGED faults

\* Mutant: the snapshot is activated although Apply failed.
Apply_Ignored(l) ==
    /\ loader[l].pc = "apply"
    /\ Set(l, [loader[l] EXCEPT !.pc = "install"])
    /\ \/ /\ gw' = [gw EXCEPT !.jwt = loader[l].jwt, !.jwtAt = loader[l].jwtAt]
          /\ UNCHANGED faults
       \/ Fault /\ UNCHANGED gw
    /\ UNCHANGED <<db, rev, assign, redis, load>>

\* The JWT settings come first; when they cannot be applied nothing else changes.
Apply(l) ==
    /\ loader[l].pc = "apply"
    /\ \/ /\ gw' = [gw EXCEPT !.jwt = loader[l].jwt, !.jwtAt = loader[l].jwtAt]
          /\ Set(l, [loader[l] EXCEPT !.pc = "install"])
          /\ UNCHANGED faults
       \/ Fault /\ Set(l, Idle) /\ UNCHANGED gw
    /\ UNCHANGED <<db, rev, assign, redis, load>>

\* Enabled targets, or the upstream's own URL when there are none.
BuildPools(ups, targets) ==
    [u \in {x.id : x \in ups} |->
        LET ts == {t.id : t \in {x \in targets[u] : x.enabled}} IN
        IF ts # {} THEN ts ELSE {x.url : x \in {y \in ups : y.id = u}}]

\* The snapshot is exchanged as a whole; syncHealthTargets is in UpstreamPools.
Install(l) ==
    /\ loader[l].pc = "install"
    /\ gw' = [gw EXCEPT !.at = loader[l].at, !.routes = loader[l].routes,
                        !.pools = BuildPools(loader[l].ups, loader[l].targets)]
    /\ Set(l, [Idle EXCEPT !.pc = "local", !.asked = loader[l].asked, !.keys = loader[l].keys])
    /\ UNCHANGED <<db, rev, assign, redis, faults, load>>

\* Mutant: keys are added to the map in use.
UpdateLocalKeys_Merged(keys) == gw.local \cup keys

\* The map is replaced.
UpdateLocalKeys(keys) == keys

WarmLocal(l) ==
    /\ loader[l].pc = "local"
    /\ gw' = [gw EXCEPT !.local = UpdateLocalKeys(loader[l].keys)]
    /\ Set(l, [loader[l] EXCEPT !.pc = "redis"])
    /\ UNCHANGED <<db, rev, assign, redis, faults, load>>

\* Entries that cannot be written are skipped.  Then the process serves, if it was
\* starting.
WarmRedis(l) ==
    /\ loader[l].pc = "redis"
    /\ \E ks \in SUBSET loader[l].keys :
         /\ IF ks = loader[l].keys THEN UNCHANGED faults ELSE Fault
         /\ redis' = redis \cup ks
    /\ gw' = [gw EXCEPT !.up = TRUE]
    /\ Set(l, IF l = "push" THEN [Idle EXCEPT !.pc = "ok", !.asked = loader[l].asked] ELSE Idle)
    /\ UNCHANGED <<db, rev, assign, load>>

\* Ten minutes after it was written last.
RedisExpires(k) ==
    /\ k \in redis
    /\ redis' = redis \ {k}
    /\ UNCHANGED <<db, rev, assign, gw, loader, faults, load>>

\* The gateway process ends, and is started again; Redis stays.
Crash ==
    /\ gw.up
    /\ gw' = Down
    /\ loader' = [l \in Callers |-> Idle]
    /\ Fault
    /\ UNCHANGED <<db, rev, assign, redis, load>>

\* RedisKeyStore.ValidateWithContext of a gateway, which has no database
Accepts(k) == gw.up /\ (k \in gw.local \/ k \in redis)

----------------------------------------------------------------------------

Write ==
    \/ CreateRoute \/ UpdateRoute \/ DeleteRoute \/ DisableRoute \/ EnableRoute
    \/ CreateUpstream \/ UpdateUpstream \/ DeleteUpstream \/ AddTarget \/ RemoveTarget
    \/ CreatePolicy \/ UpdatePolicy \/ DeletePolicy
    \/ CheckPolicy \/ AssignPolicy \/ RemovePolicy
    \/ CreateApiKey \/ RevokeApiKey \/ RotateApiKey \/ KeyExpires \/ UpdateJWT

Step(l) ==
    \/ Lock(l) \/ ReadRoutes(l) \/ ReadUpstreams(l) \/ ReadTargets(l) \/ ReadKeys(l)
    \/ ReadJWT(l) \/ FetchFails(l) \/ Apply(l) \/ Install(l) \/ WarmLocal(l) \/ WarmRedis(l)

Next ==
    \/ Write
    \/ Tick \/ PostReload \/ Crash
    \/ \E l \in Callers : Step(l)
    \/ \E k \in Keys : RedisExpires(k)

Spec == Init /\ [][Next]_vars

\* The ticker ticks, a reload that has begun goes on, one that waits for a free mutex
\* gets it, and entries of Redis run out.
FairSpec ==
    /\ Spec
    /\ WF_vars(Tick)
    /\ \A l \in Callers : WF_vars(Step(l))
    /\ \A k \in Keys : WF_vars(RedisExpires(k))

----------------------------------------------------------------------------
(* Properties *)

TypeOK ==
    /\ db \in DB /\ rev \in 0 .. MaxWrites /\ faults \in 0 .. MaxFaults
    /\ assign \in [route : Routes, pol : Policies] \cup {None}
    /\ gw.routes \subseteq Route /\ gw.at \in Nat /\ gw.jwtAt \in Nat
    /\ gw.up \in BOOLEAN /\ gw.jwt \in Values \cup {None} /\ gw.local \subseteq Keys
    /\ \A u \in DOMAIN gw.pools : u \in Upstreams /\ gw.pools[u] \in Pool \ {{}}
    /\ redis \subseteq Keys
    /\ load \in Loads

\* When /reload answers "routes cache refreshed", the gateway serves the tables as they
\* were when it was called, or newer, whatever reload was under way then.
ReloadTakesEffect == loader["push"].pc = "ok" => gw.at >= loader["push"].asked

\* "do not activate the new route snapshot": the routes served are never newer than the
\* JWT settings requests to them are checked against, although both are exchanged
\* separately and the second exchange may fail.
JWTNeverBehindRoutes == gw.up => gw.jwtAt >= gw.at

\* GetTenantSnapshot reads routes before upstreams: a route that is served without a
\* pool for its upstream refers to one that has been deleted, never to one that was
\* created while the snapshot was read.
ServedRouteResolves ==
    gw.up => \A r \in gw.routes :
        r.up # None => r.up \in DOMAIN gw.pools \/ db.up[r.up].state = "deleted"

\* What a gateway that is up to date serves.
InSync ==
    /\ gw.up
    /\ {r.id : r \in gw.routes} = {r \in Routes : LiveRoute(r) /\ db.route[r].enabled}
    /\ \A r \in gw.routes :
         /\ r.up = db.route[r.id].up
         /\ r.set # None <=> \E p \in Policies : LivePolicy(p) /\ db.route[r.id].pol = p
         /\ r.set # None => r.set = db.pol[db.route[r.id].pol].set
    /\ DOMAIN gw.pools = {u \in Upstreams : LiveUpstream(u)}
    /\ \A u \in DOMAIN gw.pools : \A t \in Targets :
         t \in gw.pools[u] <=> db.target[t].state = "live" /\ db.target[t].up = u
                               /\ db.target[t].enabled
    /\ gw.local = {k \in Keys : db.key[k] = "active"}
    /\ gw.jwt = db.jwt

\* Through failed reads, lost answers, secrets that cannot be read and crashes, the
\* gateway serves exactly what the tables say once they stop changing (Loader.loop);
\* a policy assigned while it was being deleted has no effect.
Converges == <>[][FALSE]_db => <>[]InSync

\* A key that was revoked, rotated away or has expired stops being accepted for good,
\* although a reload that read it before can still put it back into both caches
\* (UpdateLocalKeys, WarmAPIKeyCache).
RevocationReaches ==
    <>[](\A k \in Keys : db.key[k] \in {"expired", "revoked"} => ~Accepts(k))

=============================================================================
