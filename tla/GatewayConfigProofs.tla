------------------------ MODULE GatewayConfigProofs -------------------------
(***************************************************************************)
(* Proofs about GatewayConfig, for any tables, any number of changes and   *)
(* faults, and any interleaving of the two callers of reload.              *)
(*                                                                         *)
(* TablesInv is about the database alone.  ReloadInv says what a reload    *)
(* knows at each point of its handler, relative to the gateway it is going *)
(* to change and to tables that go on changing; it needs reloadMu          *)
(* (OneReload), since two snapshots installed out of order would break it. *)
(***************************************************************************)
EXTENDS GatewayConfig, TLAPS

\* Foreign keys: the upstream of a route exists, or existed.
TablesInv(d) ==
    /\ d \in DB
    /\ \A r \in Routes : d.route[r].up # None => d.up[d.route[r].up].state # "absent"

\* Upstreams are never forgotten and never come back.
Later(d, e) ==
    \A u \in Upstreams :
        /\ d.up[u].state # "absent" => e.up[u].state # "absent"
        /\ d.up[u].state = "deleted" => e.up[u].state = "deleted"

Ids(ups) == {x.id : x \in ups}

Known(rs, d) == \A r \in rs : r.up # None => d.up[r.up].state # "absent"

\* Every route has its upstream among us, unless that is deleted by now.
Resolved(rs, us, d) ==
    \A r \in rs : r.up # None => r.up \in us \/ d.up[r.up].state = "deleted"

\* A reload that has read all targets, and one that has read the upstreams.
Complete == {"keys", "jwt", "apply", "install"}
Fetched == Complete \cup {"targets"}

\* What a reload knows about the gateway g, the revision n and the tables d.
ReloadInv(j, g, n, d) ==
    /\ j \in Reload
    /\ j.asked <= n
    /\ j.pc = "upstreams" => Known(j.routes, d)
    /\ j.pc \in Fetched => Resolved(j.routes, Ids(j.ups), d)
    /\ j.pc \in Complete => Ids(j.ups) \subseteq DOMAIN j.targets
    /\ j.pc \in Fetched \cup {"upstreams"} => j.asked <= j.at /\ g.at <= j.at /\ j.at <= n
    /\ j.pc \in {"apply", "install"} => j.at <= j.jwtAt /\ j.jwtAt <= n
    /\ j.pc = "install" => g.jwtAt = j.jwtAt
    /\ j.pc \in {"local", "redis", "ok"} => j.asked <= g.at

GatewayInv(g, n, d) ==
    /\ g \in Gateway
    /\ \A u \in DOMAIN g.pools : g.pools[u] # {}
    /\ g.at <= g.jwtAt /\ g.at <= n
    /\ Resolved(g.routes, DOMAIN g.pools, d)

\* reloadMu
OneReload == \A k, l \in Callers : Holds(k) /\ Holds(l) => k = l

IInv ==
    /\ TablesInv(db)
    /\ rev \in 0 .. MaxWrites /\ faults \in 0 .. MaxFaults
    /\ assign \in [route : Routes, pol : Policies] \cup {None}
    /\ redis \subseteq Keys /\ load \in Loads
    /\ loader = [l \in Callers |-> loader[l]]
    /\ \A l \in Callers : ReloadInv(loader[l], gw, rev, db)
    /\ GatewayInv(gw, rev, db)
    /\ OneReload
----------------------------------------------------------------------------
(* The tables *)

RouteRow == [state : State, enabled : BOOLEAN, up : Upstreams \cup {None},
             pol : Policies \cup {None}]

\* New route rows whose upstreams exist, or no longer any, keep the tables consistent.
LEMMA RoutesWritten ==
    ASSUME TablesInv(db), NEW rt \in [Routes -> RouteRow],
           \A r \in Routes : rt[r].up # None => db.up[rt[r].up].state # "absent"
    PROVE  TablesInv([db EXCEPT !.route = rt]) /\ Later(db, [db EXCEPT !.route = rt])
<1>1. [db EXCEPT !.route = rt] \in DB
  BY Zenon DEF TablesInv, DB, RouteRow
<1>2. [db EXCEPT !.route = rt].route = rt /\ [db EXCEPT !.route = rt].up = db.up
  BY Zenon DEF TablesInv, DB
<1>. QED
  BY Zenon, <1>1, <1>2 DEF TablesInv, Later

\* Of the statements on routes, none makes a route refer to an upstream that never was.
LEMMA RouteStatements ==
    ASSUME TablesInv(db), NEW r \in Routes
    PROVE  /\ \A u \in Upstreams, p \in Policies \cup {None}, e \in BOOLEAN :
                References(u, p) =>
                  /\ TablesInv(RouteCreate(r, u, p, e)) /\ Later(db, RouteCreate(r, u, p, e))
                  /\ TablesInv(RouteUpdate(r, u, p, e)) /\ Later(db, RouteUpdate(r, u, p, e))
           /\ TablesInv(RouteDelete(r)) /\ Later(db, RouteDelete(r))
           /\ TablesInv(RouteDisable(r)) /\ Later(db, RouteDisable(r))
           /\ TablesInv(RouteEnable(r)) /\ Later(db, RouteEnable(r))
           /\ \A p \in Policies : /\ TablesInv(RouteAssignPolicy(r, p))
                                  /\ Later(db, RouteAssignPolicy(r, p))
           /\ TablesInv(RouteRemovePolicy(r)) /\ Later(db, RouteRemovePolicy(r))
<1>0. /\ db.route \in [Routes -> RouteRow] /\ db \in DB
      /\ \A q \in Routes : db.route[q].up # None => db.up[db.route[q].up].state # "absent"
  BY Zenon DEF TablesInv, DB, RouteRow
<1>1. ASSUME NEW row \in RouteRow, row.up # None => db.up[row.up].state # "absent"
      PROVE  LET d == [db EXCEPT !.route = [db.route EXCEPT ![r] = row]]
             IN  TablesInv(d) /\ Later(db, d)
  <2>1. [db.route EXCEPT ![r] = row] \in [Routes -> RouteRow]
    BY Zenon, <1>0, <1>1
  <2>2. \A q \in Routes : [db.route EXCEPT ![r] = row][q].up # None =>
            db.up[[db.route EXCEPT ![r] = row][q].up].state # "absent"
    BY Zenon, <1>0, <1>1
  <2>. QED
    BY Zenon, <2>1, <2>2, RoutesWritten
<1>2. ASSUME NEW u \in Upstreams, NEW p \in Policies \cup {None}, NEW e \in BOOLEAN,
             References(u, p)
      PROVE  /\ TablesInv(RouteCreate(r, u, p, e)) /\ Later(db, RouteCreate(r, u, p, e))
             /\ TablesInv(RouteUpdate(r, u, p, e)) /\ Later(db, RouteUpdate(r, u, p, e))
  <2>1. PICK row \in RouteRow : row = [state |-> "live", enabled |-> e, up |-> u, pol |-> p]
    BY Zenon DEF RouteRow, State
  <2>2. row.up = u /\ db.up[u].state # "absent"
    BY Zenon, <1>2, <2>1 DEF References
  <2>3. RouteCreate(r, u, p, e) = [db EXCEPT !.route = [db.route EXCEPT ![r] = row]]
    BY Zenon, <1>0, <2>1 DEF RouteCreate, DB
  <2>4. PICK new \in RouteRow : new = [db.route[r] EXCEPT !.up = u, !.pol = p, !.enabled = e]
    BY Zenon, <1>0 DEF RouteRow
  <2>5. new.up = u
    BY Zenon, <1>0, <2>4 DEF RouteRow
  <2>6. RouteUpdate(r, u, p, e) = [db EXCEPT !.route = [db.route EXCEPT ![r] = new]]
    BY <1>0, <2>4 DEF RouteUpdate, DB, RouteRow
  <2>. QED
    BY Zenon, <1>1, <2>2, <2>3, <2>5, <2>6
<1>3. TablesInv(RouteDelete(r)) /\ Later(db, RouteDelete(r))
  <2>1. PICK row \in RouteRow : row = [db.route[r] EXCEPT !.state = "deleted"]
    BY Zenon, <1>0 DEF RouteRow, State
  <2>2. row.up = db.route[r].up
    BY Zenon, <1>0, <2>1 DEF RouteRow
  <2>3. RouteDelete(r) = [db EXCEPT !.route = [db.route EXCEPT ![r] = row]]
    BY Zenon, <1>0, <2>1 DEF RouteDelete, DB
  <2>. QED
    BY Zenon, <1>0, <1>1, <2>2, <2>3
<1>4. TablesInv(RouteDisable(r)) /\ Later(db, RouteDisable(r))
  <2>1. PICK row \in RouteRow : row = [db.route[r] EXCEPT !.enabled = FALSE]
    BY Zenon, <1>0 DEF RouteRow
  <2>2. row.up = db.route[r].up
    BY Zenon, <1>0, <2>1 DEF RouteRow
  <2>3. RouteDisable(r) = [db EXCEPT !.route = [db.route EXCEPT ![r] = row]]
    BY Zenon, <1>0, <2>1 DEF RouteDisable, DB
  <2>. QED
    BY Zenon, <1>0, <1>1, <2>2, <2>3
<1>5. TablesInv(RouteEnable(r)) /\ Later(db, RouteEnable(r))
  <2>1. PICK row \in RouteRow : row = [db.route[r] EXCEPT !.enabled = TRUE]
    BY Zenon, <1>0 DEF RouteRow
  <2>2. row.up = db.route[r].up
    BY Zenon, <1>0, <2>1 DEF RouteRow
  <2>3. RouteEnable(r) = [db EXCEPT !.route = [db.route EXCEPT ![r] = row]]
    BY Zenon, <1>0, <2>1 DEF RouteEnable, DB
  <2>. QED
    BY Zenon, <1>0, <1>1, <2>2, <2>3
<1>6. ASSUME NEW p \in Policies \cup {None}
      PROVE  LET d == [db EXCEPT !.route[r].pol = p] IN TablesInv(d) /\ Later(db, d)
  <2>1. PICK row \in RouteRow : row = [db.route[r] EXCEPT !.pol = p]
    BY Zenon, <1>0 DEF RouteRow
  <2>2. row.up = db.route[r].up
    BY Zenon, <1>0, <2>1 DEF RouteRow
  <2>3. [db EXCEPT !.route[r].pol = p] = [db EXCEPT !.route = [db.route EXCEPT ![r] = row]]
    BY Zenon, <1>0, <2>1 DEF DB
  <2>. QED
    BY Zenon, <1>0, <1>1, <2>2, <2>3
<1>. QED
  BY Zenon, <1>2, <1>3, <1>4, <1>5, <1>6 DEF RouteAssignPolicy, RouteRemovePolicy

\* UpstreamDelete takes the upstream away from live routes; deleted ones keep it.
LEMMA UpstreamStatements ==
    ASSUME TablesInv(db), NEW u \in Upstreams, NEW v \in Values
    PROVE  /\ db.up[u].state = "absent" =>
                TablesInv(UpstreamCreate(u, v)) /\ Later(db, UpstreamCreate(u, v))
           /\ LiveUpstream(u) =>
                TablesInv(UpstreamUpdate(u, v)) /\ Later(db, UpstreamUpdate(u, v))
           /\ TablesInv(UpstreamDelete(u)) /\ Later(db, UpstreamDelete(u))
<1>. DEFINE UpRow == [state : State, url : Values]
<1>0. /\ db \in DB /\ db.up \in [Upstreams -> UpRow] /\ db.route \in [Routes -> RouteRow]
      /\ \A q \in Routes : db.route[q].up # None => db.up[db.route[q].up].state # "absent"
  BY Zenon DEF TablesInv, DB, RouteRow
<1>1. ASSUME NEW row \in UpRow, row.state # "absent",
             db.up[u].state = "deleted" => row.state = "deleted"
      PROVE  LET d == [db EXCEPT !.up = [db.up EXCEPT ![u] = row]]
             IN  TablesInv(d) /\ Later(db, d)
  <2>. DEFINE d == [db EXCEPT !.up = [db.up EXCEPT ![u] = row]]
  <2>1. d \in DB
    BY Zenon, <1>0, <1>1 DEF DB
  <2>2. d.up = [db.up EXCEPT ![u] = row] /\ d.route = db.route
    BY Zenon, <1>0 DEF DB
  <2>3. \A x \in Upstreams : d.up[x] = IF x = u THEN row ELSE db.up[x]
    BY Zenon, <1>0, <2>2
  <2>4. \A q \in Routes : db.route[q].up \in Upstreams \cup {None}
    BY Zenon, <1>0 DEF RouteRow
  <2>. HIDE DEF d
  <2>5. TablesInv(d) /\ Later(db, d)
    BY <1>0, <1>1, <2>1, <2>2, <2>3, <2>4, NoneAssumption DEF TablesInv, Later
  <2>. QED
    BY Zenon, <2>5 DEF d
<1>2. db.up[u].state = "absent" =>
          TablesInv(UpstreamCreate(u, v)) /\ Later(db, UpstreamCreate(u, v))
  <2>1. PICK row \in UpRow : row = [state |-> "live", url |-> v]
    BY Zenon DEF State
  <2>2. UpstreamCreate(u, v) = [db EXCEPT !.up = [db.up EXCEPT ![u] = row]]
    BY Zenon, <1>0, <2>1 DEF UpstreamCreate, DB
  <2>. QED
    BY Zenon, <1>1, <2>1, <2>2
<1>3. LiveUpstream(u) => TablesInv(UpstreamUpdate(u, v)) /\ Later(db, UpstreamUpdate(u, v))
  <2>1. PICK row \in UpRow : row = [db.up[u] EXCEPT !.url = v]
    BY Zenon, <1>0
  <2>2. row.state = db.up[u].state
    BY Zenon, <1>0, <2>1
  <2>3. UpstreamUpdate(u, v) = [db EXCEPT !.up = [db.up EXCEPT ![u] = row]]
    BY Zenon, <1>0, <2>1 DEF UpstreamUpdate, DB
  <2>. QED
    BY Zenon, <1>1, <2>2, <2>3 DEF LiveUpstream
<1>4. TablesInv(UpstreamDelete(u)) /\ Later(db, UpstreamDelete(u))
  <2>1. PICK row \in UpRow : row = [db.up[u] EXCEPT !.state = "deleted"]
    BY Zenon, <1>0 DEF State
  <2>2. row.state = "deleted"
    BY Zenon, <1>0, <2>1
  <2>3. PICK d : d = [db EXCEPT !.up = [db.up EXCEPT ![u] = row]]
    BY Zenon
  <2>4. PICK rt : rt = [r \in Routes |->
                   IF db.route[r].up = u /\ LiveRoute(r) THEN [db.route[r] EXCEPT !.up = None]
                   ELSE db.route[r]]
    BY Zenon
  <2>5. PICK tg : tg = [t \in Targets |->
                   IF db.target[t].up = u /\ db.target[t].state = "live"
                   THEN [db.target[t] EXCEPT !.state = "deleted"] ELSE db.target[t]]
    BY Zenon
  <2>6. TablesInv(d) /\ Later(db, d)
    BY Zenon, <1>1, <2>2, <2>3
  <2>7. rt \in [Routes -> RouteRow]
    BY <1>0, <2>4 DEF RouteRow
  <2>8. \A r \in Routes : rt[r].up = db.route[r].up \/ rt[r].up = None
    BY Zenon, <1>0, <2>4 DEF RouteRow
  <2>9. tg \in [Targets -> [state : State, enabled : BOOLEAN, up : Upstreams \cup {None}]]
    BY <1>0, <2>5 DEF DB, State
  <2>10. UpstreamDelete(u) = [d EXCEPT !.route = rt, !.target = tg]
    BY Zenon, <1>0, <2>1, <2>3, <2>4, <2>5 DEF UpstreamDelete, DB
  <2>11. /\ UpstreamDelete(u) \in DB
         /\ UpstreamDelete(u).up = d.up /\ UpstreamDelete(u).route = rt
         /\ d.route = db.route
    BY <1>0, <2>3, <2>6, <2>7, <2>9, <2>10 DEF TablesInv, DB, RouteRow
  <2>. QED
    BY <2>6, <2>8, <2>11 DEF TablesInv, Later
<1>. QED
  BY Zenon, <1>2, <1>3, <1>4

\* The other tables have no part in TablesInv but their types.
LEMMA OtherStatements ==
    ASSUME TablesInv(db)
    PROVE  /\ \A t \in Targets, u \in Upstreams, e \in BOOLEAN :
                TablesInv(TargetAdd(t, u, e)) /\ Later(db, TargetAdd(t, u, e))
           /\ \A t \in Targets : TablesInv(TargetRemove(t)) /\ Later(db, TargetRemove(t))
           /\ \A p \in Policies, v \in Values :
                /\ TablesInv(PolicyCreate(p, v)) /\ Later(db, PolicyCreate(p, v))
                /\ TablesInv(PolicyUpdate(p, v)) /\ Later(db, PolicyUpdate(p, v))
           /\ \A p \in Policies : TablesInv(PolicyDelete(p)) /\ Later(db, PolicyDelete(p))
           /\ \A k \in Keys :
                /\ TablesInv(KeyCreate(k)) /\ Later(db, KeyCreate(k))
                /\ TablesInv(KeyRevoke(k)) /\ Later(db, KeyRevoke(k))
                /\ LET d == [db EXCEPT !.key[k] = "expired"] IN TablesInv(d) /\ Later(db, d)
           /\ \A k, n \in Keys : TablesInv(KeyRotate(k, n)) /\ Later(db, KeyRotate(k, n))
           /\ \A v \in Values :
                LET d == [db EXCEPT !.jwt = v] IN TablesInv(d) /\ Later(db, d)
<1>0. db \in DB
  BY Zenon DEF TablesInv
<1>1. ASSUME NEW d \in DB, d.route = db.route, d.up = db.up
      PROVE  TablesInv(d) /\ Later(db, d)
  BY Zenon, <1>1 DEF TablesInv, Later
<1>2. ASSUME NEW t \in Targets, NEW u \in Upstreams, NEW e \in BOOLEAN
      PROVE  TablesInv(TargetAdd(t, u, e)) /\ Later(db, TargetAdd(t, u, e))
  <2>1. [state |-> "live", enabled |-> e, up |-> u]
          \in [state : State, enabled : BOOLEAN, up : Upstreams \cup {None}]
    BY Zenon DEF State
  <2>2. TargetAdd(t, u, e) \in DB /\ TargetAdd(t, u, e).route = db.route
        /\ TargetAdd(t, u, e).up = db.up
    BY Zenon, <1>0, <2>1 DEF TargetAdd, DB
  <2>. QED
    BY Zenon, <1>1, <2>2
<1>3. ASSUME NEW t \in Targets
      PROVE  TablesInv(TargetRemove(t)) /\ Later(db, TargetRemove(t))
  <2>1. [db.target[t] EXCEPT !.state = "deleted"]
          \in [state : State, enabled : BOOLEAN, up : Upstreams \cup {None}]
    BY <1>0 DEF DB, State
  <2>2. TargetRemove(t) \in DB /\ TargetRemove(t).route = db.route
        /\ TargetRemove(t).up = db.up
    BY Zenon, <1>0, <2>1 DEF TargetRemove, DB
  <2>. QED
    BY Zenon, <1>1, <2>2
<1>4. ASSUME NEW p \in Policies, NEW v \in Values
      PROVE  /\ TablesInv(PolicyCreate(p, v)) /\ Later(db, PolicyCreate(p, v))
             /\ TablesInv(PolicyUpdate(p, v)) /\ Later(db, PolicyUpdate(p, v))
  <2>1. /\ [state |-> "live", set |-> v] \in [state : State, set : Values]
        /\ [db.pol[p] EXCEPT !.set = v] \in [state : State, set : Values]
    BY <1>0 DEF DB, State
  <2>2. PolicyCreate(p, v) \in DB /\ PolicyCreate(p, v).route = db.route
        /\ PolicyCreate(p, v).up = db.up
    BY Zenon, <1>0, <2>1 DEF PolicyCreate, DB
  <2>3. PolicyUpdate(p, v) \in DB /\ PolicyUpdate(p, v).route = db.route
        /\ PolicyUpdate(p, v).up = db.up
    BY Zenon, <1>0, <2>1 DEF PolicyUpdate, DB
  <2>. QED
    BY Zenon, <1>1, <2>2, <2>3
<1>5. ASSUME NEW p \in Policies
      PROVE  TablesInv(PolicyDelete(p)) /\ Later(db, PolicyDelete(p))
  <2>1. PICK d : d = [db EXCEPT !.pol[p].state = "deleted"]
    BY Zenon
  <2>2. PICK rt : rt = [r \in Routes |->
                   IF db.route[r].pol = p /\ LiveRoute(r) THEN [db.route[r] EXCEPT !.pol = None]
                   ELSE db.route[r]]
    BY Zenon
  <2>3. [db.pol[p] EXCEPT !.state = "deleted"] \in [state : State, set : Values]
    BY <1>0 DEF DB, State
  <2>4. d \in DB /\ d.route = db.route /\ d.up = db.up
    BY Zenon, <1>0, <2>1, <2>3 DEF DB
  <2>5. rt \in [Routes -> RouteRow] /\ \A r \in Routes : rt[r].up = db.route[r].up
    BY <1>0, <2>2 DEF DB, RouteRow
  <2>6. PolicyDelete(p) = [d EXCEPT !.route = rt]
    BY Zenon, <1>0, <2>1, <2>2 DEF PolicyDelete, DB
  <2>7. PolicyDelete(p) \in DB /\ PolicyDelete(p).up = db.up /\ PolicyDelete(p).route = rt
    BY Zenon, <2>4, <2>5, <2>6 DEF DB, RouteRow
  <2>. QED
    BY Zenon, <2>5, <2>7 DEF TablesInv, Later
<1>6. ASSUME NEW f \in [Keys -> {"absent", "active", "expired", "revoked"}]
      PROVE  TablesInv([db EXCEPT !.key = f]) /\ Later(db, [db EXCEPT !.key = f])
  <2>1. /\ [db EXCEPT !.key = f] \in DB
        /\ [db EXCEPT !.key = f].route = db.route /\ [db EXCEPT !.key = f].up = db.up
    BY Zenon, <1>0 DEF DB
  <2>. QED
    BY Zenon, <1>1, <2>1
<1>7. ASSUME NEW k \in Keys
      PROVE  /\ TablesInv(KeyCreate(k)) /\ Later(db, KeyCreate(k))
             /\ TablesInv(KeyRevoke(k)) /\ Later(db, KeyRevoke(k))
             /\ TablesInv([db EXCEPT !.key[k] = "expired"])
             /\ Later(db, [db EXCEPT !.key[k] = "expired"])
  <2>1. ASSUME NEW s \in {"absent", "active", "expired", "revoked"}
        PROVE  /\ TablesInv([db EXCEPT !.key[k] = s])
               /\ Later(db, [db EXCEPT !.key[k] = s])
    <3>1. [db.key EXCEPT ![k] = s] \in [Keys -> {"absent", "active", "expired", "revoked"}]
      BY Zenon, <1>0 DEF DB
    <3>2. [db EXCEPT !.key[k] = s] = [db EXCEPT !.key = [db.key EXCEPT ![k] = s]]
      BY Zenon, <1>0 DEF DB
    <3>. QED
      BY Zenon, <1>6, <3>1, <3>2
  <2>. QED
    BY Zenon, <2>1 DEF KeyCreate, KeyRevoke
<1>8. ASSUME NEW k \in Keys, NEW n \in Keys
      PROVE  TablesInv(KeyRotate(k, n)) /\ Later(db, KeyRotate(k, n))
  <2>1. PICK f : f = [[db.key EXCEPT ![k] = "revoked"] EXCEPT ![n] = db.key[k]]
    BY Zenon
  <2>2. f \in [Keys -> {"absent", "active", "expired", "revoked"}]
    BY Zenon, <1>0, <2>1 DEF DB
  <2>3. KeyRotate(k, n) = [db EXCEPT !.key = f]
    BY Zenon, <1>0, <2>1 DEF KeyRotate, DB
  <2>. QED
    BY Zenon, <1>6, <2>2, <2>3
<1>9. ASSUME NEW v \in Values
      PROVE  TablesInv([db EXCEPT !.jwt = v]) /\ Later(db, [db EXCEPT !.jwt = v])
  <2>1. /\ [db EXCEPT !.jwt = v] \in DB
        /\ [db EXCEPT !.jwt = v].route = db.route /\ [db EXCEPT !.jwt = v].up = db.up
    BY Zenon, <1>0 DEF DB
  <2>. QED
    BY Zenon, <1>1, <2>1
<1>. QED
  BY Zenon, <1>2, <1>3, <1>4, <1>5, <1>7, <1>8, <1>9

\* What a request of the admin API leaves alone, and what it may do to the tables.
LEMMA WriteFacts ==
    ASSUME IInv, Write
    PROVE  /\ TablesInv(db') /\ Later(db, db')
           /\ rev' \in 0 .. MaxWrites /\ rev <= rev'
           /\ assign' \in [route : Routes, pol : Policies] \cup {None}
           /\ UNCHANGED <<gw, loader, redis, faults, load>>
<1>. DEFINE Goal == /\ TablesInv(db') /\ Later(db, db')
                    /\ rev' \in 0 .. MaxWrites /\ rev <= rev'
                    /\ assign' \in [route : Routes, pol : Policies] \cup {None}
                    /\ UNCHANGED <<gw, loader, redis, faults, load>>
<1>0. /\ TablesInv(db) /\ rev \in 0 .. MaxWrites /\ MaxWrites \in Nat
      /\ assign \in [route : Routes, pol : Policies] \cup {None}
  BY Zenon, BoundsAssumption DEF IInv
<1>1. ASSUME NEW op, NEW d, Commit(op, d), TablesInv(d), Later(db, d),
             assign' \in [route : Routes, pol : Policies] \cup {None}
      PROVE  Goal
  <2>1. db' = d /\ rev < MaxWrites /\ rev' = rev + 1
        /\ UNCHANGED <<gw, loader, redis, faults, load>>
    BY Zenon, <1>1 DEF Commit
  <2>2. rev' \in 0 .. MaxWrites /\ rev <= rev'
    BY <1>0, <2>1
  <2>. QED
    BY Zenon, <1>1, <2>1, <2>2
<1>2. ASSUME NEW op, NEW d, Commit(op, d), TablesInv(d), Later(db, d), UNCHANGED assign
      PROVE  Goal
  BY Zenon, <1>0, <1>1, <1>2
<1>. SUFFICES Goal
  BY Zenon
<1>. HIDE DEF Goal
<1>3. CASE CreateRoute
  BY Zenon, <1>0, <1>2, <1>3, RouteStatements DEF CreateRoute
<1>4. CASE UpdateRoute
  BY Zenon, <1>0, <1>2, <1>4, RouteStatements DEF UpdateRoute
<1>5. CASE DeleteRoute
  BY Zenon, <1>0, <1>2, <1>5, RouteStatements DEF DeleteRoute
<1>6. CASE DisableRoute
  BY Zenon, <1>0, <1>2, <1>6, RouteStatements DEF DisableRoute
<1>7. CASE EnableRoute
  BY Zenon, <1>0, <1>2, <1>7, RouteStatements DEF EnableRoute
<1>8. CASE CreateUpstream
  BY Zenon, <1>0, <1>2, <1>8, UpstreamStatements DEF CreateUpstream
<1>9. CASE UpdateUpstream
  BY Zenon, <1>0, <1>2, <1>9, UpstreamStatements DEF UpdateUpstream
<1>10. CASE DeleteUpstream
  <2>1. \E v : v \in Values
    BY Zenon, RowsAssumption
  <2>. QED
    BY Zenon, <1>0, <1>2, <1>10, <2>1, UpstreamStatements DEF DeleteUpstream
<1>11. CASE AddTarget \/ RemoveTarget
  BY Zenon, <1>0, <1>2, <1>11, OtherStatements DEF AddTarget, RemoveTarget
<1>12. CASE CreatePolicy \/ UpdatePolicy \/ DeletePolicy
  BY Zenon, <1>0, <1>2, <1>12, OtherStatements DEF CreatePolicy, UpdatePolicy, DeletePolicy
<1>13. CASE CheckPolicy
  <2>1. assign' \in [route : Routes, pol : Policies] /\ UNCHANGED <<db, rev>>
        /\ UNCHANGED <<gw, loader, redis, faults, load>>
    BY <1>13 DEF CheckPolicy
  <2>. QED
    BY <1>0, <2>1 DEF Goal, Later
<1>14. CASE AssignPolicy
  <2>1. /\ assign \in [route : Routes, pol : Policies] /\ assign' = None
        /\ assign.route \in Routes /\ assign.pol \in Policies
    BY Zenon, <1>0, <1>14 DEF AssignPolicy
  <2>2. CASE Commit("policy", RouteAssignPolicy(assign.route, assign.pol))
    BY Zenon, <1>0, <1>1, <2>1, <2>2, RouteStatements
  <2>3. CASE UNCHANGED <<db, rev, gw, loader, redis, faults, load>>
    BY <1>0, <2>1, <2>3 DEF Goal, Later
  <2>. QED
    BY Zenon, <1>14, <2>2, <2>3 DEF AssignPolicy
<1>15. CASE RemovePolicy
  BY Zenon, <1>0, <1>2, <1>15, RouteStatements DEF RemovePolicy
<1>16. CASE CreateApiKey \/ RevokeApiKey \/ RotateApiKey \/ KeyExpires
  BY Zenon, <1>0, <1>2, <1>16, OtherStatements
  DEF CreateApiKey, RevokeApiKey, RotateApiKey, KeyExpires
<1>17. CASE UpdateJWT
  BY Zenon, <1>0, <1>2, <1>17, OtherStatements DEF UpdateJWT
<1>. QED
  BY Zenon, <1>3, <1>4, <1>5, <1>6, <1>7, <1>8, <1>9, <1>10, <1>11, <1>12, <1>13, <1>14, <1>15,
     <1>16, <1>17 DEF Write
----------------------------------------------------------------------------
(* Reloads *)

Waiting == {"idle", "wait", "ok"}

\* What a reload knows stays true while the tables change.
LEMMA ReloadKept ==
    ASSUME NEW j, NEW g, NEW h, NEW n \in Nat, NEW m \in Nat, NEW d, NEW e,
           ReloadInv(j, g, n, d), n <= m, Later(d, e), h.at = g.at, h.jwtAt = g.jwtAt
    PROVE  ReloadInv(j, h, m, e)
<1>1. /\ j \in Reload /\ j.asked \in Nat /\ j.at \in Nat /\ j.jwtAt \in Nat
      /\ \A r \in j.routes : r.up \in Upstreams \cup {None}
  BY Zenon DEF ReloadInv, Reload, Route
<1>2. j.pc = "upstreams" => Known(j.routes, e)
  BY Zenon, <1>1 DEF ReloadInv, Known, Later
<1>3. j.pc \in Fetched => Resolved(j.routes, Ids(j.ups), e)
  BY Zenon, <1>1 DEF ReloadInv, Resolved, Later
<1>4. j.asked <= n /\ (j.at <= n => j.at <= m) /\ (j.jwtAt <= n => j.jwtAt <= m)
      /\ (j.asked <= n => j.asked <= m)
  BY <1>1 DEF ReloadInv
<1>. QED
  BY Zenon, <1>1, <1>2, <1>3, <1>4 DEF ReloadInv

\* A caller outside of the mutex only knows that what it asked for is served.
LEMMA WaitingKept ==
    ASSUME NEW j, NEW g, NEW h, NEW n, NEW d, ReloadInv(j, g, n, d), j.pc \in Waiting,
           g.at \in Nat, h.at \in Nat, g.at <= h.at
    PROVE  ReloadInv(j, h, n, d)
<1>1. j.asked \in Nat /\ j.pc \notin Fetched \cup {"upstreams", "local", "redis"}
  BY Zenon DEF ReloadInv, Reload, Waiting, Fetched, Complete
<1>2. j.pc = "ok" => j.asked <= h.at
  BY <1>1 DEF ReloadInv
<1>. QED
  BY Zenon, <1>1, <1>2 DEF ReloadInv, Fetched, Complete

\* So does what is known of the gateway.
LEMMA GatewayKept ==
    ASSUME NEW g, NEW n \in Nat, NEW m \in Nat, NEW d, NEW e,
           GatewayInv(g, n, d), n <= m, Later(d, e)
    PROVE  GatewayInv(g, m, e)
<1>1. /\ g \in Gateway /\ g.at \in Nat
      /\ \A r \in g.routes : r.up \in Upstreams \cup {None}
  BY Zenon DEF GatewayInv, Gateway, Route
<1>2. g.at <= m
  BY <1>1 DEF GatewayInv
<1>3. Resolved(g.routes, DOMAIN g.pools, e)
  BY Zenon, <1>1 DEF GatewayInv, Resolved, Later
<1>. QED
  BY Zenon, <1>2, <1>3 DEF GatewayInv

\* A step of one caller of reload, j being its next state: only the one that holds the
\* mutex changes what the gateway serves, and it takes the mutex only when it is free.
LEMMA CallerStep ==
    ASSUME IInv, NEW l \in Callers, NEW j, Set(l, j), UNCHANGED <<db, rev, assign, load>>,
           redis' \subseteq Keys, faults' \in 0 .. MaxFaults,
           GatewayInv(gw', rev, db), ReloadInv(j, gw', rev, db),
           gw.at <= gw'.at,
           Holds(l) \/ (gw'.at = gw.at /\ gw'.jwtAt = gw.jwtAt),
           Holds(l) \/ j.pc \in Waiting \/ \A k \in Callers : ~Holds(k)
    PROVE  IInv'
<1>1. /\ loader' = [k \in Callers |-> loader'[k]] /\ loader'[l] = j
      /\ \A k \in Callers \ {l} : loader'[k] = loader[k]
  BY Zenon DEF Set, IInv
<1>2. /\ rev \in Nat /\ gw.at \in Nat /\ gw'.at \in Nat
      /\ \A k \in Callers : ReloadInv(loader[k], gw, rev, db)
  BY BoundsAssumption DEF IInv, GatewayInv, Gateway
<1>3. Later(db, db)
  BY Zenon DEF Later
<1>4. ASSUME NEW k \in Callers \ {l}
      PROVE  ReloadInv(loader'[k], gw', rev, db)
  <2>1. loader'[k] = loader[k] /\ ReloadInv(loader[k], gw, rev, db)
    BY Zenon, <1>1, <1>2
  <2>2. CASE Holds(l)
    <3>1. loader[k].pc \in Waiting
      BY Zenon, <2>2 DEF IInv, OneReload, Holds, Waiting
    <3>. QED
      BY Zenon, <1>2, <2>1, <3>1, WaitingKept
  <2>3. CASE gw'.at = gw.at /\ gw'.jwtAt = gw.jwtAt
    BY <1>2, <1>3, <2>1, <2>3, ReloadKept
  <2>. QED
    BY Zenon, <2>2, <2>3
<1>5. OneReload'
  <2>1. \A k \in Callers \ {l} : Holds(k)' <=> Holds(k)
    BY Zenon, <1>1 DEF Holds
  <2>2. Holds(l)' <=> j.pc \notin Waiting
    BY Zenon, <1>1 DEF Holds, Waiting
  <2>. QED
    BY Zenon, <2>1, <2>2 DEF IInv, OneReload
<1>6. \A k \in Callers : ReloadInv(loader'[k], gw', rev, db)
  BY Zenon, <1>1, <1>4
<1>. QED
  BY Zenon, <1>1, <1>5, <1>6 DEF IInv

\* A step that leaves the gateway and the tables alone.
LEMMA ReadingStep ==
    ASSUME IInv, NEW l \in Callers, NEW j, Set(l, j), Steps, faults' \in 0 .. MaxFaults,
           ReloadInv(j, gw, rev, db),
           Holds(l) \/ j.pc \in Waiting \/ \A k \in Callers : ~Holds(k)
    PROVE  IInv'
<1>1. /\ UNCHANGED <<db, rev, assign, load, gw>> /\ redis' \subseteq Keys
      /\ GatewayInv(gw, rev, db) /\ gw.at \in Nat
  BY Zenon DEF Steps, IInv, GatewayInv, Gateway
<1>2. gw'.at = gw.at /\ gw'.jwtAt = gw.jwtAt /\ gw.at <= gw'.at
  BY <1>1
<1>3. GatewayInv(gw', rev, db) /\ ReloadInv(j, gw', rev, db)
  BY Zenon, <1>1
<1>. QED
  BY Zenon, <1>1, <1>2, <1>3, CallerStep

\* What the state says of one caller of reload.
LEMMA CallerFacts ==
    ASSUME IInv, NEW l \in Callers
    PROVE  /\ ReloadInv(loader[l], gw, rev, db) /\ loader[l] \in Reload
           /\ rev \in Nat /\ faults \in 0 .. MaxFaults /\ MaxFaults \in Nat
           /\ TablesInv(db) /\ GatewayInv(gw, rev, db) /\ gw \in Gateway
           /\ Fault => faults' \in 0 .. MaxFaults
  BY BoundsAssumption DEF IInv, ReloadInv, GatewayInv, Fault

\* A caller that is idle knows nothing and asks for nothing.
LEMMA IdleFacts ==
    ASSUME NEW g, NEW n \in Nat, NEW d
    PROVE  /\ Idle \in Reload /\ ReloadInv(Idle, g, n, d)
           /\ Idle.pc = "idle" /\ Idle.asked = 0
<1>1. NoTargets \in [{} -> SUBSET [id : Targets, enabled : BOOLEAN]]
  BY Zenon DEF NoTargets
<1>2. Idle \in Reload
  BY Zenon, <1>1 DEF Idle, Reload
<1>. QED
  BY <1>2 DEF Idle, ReloadInv, Fetched, Complete

\* A caller that has asked at revision a.
Asked(a) == [Idle EXCEPT !.pc = "wait", !.asked = a]

\* The callers ask for a reload.
LEMMA RequestsPreserve ==
    ASSUME IInv, Tick \/ PostReload
    PROVE  IInv'
<1>0. "tick" \in Callers /\ "push" \in Callers
  BY Zenon DEF Callers
<1>1. ASSUME NEW l \in Callers, NEW a \in Nat, a <= rev, Set(l, Asked(a)), Steps, UNCHANGED faults
      PROVE  IInv'
  <2>1. Asked(a) \in Reload /\ Asked(a).pc = "wait" /\ Asked(a).asked = a
    <3>1. Idle \in Reload
      BY Zenon, IdleFacts
    <3>. QED
      BY Zenon, <3>1 DEF Reload, Asked
  <2>2. ReloadInv(Asked(a), gw, rev, db) /\ Asked(a).pc \in Waiting
    BY Zenon, <1>1, <2>1 DEF ReloadInv, Fetched, Complete, Waiting
  <2>. QED
    BY Zenon, <1>1, <2>2, CallerFacts, ReadingStep
<1>2. CASE Tick
  <2>1. Asked(0) = [Idle EXCEPT !.pc = "wait"]
    <3>1. Idle \in Reload /\ Idle.asked = 0
      BY Zenon, IdleFacts
    <3>. QED
      BY Zenon, <3>1 DEF Reload, Asked
  <2>2. Set("tick", Asked(0)) /\ Steps /\ UNCHANGED faults
    BY Zenon, <1>2, <2>1 DEF Tick
  <2>3. 0 <= rev
    BY <1>0, CallerFacts
  <2>. QED
    BY Zenon, <1>0, <1>1, <2>2, <2>3
<1>3. CASE PostReload
  <2>1. PICK a : a = rev
    BY Zenon
  <2>2. Set("push", Asked(a)) /\ Steps /\ UNCHANGED faults
    BY Zenon, <1>3, <2>1 DEF PostReload, Asked
  <2>3. a \in Nat /\ a <= rev
    BY <1>0, <2>1, CallerFacts
  <2>. QED
    BY Zenon, <1>0, <1>1, <2>2, <2>3
<1>. QED
  BY Zenon, <1>2, <1>3

\* reloadMu is taken when it is free.
LEMMA LockPreserves ==
    ASSUME IInv, NEW l \in Callers, Lock(l)
    PROVE  IInv'
<1>1. PICK old : old = loader[l]
  BY Zenon
<1>2. PICK j : j = [old EXCEPT !.pc = "routes"]
  BY Zenon
<1>3. /\ old \in Reload /\ ReloadInv(old, gw, rev, db) /\ Set(l, j) /\ Steps
      /\ UNCHANGED faults /\ \A k \in Callers : ~Holds(k)
  BY Zenon, <1>1, <1>2, CallerFacts DEF Lock
<1>4. j \in Reload /\ j.pc = "routes" /\ j.asked = old.asked
  BY Zenon, <1>2, <1>3 DEF Reload
<1>5. ReloadInv(j, gw, rev, db)
  BY Zenon, <1>3, <1>4 DEF ReloadInv, Fetched, Complete
<1>. QED
  BY Zenon, <1>3, <1>5, CallerFacts, ReadingStep

\* listQuery joins routes with upstreams that exist, or existed.
LEMMA ReadRoutesPreserves ==
    ASSUME IInv, NEW l \in Callers, ReadRoutes(l)
    PROVE  IInv'
<1>1. PICK old : old = loader[l]
  BY Zenon
<1>2. PICK rs : rs = ListEnabled
  BY Zenon
<1>3. PICK j : j = [old EXCEPT !.pc = "upstreams", !.routes = rs, !.at = rev]
  BY Zenon
<1>4. /\ old \in Reload /\ ReloadInv(old, gw, rev, db) /\ Set(l, j) /\ Steps /\ Holds(l)
      /\ UNCHANGED faults /\ TablesInv(db) /\ rev \in Nat /\ gw.at <= rev
  BY Zenon, <1>1, <1>2, <1>3, CallerFacts DEF ReadRoutes, Holds, GatewayInv
<1>5. rs \in SUBSET Route
  BY <1>2, <1>4 DEF ListEnabled, TablesInv, DB, Route, LiveUpstream, LivePolicy
<1>6. Known(rs, db)
  <2>1. SUFFICES ASSUME NEW r \in rs, r.up # None PROVE db.up[r.up].state # "absent"
    BY Zenon DEF Known
  <2>2. PICK x \in Routes : r.up = db.route[x].up
    BY <1>2 DEF ListEnabled
  <2>. QED
    BY Zenon, <1>4, <2>1, <2>2 DEF TablesInv
<1>7. j \in Reload /\ j.pc = "upstreams" /\ j.routes = rs /\ j.at = rev /\ j.asked = old.asked
  BY Zenon, <1>3, <1>4, <1>5 DEF Reload
<1>8. old.asked <= rev
  BY Zenon, <1>4 DEF ReloadInv
<1>9. ReloadInv(j, gw, rev, db)
  BY <1>4, <1>6, <1>7, <1>8 DEF ReloadInv, Fetched, Complete
<1>. QED
  BY Zenon, <1>4, <1>9, CallerFacts, ReadingStep

\* A route was joined with an upstream that existed: it is listed now, or deleted.
LEMMA ReadUpstreamsPreserves ==
    ASSUME IInv, NEW l \in Callers, ReadUpstreams(l)
    PROVE  IInv'
<1>1. PICK old : old = loader[l]
  BY Zenon
<1>2. PICK us : us = ListUpstreams
  BY Zenon
<1>3. PICK j : j = [old EXCEPT !.pc = "targets", !.ups = us]
  BY Zenon
<1>4. /\ old \in Reload /\ ReloadInv(old, gw, rev, db) /\ Set(l, j) /\ Steps /\ Holds(l)
      /\ UNCHANGED faults /\ TablesInv(db) /\ old.pc = "upstreams"
  BY Zenon, <1>1, <1>2, <1>3, CallerFacts DEF ReadUpstreams, Holds
<1>5. us \in SUBSET [id : Upstreams, url : Values]
  BY <1>2, <1>4 DEF ListUpstreams, TablesInv, DB
<1>6. ASSUME NEW u \in Upstreams, LiveUpstream(u) PROVE u \in Ids(us)
  <2>1. [id |-> u, url |-> db.up[u].url] \in us
    BY Zenon, <1>2, <1>6 DEF ListUpstreams
  <2>. QED
    BY <2>1 DEF Ids
<1>7. Resolved(old.routes, Ids(us), db)
  <2>1. SUFFICES ASSUME NEW r \in old.routes, r.up # None
                 PROVE  r.up \in Ids(us) \/ db.up[r.up].state = "deleted"
    BY Zenon DEF Resolved
  <2>2. r.up \in Upstreams /\ db.up[r.up].state # "absent"
    BY Zenon, <1>4, <2>1 DEF ReloadInv, Known, Reload, Route
  <2>3. db.up[r.up].state \in {"absent", "live", "deleted"}
    BY Zenon, <1>4, <2>2 DEF TablesInv, DB, State
  <2>. QED
    BY Zenon, <1>6, <2>1, <2>2, <2>3 DEF LiveUpstream
<1>8. /\ j \in Reload /\ j.pc = "targets" /\ j.routes = old.routes /\ j.ups = us
      /\ j.at = old.at /\ j.asked = old.asked
  BY Zenon, <1>3, <1>4, <1>5 DEF Reload
<1>9. ReloadInv(j, gw, rev, db)
  BY Zenon, <1>4, <1>7, <1>8 DEF ReloadInv, Fetched, Complete
<1>. QED
  BY Zenon, <1>4, <1>9, CallerFacts, ReadingStep

\* What a reload has read so far is kept when it reads more.
LEMMA FetchedStep ==
    ASSUME IInv, NEW l \in Callers, NEW j \in Reload, Set(l, j), Steps,
           faults' \in 0 .. MaxFaults,
           loader[l].pc \in Fetched, j.pc \in Fetched \ {"install"},
           j.routes = loader[l].routes, j.ups = loader[l].ups, j.at = loader[l].at,
           j.asked = loader[l].asked,
           j.pc \in Complete => Ids(j.ups) \subseteq DOMAIN j.targets,
           j.pc = "apply" => j.at <= j.jwtAt /\ j.jwtAt <= rev
    PROVE  IInv'
<1>1. ReloadInv(loader[l], gw, rev, db) /\ Holds(l)
  BY Zenon, CallerFacts DEF Holds, Fetched, Complete
<1>2. ReloadInv(j, gw, rev, db)
  BY Zenon, <1>1 DEF ReloadInv, Fetched, Complete
<1>. QED
  BY Zenon, <1>1, <1>2, ReadingStep

\* The targets are complete when there is no upstream left to read.
LEMMA ReadTargetsPreserves ==
    ASSUME IInv, NEW l \in Callers, ReadTargets(l)
    PROVE  IInv'
<1>1. PICK old : old = loader[l]
  BY Zenon
<1>2. old \in Reload /\ Steps /\ TablesInv(db) /\ old.pc = "targets"
  BY Zenon, <1>1, CallerFacts DEF ReadTargets
<1>3. CASE /\ Ids(old.ups) \ DOMAIN old.targets = {}
           /\ Set(l, [old EXCEPT !.pc = "keys"]) /\ UNCHANGED faults
  <2>1. PICK j : j = [old EXCEPT !.pc = "keys"]
    BY Zenon
  <2>2. /\ j \in Reload /\ j.pc = "keys" /\ j.routes = old.routes /\ j.ups = old.ups
        /\ j.at = old.at /\ j.asked = old.asked /\ j.targets = old.targets
    BY Zenon, <1>2, <2>1 DEF Reload
  <2>. QED
    BY Zenon, <1>1, <1>2, <1>3, <2>1, <2>2, FetchedStep, CallerFacts DEF Fetched, Complete
<1>4. ASSUME NEW u \in Ids(old.ups), NEW ts \in {ListByUpstream(u), {}},
             Set(l, [old EXCEPT !.targets =
                         [x \in DOMAIN @ \cup {u} |-> IF x = u THEN ts ELSE @[x]]]),
             faults' \in 0 .. MaxFaults
      PROVE  IInv'
  <2>1. PICK f : f = [x \in DOMAIN old.targets \cup {u} |->
                        IF x = u THEN ts ELSE old.targets[x]]
    BY Zenon
  <2>2. PICK j : j = [old EXCEPT !.targets = f]
    BY Zenon
  <2>3. u \in Upstreams
    BY Zenon, <1>2 DEF Ids, Reload
  <2>4. ts \in SUBSET [id : Targets, enabled : BOOLEAN]
    BY <1>2, <2>3 DEF ListByUpstream, TablesInv, DB
  <2>5. PICK U \in SUBSET Upstreams :
           old.targets \in [U -> SUBSET [id : Targets, enabled : BOOLEAN]]
    BY Zenon, <1>2 DEF Reload
  <2>6. f \in [U \cup {u} -> SUBSET [id : Targets, enabled : BOOLEAN]]
    BY Zenon, <2>1, <2>4, <2>5
  <2>7. f \in UNION {[V -> SUBSET [id : Targets, enabled : BOOLEAN]] : V \in SUBSET Upstreams}
    BY Zenon, <2>3, <2>5, <2>6
  <2>8. /\ j \in Reload /\ j.pc = "targets" /\ j.routes = old.routes /\ j.ups = old.ups
        /\ j.at = old.at /\ j.asked = old.asked
    BY Zenon, <1>2, <2>2, <2>7 DEF Reload
  <2>9. Set(l, j)
    BY Zenon, <1>4, <2>1, <2>2
  <2>. QED
    BY Zenon, <1>1, <1>2, <1>4, <2>8, <2>9, FetchedStep DEF Fetched, Complete
<1>5. faults' = faults \/ Fault => faults' \in 0 .. MaxFaults
  BY Zenon, CallerFacts
<1>. QED
  BY Zenon, <1>1, <1>3, <1>4, <1>5 DEF ReadTargets, Ids

\* Keys and JWT settings are added to what has been read.
LEMMA ReadKeysJWTPreserve ==
    ASSUME IInv, NEW l \in Callers, ReadKeys(l) \/ ReadJWT(l)
    PROVE  IInv'
<1>1. PICK old : old = loader[l]
  BY Zenon
<1>2. /\ old \in Reload /\ ReloadInv(old, gw, rev, db) /\ Steps /\ TablesInv(db)
      /\ rev \in Nat /\ UNCHANGED faults /\ faults' \in 0 .. MaxFaults
      /\ old.pc \in {"keys", "jwt"}
  BY Zenon, <1>1, CallerFacts DEF ReadKeys, ReadJWT
<1>3. CASE ReadKeys(l)
  <2>1. PICK j : j = [old EXCEPT !.pc = "jwt", !.keys = ActiveKeys]
    BY Zenon
  <2>2. ActiveKeys \in SUBSET Keys
    BY Zenon DEF ActiveKeys
  <2>3. /\ j \in Reload /\ j.pc = "jwt" /\ j.routes = old.routes /\ j.ups = old.ups
        /\ j.at = old.at /\ j.asked = old.asked /\ j.targets = old.targets
    BY Zenon, <1>2, <2>1, <2>2 DEF Reload
  <2>4. Set(l, j)
    BY Zenon, <1>1, <1>3, <2>1 DEF ReadKeys
  <2>. QED
    BY Zenon, <1>1, <1>2, <2>3, <2>4, FetchedStep DEF Fetched, Complete, ReloadInv
<1>4. CASE ReadJWT(l)
  <2>1. PICK j : j = [old EXCEPT !.pc = "apply", !.jwt = db.jwt, !.jwtAt = rev]
    BY Zenon
  <2>2. db.jwt \in Values
    BY Zenon, <1>2 DEF TablesInv, DB
  <2>3. /\ j \in Reload /\ j.pc = "apply" /\ j.routes = old.routes /\ j.ups = old.ups
        /\ j.at = old.at /\ j.asked = old.asked /\ j.targets = old.targets /\ j.jwtAt = rev
    BY Zenon, <1>2, <2>1, <2>2 DEF Reload
  <2>4. Set(l, j)
    BY Zenon, <1>1, <1>4, <2>1 DEF ReadJWT
  <2>5. j.at <= j.jwtAt /\ j.jwtAt <= rev
    BY <1>2, <2>3 DEF ReloadInv, Fetched, Complete
  <2>. QED
    BY Zenon, <1>1, <1>2, <2>3, <2>4, <2>5, FetchedStep DEF Fetched, Complete, ReloadInv
<1>. QED
  BY Zenon, <1>3, <1>4

\* A read that fails ends the reload before it has changed anything.
LEMMA FetchFailsPreserves ==
    ASSUME IInv, NEW l \in Callers, FetchFails(l)
    PROVE  IInv'
<1>1. /\ Set(l, Idle) /\ Steps /\ faults' \in 0 .. MaxFaults
      /\ ReloadInv(Idle, gw, rev, db) /\ Idle.pc \in Waiting
  BY Zenon, CallerFacts, IdleFacts DEF FetchFails, Waiting
<1>. QED
  BY Zenon, <1>1, ReadingStep

\* The JWT settings applied are newer than the routes served and than those to come.
LEMMA ApplyPreserves ==
    ASSUME IInv, NEW l \in Callers, Apply(l)
    PROVE  IInv'
<1>1. PICK old : old = loader[l]
  BY Zenon
<1>2. PICK g : g = gw
  BY Zenon
<1>3. /\ old \in Reload /\ ReloadInv(old, g, rev, db) /\ GatewayInv(g, rev, db) /\ g \in Gateway
      /\ old.pc = "apply" /\ Holds(l) /\ UNCHANGED <<db, rev, assign, redis, load>>
      /\ redis' \subseteq Keys
  BY Zenon, <1>1, <1>2, CallerFacts DEF Apply, Holds, IInv
<1>4. CASE /\ gw' = [gw EXCEPT !.jwt = loader[l].jwt, !.jwtAt = loader[l].jwtAt]
           /\ Set(l, [loader[l] EXCEPT !.pc = "install"])
           /\ UNCHANGED faults
  <2>1. PICK h : h = [g EXCEPT !.jwt = old.jwt, !.jwtAt = old.jwtAt]
    BY Zenon
  <2>2. PICK j : j = [old EXCEPT !.pc = "install"]
    BY Zenon
  <2>3. gw' = h /\ Set(l, j) /\ faults' \in 0 .. MaxFaults
    BY Zenon, <1>1, <1>2, <1>4, <2>1, <2>2, CallerFacts
  <2>4. /\ h \in Gateway /\ h.at = g.at /\ h.jwtAt = old.jwtAt /\ h.routes = g.routes
        /\ h.pools = g.pools
    BY Zenon, <1>3, <2>1 DEF Gateway, Reload
  <2>5. /\ j \in Reload /\ j.pc = "install" /\ j.routes = old.routes /\ j.ups = old.ups
        /\ j.at = old.at /\ j.asked = old.asked /\ j.targets = old.targets
        /\ j.jwtAt = old.jwtAt
    BY Zenon, <1>3, <2>2 DEF Reload
  <2>6. ReloadInv(j, h, rev, db)
    BY Zenon, <1>3, <2>4, <2>5 DEF ReloadInv, Fetched, Complete
  <2>7. g.at <= old.jwtAt
    <3>1. g.at \in Nat /\ old.at \in Nat /\ old.jwtAt \in Nat
      BY Zenon, <1>3 DEF Gateway, Reload
    <3>. QED
      BY <1>3, <3>1 DEF ReloadInv, Fetched, Complete
  <2>8. GatewayInv(h, rev, db)
    BY Zenon, <1>3, <2>4, <2>7 DEF GatewayInv
  <2>9. gw.at <= gw'.at
    BY <1>2, <1>3, <2>3, <2>4 DEF Gateway
  <2>. QED
    BY Zenon, <1>3, <2>3, <2>6, <2>8, <2>9, CallerStep
<1>5. CASE Fault /\ Set(l, Idle) /\ UNCHANGED gw
  <2>1. Steps /\ faults' \in 0 .. MaxFaults /\ Idle.pc \in Waiting /\ ReloadInv(Idle, gw, rev, db)
    BY Zenon, <1>3, <1>5, CallerFacts, IdleFacts DEF Steps, Waiting
  <2>. QED
    BY Zenon, <1>5, <2>1, ReadingStep
<1>. QED
  BY Zenon, <1>4, <1>5 DEF Apply

\* Every upstream that was read has a pool, and no pool is empty.
LEMMA PoolsBuilt ==
    ASSUME NEW j \in Reload, Ids(j.ups) \subseteq DOMAIN j.targets
    PROVE  /\ BuildPools(j.ups, j.targets) \in [Ids(j.ups) -> Pool \ {{}}]
           /\ Ids(j.ups) \subseteq Upstreams
           /\ BuildPools(j.ups, j.targets) \in UNION {[U -> Pool] : U \in SUBSET Upstreams}
<1>1. Ids(j.ups) \subseteq Upstreams
  BY Zenon DEF Ids, Reload
<1>2. PICK U \in SUBSET Upstreams :
         j.targets \in [U -> SUBSET [id : Targets, enabled : BOOLEAN]]
  BY Zenon DEF Reload
<1>3. ASSUME NEW u \in Ids(j.ups)
      PROVE  (LET ts == {t.id : t \in {x \in j.targets[u] : x.enabled}} IN
              IF ts # {} THEN ts ELSE {x.url : x \in {y \in j.ups : y.id = u}}) \in Pool \ {{}}
  <2>. DEFINE ts == {t.id : t \in {x \in j.targets[u] : x.enabled}}
              vs == {x.url : x \in {y \in j.ups : y.id = u}}
  <2>1. j.targets[u] \in SUBSET [id : Targets, enabled : BOOLEAN]
    BY Zenon, <1>2
  <2>2. ts \subseteq Targets
    BY Zenon, <2>1
  <2>3. vs \subseteq Values
    BY DEF Reload
  <2>4. PICK y \in j.ups : y.id = u
    BY Zenon DEF Ids
  <2>5. vs # {}
    BY Zenon, <2>4
  <2>6. ts \in Pool /\ vs \in Pool
    BY Zenon, <2>2, <2>3 DEF Pool
  <2>. QED
    BY Zenon, <2>5, <2>6
<1>4. BuildPools(j.ups, j.targets) \in [Ids(j.ups) -> Pool \ {{}}]
  BY Zenon, <1>3 DEF BuildPools, Ids
<1>5. BuildPools(j.ups, j.targets) \in [Ids(j.ups) -> Pool]
  BY Zenon, <1>4
<1>. QED
  BY Zenon, <1>1, <1>4, <1>5

\* The snapshot replaces an older one, and is older than the JWT settings in use.
LEMMA InstallPreserves ==
    ASSUME IInv, NEW l \in Callers, Install(l)
    PROVE  IInv'
<1>1. PICK old : old = loader[l]
  BY Zenon
<1>2. PICK g : g = gw
  BY Zenon
<1>3. PICK ps : ps = BuildPools(old.ups, old.targets)
  BY Zenon
<1>4. PICK h : h = [g EXCEPT !.at = old.at, !.routes = old.routes, !.pools = ps]
  BY Zenon
<1>5. PICK j : j = [Idle EXCEPT !.pc = "local", !.asked = old.asked, !.keys = old.keys]
  BY Zenon
<1>6. /\ old \in Reload /\ ReloadInv(old, g, rev, db) /\ GatewayInv(g, rev, db) /\ g \in Gateway
      /\ old.pc = "install" /\ Holds(l) /\ UNCHANGED <<db, rev, assign, redis, load>>
      /\ redis' \subseteq Keys /\ faults' \in 0 .. MaxFaults /\ rev \in Nat
  BY Zenon, <1>1, <1>2, CallerFacts DEF Install, Holds, IInv
<1>7. gw' = h /\ Set(l, j)
  BY Zenon, <1>1, <1>2, <1>3, <1>4, <1>5 DEF Install
<1>8. /\ Ids(old.ups) \subseteq DOMAIN old.targets /\ Resolved(old.routes, Ids(old.ups), db)
      /\ g.at <= old.at /\ old.at <= old.jwtAt /\ g.jwtAt = old.jwtAt /\ old.at <= rev
      /\ old.asked <= old.at /\ old.asked <= rev
  BY Zenon, <1>6 DEF ReloadInv, Fetched, Complete
<1>9. /\ ps \in [Ids(old.ups) -> Pool \ {{}}]
      /\ ps \in UNION {[U -> Pool] : U \in SUBSET Upstreams}
  BY Zenon, <1>3, <1>6, <1>8, PoolsBuilt
<1>10. /\ h \in Gateway /\ h.at = old.at /\ h.jwtAt = old.jwtAt /\ h.routes = old.routes
       /\ h.pools = ps
  BY Zenon, <1>4, <1>6, <1>8, <1>9 DEF Gateway, Reload
<1>11. j \in Reload /\ j.pc = "local" /\ j.asked = old.asked
  <2>1. Idle \in Reload
    BY Zenon, <1>6, IdleFacts
  <2>. QED
    BY Zenon, <1>5, <1>6, <2>1 DEF Reload
<1>12. GatewayInv(h, rev, db)
  BY Zenon, <1>8, <1>9, <1>10 DEF GatewayInv
<1>13. ReloadInv(j, h, rev, db)
  BY Zenon, <1>8, <1>10, <1>11 DEF ReloadInv, Fetched, Complete
<1>14. gw.at <= gw'.at
  BY Zenon, <1>2, <1>7, <1>8, <1>10
<1>. QED
  BY Zenon, <1>6, <1>7, <1>12, <1>13, <1>14, CallerStep

\* The caches of keys have no part in the invariant but their types.
LEMMA WarmPreserves ==
    ASSUME IInv, NEW l \in Callers, WarmLocal(l) \/ WarmRedis(l)
    PROVE  IInv'
<1>1. PICK old : old = loader[l]
  BY Zenon
<1>2. PICK g : g = gw
  BY Zenon
<1>3. /\ old \in Reload /\ ReloadInv(old, g, rev, db) /\ GatewayInv(g, rev, db) /\ g \in Gateway
      /\ old.pc \in {"local", "redis"} /\ Holds(l) /\ UNCHANGED <<db, rev, assign, load>>
      /\ rev \in Nat /\ redis \subseteq Keys /\ faults \in 0 .. MaxFaults
      /\ old.keys \subseteq Keys
  BY Zenon, <1>1, <1>2, CallerFacts DEF WarmLocal, WarmRedis, Holds, IInv, Reload
<1>4. ASSUME NEW h \in Gateway, NEW j \in Reload, gw' = h, Set(l, j),
             redis' \subseteq Keys, faults' \in 0 .. MaxFaults,
             h.at = g.at, h.jwtAt = g.jwtAt, h.routes = g.routes, h.pools = g.pools,
             j.asked \in {0, old.asked}, j.pc \in {"idle", "redis", "ok"}
      PROVE  IInv'
  <2>1. GatewayInv(h, rev, db)
    BY Zenon, <1>3, <1>4 DEF GatewayInv
  <2>2. /\ old.asked <= rev /\ old.asked <= g.at /\ old.asked \in Nat /\ g.at \in Nat
    BY Zenon, <1>3 DEF ReloadInv, Reload, Gateway
  <2>3. ReloadInv(j, h, rev, db)
    BY <1>3, <1>4, <2>2 DEF ReloadInv, Fetched, Complete
  <2>4. gw.at <= gw'.at
    BY <1>2, <1>4, <2>2
  <2>. QED
    BY Zenon, <1>3, <1>4, <2>1, <2>3, <2>4, CallerStep
<1>5. CASE WarmLocal(l)
  <2>1. PICK h : h = [g EXCEPT !.local = old.keys]
    BY Zenon
  <2>2. PICK j : j = [old EXCEPT !.pc = "redis"]
    BY Zenon
  <2>3. gw' = h /\ Set(l, j) /\ redis' = redis /\ faults' = faults
    BY Zenon, <1>1, <1>2, <1>5, <2>1, <2>2 DEF WarmLocal, UpdateLocalKeys
  <2>4. /\ h \in Gateway /\ h.at = g.at /\ h.jwtAt = g.jwtAt /\ h.routes = g.routes
        /\ h.pools = g.pools
    BY Zenon, <1>3, <2>1 DEF Gateway
  <2>5. j \in Reload /\ j.pc = "redis" /\ j.asked = old.asked
    BY Zenon, <1>3, <2>2 DEF Reload
  <2>. QED
    BY Zenon, <1>3, <1>4, <2>3, <2>4, <2>5
<1>6. CASE WarmRedis(l)
  <2>1. PICK h : h = [g EXCEPT !.up = TRUE]
    BY Zenon
  <2>2. PICK j : j = IF l = "push" THEN [Idle EXCEPT !.pc = "ok", !.asked = old.asked] ELSE Idle
    BY Zenon
  <2>3. gw' = h /\ Set(l, j)
    BY Zenon, <1>1, <1>2, <1>6, <2>1, <2>2 DEF WarmRedis
  <2>4. redis' \subseteq Keys /\ faults' \in 0 .. MaxFaults
    BY Zenon, <1>1, <1>3, <1>6, CallerFacts DEF WarmRedis
  <2>5. /\ h \in Gateway /\ h.at = g.at /\ h.jwtAt = g.jwtAt /\ h.routes = g.routes
        /\ h.pools = g.pools
    BY Zenon, <1>3, <2>1 DEF Gateway
  <2>6. j \in Reload /\ j.pc \in {"idle", "ok"} /\ j.asked \in {0, old.asked}
    <3>1. Idle \in Reload /\ Idle.pc = "idle" /\ Idle.asked = 0
      BY Zenon, <1>3, IdleFacts
    <3>. QED
      BY Zenon, <1>3, <2>2, <3>1 DEF Reload
  <2>. QED
    BY Zenon, <1>4, <2>3, <2>4, <2>5, <2>6
<1>. QED
  BY Zenon, <1>5, <1>6

\* A gateway that is not running serves nothing.
LEMMA DownFacts ==
    ASSUME NEW n \in Nat, NEW d
    PROVE  GatewayInv(Down, n, d)
<1>1. NoTargets \in [{} -> Pool] /\ DOMAIN NoTargets = {}
  BY Zenon DEF NoTargets
<1>2. Down \in Gateway
  BY Zenon, <1>1 DEF Down, Gateway
<1>. QED
  BY <1>1, <1>2 DEF Down, GatewayInv, Resolved

\* No reload survives the process.
LEMMA CrashPreserves ==
    ASSUME IInv, Crash
    PROVE  IInv'
<1>1. /\ gw' = Down /\ loader' = [l \in Callers |-> Idle] /\ UNCHANGED <<db, rev, assign, redis, load>>
      /\ rev \in Nat /\ faults' \in 0 .. MaxFaults
  BY BoundsAssumption DEF Crash, IInv, Fault
<1>2. \A l \in Callers : loader'[l] = Idle
  BY Zenon, <1>1
<1>3. /\ loader' = [l \in Callers |-> loader'[l]]
      /\ \A l \in Callers : ReloadInv(loader'[l], gw', rev, db)
  BY Zenon, <1>1, <1>2, IdleFacts
<1>4. GatewayInv(gw', rev, db)
  BY Zenon, <1>1, DownFacts
<1>5. OneReload'
  BY Zenon, <1>1, <1>2, IdleFacts DEF OneReload, Holds
<1>. QED
  BY Zenon, <1>1, <1>3, <1>4, <1>5 DEF IInv

----------------------------------------------------------------------------
(* The inductive invariant *)

\* A new project, or one with a route to one upstream, and a gateway not started yet.
LEMMA InitInv == Init => IInv
<1>. SUFFICES ASSUME Init PROVE IInv
  BY Zenon
<1>1. PICK r : r = CHOOSE x \in Routes : TRUE
  BY Zenon
<1>2. PICK u : u = CHOOSE x \in Upstreams : TRUE
  BY Zenon
<1>3. PICK t : t = CHOOSE x \in Targets : TRUE
  BY Zenon
<1>4. PICK p : p = CHOOSE x \in Policies : TRUE
  BY Zenon
<1>5. PICK k : k = CHOOSE x \in Keys : TRUE
  BY Zenon
<1>6. PICK v : v = CHOOSE x \in Values : TRUE
  BY Zenon
<1>7. db = Seed(r, u, t, p, k, v)
  BY Zenon, <1>1, <1>2, <1>3, <1>4, <1>5, <1>6 DEF Init
<1>8. u \in Upstreams /\ p \in Policies /\ v \in Values
  BY Zenon, <1>2, <1>4, <1>6, RowsAssumption
<1>9. TablesInv(db)
  <2>1. db \in DB
    BY Zenon, <1>7, <1>8 DEF Seed, DB, State
  <2>2. \A x \in Routes : db.route[x].up # None => db.route[x].up = u /\ db.up[u].state = "live"
    BY Zenon, <1>7, <1>8 DEF Seed
  <2>. QED
    BY Zenon, <2>1, <2>2 DEF TablesInv
<1>10. /\ rev = 0 /\ faults = 0 /\ assign = None /\ redis = {} /\ load \in Loads
       /\ gw = Down /\ loader = [l \in Callers |-> Idle]
  BY Zenon DEF Init
<1>11. \A l \in Callers : loader[l] = Idle
  BY Zenon, <1>10
<1>12. /\ loader = [l \in Callers |-> loader[l]]
       /\ \A l \in Callers : ReloadInv(loader[l], gw, rev, db)
  BY Zenon, <1>10, <1>11, IdleFacts
<1>13. GatewayInv(gw, rev, db)
  BY Zenon, <1>10, DownFacts
<1>14. OneReload
  BY Zenon, <1>11, IdleFacts DEF OneReload, Holds
<1>. QED
  BY <1>9, <1>10, <1>12, <1>13, <1>14, BoundsAssumption DEF IInv

\* Every step preserves the invariant.
LEMMA NextInv == IInv /\ [Next]_vars => IInv'
<1>. SUFFICES ASSUME IInv, [Next]_vars PROVE IInv'
  BY Zenon
<1>1. CASE Write
  <2>1. /\ TablesInv(db') /\ Later(db, db') /\ rev' \in 0 .. MaxWrites /\ rev <= rev'
        /\ assign' \in [route : Routes, pol : Policies] \cup {None}
        /\ UNCHANGED <<gw, loader, redis, faults, load>>
    BY Zenon, <1>1, WriteFacts
  <2>2. rev \in Nat /\ rev' \in Nat
    BY <2>1, BoundsAssumption DEF IInv
  <2>3. \A l \in Callers : ReloadInv(loader[l], gw, rev', db')
    BY Zenon, <2>1, <2>2, ReloadKept DEF IInv
  <2>4. GatewayInv(gw, rev', db')
    BY Zenon, <2>1, <2>2, GatewayKept DEF IInv
  <2>. QED
    BY Zenon, <2>1, <2>3, <2>4 DEF IInv, OneReload, Holds
<1>2. CASE Tick \/ PostReload
  BY Zenon, <1>2, RequestsPreserve
<1>3. CASE Crash
  BY Zenon, <1>3, CrashPreserves
<1>4. ASSUME NEW l \in Callers, Step(l)
      PROVE  IInv'
  BY Zenon, <1>4, LockPreserves, ReadRoutesPreserves, ReadUpstreamsPreserves, ReadTargetsPreserves,
     ReadKeysJWTPreserve, FetchFailsPreserves, ApplyPreserves, InstallPreserves, WarmPreserves
     DEF Step
<1>5. ASSUME NEW k \in Keys, RedisExpires(k)
      PROVE  IInv'
  BY Zenon, <1>5 DEF RedisExpires, IInv, OneReload, Holds
<1>6. CASE UNCHANGED vars
  BY Zenon, <1>6 DEF vars, IInv, OneReload, Holds
<1>. QED
  BY Zenon, <1>1, <1>2, <1>3, <1>4, <1>5, <1>6 DEF Next

\* The invariant holds in every state of the specification.
LEMMA Invariance == Spec => []IInv
  BY InitInv, NextInv, PTL DEF Spec

----------------------------------------------------------------------------
(* Theorems *)

\* Every variable keeps its type, and no pool a gateway serves is ever empty (BuildPools
\* falls back to the URL of the upstream).
THEOREM ConfigTypes == Spec => []TypeOK
<1>1. IInv => TypeOK
  <2>. SUFFICES ASSUME IInv PROVE TypeOK
    BY Zenon
  <2>1. gw \in Gateway /\ \A u \in DOMAIN gw.pools : gw.pools[u] # {}
    BY Zenon DEF IInv, GatewayInv
  <2>2. PICK U \in SUBSET Upstreams : gw.pools \in [U -> Pool]
    BY Zenon, <2>1 DEF Gateway
  <2>3. \A u \in DOMAIN gw.pools : u \in Upstreams /\ gw.pools[u] \in Pool \ {{}}
    BY Zenon, <2>1, <2>2
  <2>. QED
    BY Zenon, <2>1, <2>3 DEF IInv, TypeOK, TablesInv, Gateway
<1>. QED
  BY <1>1, Invariance, PTL

\* When /reload answers, the gateway serves the tables as they were when it was called, or
\* newer, whatever the ticker's reload, failed reads and crashes did in between.
THEOREM ReloadEffective == Spec => []ReloadTakesEffect
<1>1. IInv => ReloadTakesEffect
  <2>. SUFFICES ASSUME IInv, loader["push"].pc = "ok" PROVE gw.at >= loader["push"].asked
    BY Zenon DEF ReloadTakesEffect
  <2>1. ReloadInv(loader["push"], gw, rev, db) /\ gw.at \in Nat
    BY Zenon DEF IInv, Callers, GatewayInv, Gateway
  <2>2. loader["push"].asked \in Nat /\ loader["push"].asked <= gw.at
    BY Zenon, <2>1 DEF ReloadInv, Reload
  <2>. QED
    BY Zenon, <2>1, <2>2
<1>. QED
  BY <1>1, Invariance, PTL

\* The routes served are never newer than the JWT settings their requests are checked
\* against, although a reload may fail between exchanging the one and the other.
THEOREM JWTFirst == Spec => []JWTNeverBehindRoutes
<1>1. IInv => JWTNeverBehindRoutes
  BY Zenon DEF IInv, GatewayInv, Gateway, JWTNeverBehindRoutes
<1>. QED
  BY <1>1, Invariance, PTL

\* A route that is served without a pool for its upstream refers to a deleted one, however
\* many changes fall between the reads of GetTenantSnapshot and after them.
THEOREM RoutesResolve == Spec => []ServedRouteResolves
<1>1. IInv => ServedRouteResolves
  BY Zenon DEF IInv, GatewayInv, Resolved, ServedRouteResolves
<1>. QED
  BY <1>1, Invariance, PTL

=============================================================================
