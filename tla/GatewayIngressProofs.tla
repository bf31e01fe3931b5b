------------------------ MODULE GatewayIngressProofs ------------------------
(***************************************************************************)
(* Proofs about GatewayIngress, for every value of its constants.  Three   *)
(* invariants build on each other: IInv (rows, jobs and leases fit         *)
(* together), RInv (the load balancer holds what the stage of a row says), *)
(* and PInv (a registered port is the port of the gateway's own            *)
(* container).                                                             *)
(***************************************************************************)
EXTENDS GatewayIngress, TLAPS

----------------------------------------------------------------------------
(* The inductive invariant *)

\* What a handler has at hand for its next call, and what its last statement records.
PcOk(j) ==
    /\ j.pc = "createTg" => j.prov = "container_ready"
    /\ j.pc = "register" => j.prov = "registering_target"
    /\ j.pc \in {"reserve", "createRule"} => j.prov = "creating_listener_rule"
    /\ j.pc = "health" => j.prov = "waiting_for_target_health"
    /\ j.pc \in {"deleteRule", "deregister", "deleteTg", "removeContainer"} =>
          j.prov = "deprovisioning"
    /\ j.pc \in {"register", "reserve", "createRule", "health", "deregister", "deleteTg"} =>
          j.tg # None /\ j.port # None
    /\ j.pc = "createRule" => j.prio # 0
    /\ j.pc = "deleteRule" => j.rule # None

OpOk(j) ==
    /\ j.op = "tg_created" => j.prov = "container_ready" /\ j.got \in TgArns
    /\ j.op = "registered" => j.prov = "registering_target"
    /\ j.op = "rule_created" =>
          /\ j.prov = "creating_listener_rule" /\ j.got \in RuleArns
          /\ j.tg # None /\ j.prio # 0
    /\ j.op \in {"reschedule", "active"} => j.prov = "waiting_for_target_health"
    /\ j.op = "decommissioned" => j.prov = "deprovisioning"
    /\ j.op = "retry" => j.retries + 1 < MaxRetries

JobOk(j) ==
    IF j.pc = "idle" THEN j = Idle
    ELSE /\ j.g \in Gateways /\ j.lease \in Tokens /\ j.prov \in Stages \cup {"deprovisioning"}
         /\ j.tg # None => j.port # None
         /\ IF j.pc = "write" THEN j.op \in Ops /\ OpOk(j) ELSE PcOk(j)

\* While a worker's lease is valid the row is as the worker read it.
RowOk(j, r) ==
    /\ r.state # "absent"
    /\ r.state = "live" /\ j.prio # 0 => r.prio = j.prio
    /\ r.lease = j.lease =>
          /\ r.tg = j.tg /\ r.rule = j.rule /\ r.retries <= j.retries
          /\ j.prov # "deprovisioning" => r.prov = j.prov /\ r.port = j.port

CallOk(g) ==
    call[g].pc # "none" =>
        /\ row[g].state # "absent"
        /\ row[g].prov \in {"not_started", "deprovisioning", "failed", "deprovisioned"}
        /\ call[g].pc = "healthy" => call[g].port # None

\* ARNs are never mixed up.
UsesTg(g, t) ==
    \/ tgs[t] = g \/ row[g].tg = t
    \/ \E w \in Workers : wk[w].g = g /\ t \in {wk[w].tg, wk[w].got}
UsesRule(g, a) ==
    \/ \E x \in rules : x.arn = a /\ x.g = g
    \/ row[g].rule = a
    \/ \E w \in Workers : wk[w].g = g /\ a \in {wk[w].rule, wk[w].got}

TgsOwned == \A t \in TgArns : \A g, h \in Gateways : UsesTg(g, t) /\ UsesTg(h, t) => g = h
RulesOwned == \A a \in RuleArns : \A g, h \in Gateways : UsesRule(g, a) /\ UsesRule(h, a) => g = h

ListenerOk ==
    /\ \A x \in rules : tgs[x.tg] = x.g /\ row[x.g].state # "absent"
    /\ \A x, y \in rules : x.g = y.g => x = y

\* What a cleanup has taken away stays away.
PastRule(j) == j.pc \in {"deregister", "deleteTg", "removeContainer"}
               \/ (j.pc = "write" /\ j.op = "decommissioned")
PastTg(j) == j.pc = "removeContainer" \/ (j.pc = "write" /\ j.op = "decommissioned")

Released(j) ==
    /\ PastRule(j) => \A x \in rules : x.arn # j.rule
    /\ PastTg(j) /\ j.tg # None => tgs[j.tg] = None

\* What a worker's job relies on.
Sound(j) == JobOk(j) /\ (j.pc # "idle" => RowOk(j, row[j.g]) /\ Released(j))

IInv ==
    /\ TypeOK /\ StagesRecorded /\ PrioritiesReserved
    /\ \A w \in Workers : Sound(wk[w])
    /\ \A g \in Gateways : CallOk(g)
    /\ TgsOwned /\ RulesOwned /\ ListenerOk

----------------------------------------------------------------------------
(* What the workers R see of a step *)

\* A row goes on from a to b.  A lease that stays protects what its holder has read.
SameLease(a, b) ==
    /\ b.lease = a.lease /\ b.tg = a.tg /\ b.rule = a.rule /\ b.retries <= a.retries
    /\ a.prov \in Stages => b.prov = a.prov /\ b.port = a.port

RowKept(R, a, b) ==
    a.state # "absent" =>
        /\ b.state # "absent"
        /\ b.state = "live" => a.state = "live" /\ (a.prio # 0 => b.prio = a.prio)
        /\ SameLease(a, b) \/ \A v \in R : wk[v].pc # "idle" => wk[v].lease # b.lease

Env(R) ==
    /\ \A v \in R : wk'[v] = wk[v]
    /\ \A g \in Gateways : RowKept(R, row[g], row'[g])
    /\ \A x \in rules' : x \in rules \/ \A v \in R : wk[v].rule # x.arn
    /\ \A t \in TgArns : tgs'[t] \in {tgs[t], None} \/ \A v \in R : wk[v].tg # t

\* Jobs stay sound while others go on.
LEMMA OthersSound ==
    ASSUME IInv, TypeOK', NEW R \in SUBSET Workers, Env(R), NEW v \in R
    PROVE  Sound(wk[v])'
<1>p. PICK j \in Job : j = wk[v]
  BY Zenon DEF IInv, TypeOK
<1>1. wk'[v] = j /\ Sound(j) /\ JobOk(j)
  BY Zenon, <1>p DEF IInv, Env, Sound
<1>2. ASSUME j.pc # "idle"
      PROVE  RowOk(j, row'[j.g])
  <2>1. /\ j.g \in Gateways /\ j.lease \in Tokens /\ j.prov \in Stages \cup {"deprovisioning"}
        /\ RowOk(j, row[j.g])
    BY Zenon, <1>1, <1>2 DEF Sound, JobOk
  <2>2. PICK a, b : a = row[j.g] /\ b = row'[j.g]
    BY Zenon
  <2>3. RowKept(R, a, b) /\ RowOk(j, a)
    BY Zenon, <2>1, <2>2 DEF Env
  <2>4. /\ b.state # "absent"
        /\ b.state = "live" => a.state = "live" /\ (a.prio # 0 => b.prio = a.prio)
        /\ b.lease = j.lease => SameLease(a, b)
    BY Zenon, <1>p, <1>2, <2>3 DEF RowKept, RowOk
  <2>5. b.state = "live" /\ j.prio # 0 => b.prio = j.prio
    BY Zenon, <2>3, <2>4 DEF RowOk
  <2>6. a \in Row /\ b \in Row
    BY Zenon, <2>1, <2>2 DEF IInv, TypeOK
  <2>7. a.retries \in Nat /\ b.retries \in Nat /\ j.retries \in Nat
    BY <2>6 DEF Row, Job
  <2>8. ASSUME b.lease = j.lease
        PROVE  /\ b.tg = j.tg /\ b.rule = j.rule
               /\ j.prov # "deprovisioning" => b.prov = j.prov /\ b.port = j.port
               /\ b.retries <= a.retries /\ a.retries <= j.retries
    BY Zenon, <2>1, <2>3, <2>4, <2>8 DEF RowOk, SameLease
  <2>9. b.retries <= a.retries /\ a.retries <= j.retries => b.retries <= j.retries
    BY <2>7
  <2>. QED
    BY Zenon, <2>2, <2>4, <2>5, <2>8, <2>9 DEF RowOk
<1>3. ASSUME j.pc # "idle"
      PROVE  Released(j)'
  <2>1. Released(j)
    BY Zenon, <1>1, <1>3 DEF Sound
  <2>2. \A x \in rules' : x \in rules \/ j.rule # x.arn
    BY Zenon, <1>p DEF Env
  <2>3. \A t \in TgArns : tgs'[t] \in {tgs[t], None} \/ j.tg # t
    BY Zenon, <1>p DEF Env
  <2>4. j.tg # None => j.tg \in TgArns
    BY DEF Job
  <2>. QED
    BY Zenon, <2>1, <2>2, <2>3, <2>4 DEF Released, PastRule, PastTg
<1>4. JobOk(j)'
  BY Zenon, <1>1 DEF JobOk, OpOk, PcOk
<1>. QED
  BY Zenon, <1>1, <1>2, <1>3, <1>4 DEF Sound, RowOk

\* StagesRecorded, of one row.
StageOk(r) ==
    /\ r.prov \in Stages \cup {"completed"} => r.port # None
    /\ r.tg # None => r.port # None
    /\ r.prov \in (Stages \ {"container_ready"}) \cup {"completed"} => r.tg # None
    /\ r.prov \in {"waiting_for_target_health", "completed"} => r.rule # None /\ r.prio # 0

\* StagesRecorded row by row.
LEMMA StagesAre == StagesRecorded <=> \A g \in Gateways : StageOk(row[g])
BY Zenon DEF StagesRecorded, StageOk

\* StagesRecorded row by row, after a step.
LEMMA StagesArePrimed == StagesRecorded' <=> \A g \in Gateways : StageOk(row'[g])
BY Zenon DEF StagesRecorded, StageOk

\* A row of the table changes while no worker moves.
Quiet(a, b) ==
    /\ b.state = "absent" <=> a.state = "absent"
    /\ b.state = "live" => a.state = "live"
    /\ b.prio = a.prio /\ b.tg = a.tg /\ b.rule = a.rule
    /\ SameLease(a, b) \/ b.lease = None

Quietly == \A g \in Gateways : \/ row'[g] = row[g]
                               \/ row[g].state = "absent" /\ row'[g] = NewRow
                               \/ Quiet(row[g], row'[g])

\* The fault counter keeps its bound.
LEMMA FaultOk ==
    ASSUME IInv, Fault \/ UNCHANGED faults
    PROVE  faults' \in 0 .. MaxFaults
BY BoundAssumption DEF IInv, TypeOK, Fault

----------------------------------------------------------------------------
(* Steps of the admin API, the reconciler and the outside world *)

CallRec == [pc: {"none", "starting", "waiting", "healthy"}, port: Ports \cup {None}]

\* A gateway without a Provision call.
LEMMA NoCallIs == NoCall \in CallRec /\ NoCall.pc = "none"
BY DEF NoCall, CallRec

\* The row the Provision call inserts.
LEMMA NewRowIs == NewRow \in Row /\ StageOk(NewRow) /\ NewRow.state = "live"
                  /\ NewRow.prov = "not_started" /\ NewRow.tg = None /\ NewRow.port = None
<1>1. 0 \in 0 .. MaxPriority /\ 0 \in 0 .. MaxRetries
  BY BoundAssumption
<1>2. NewRow \in Row
  BY Zenon, <1>1 DEF NewRow, Row, Provs
<1>. QED
  BY <1>2 DEF NewRow, StageOk, Stages

\* The admin API, the reconciler, time and the custom-domain worker keep the invariant.
LEMMA OthersKeep ==
    /\ IInv
    /\ \/ UNCHANGED vars \/ ApiStep \/ ListStaleDraining \/ EnvStep
       \/ \E g \in Gateways : reconcileStaleDraining(g)
    => IInv'
\* Rows change quietly: the workers keep what they rely on.
<1>QuietRows.
    ASSUME IInv, TypeOK', UNCHANGED <<wk, tgs, rules>>, Quietly,
           \A g \in Gateways : StageOk(row'[g]),
           \A g \in Gateways : CallOk(g)'
    PROVE  IInv'
  <2>. USE <1>QuietRows
  <2>0. row \in [Gateways -> Row] /\ row' \in [Gateways -> Row]
    BY Zenon DEF IInv, TypeOK
  <2>n. NewRow.state = "live" /\ NewRow.prio = 0 /\ NewRow.tg = None /\ NewRow.rule = None
    BY DEF NewRow
  <2>s. \A a \in Row : SameLease(a, a)
    BY DEF SameLease, Row
  <2>1. ASSUME NEW g \in Gateways
        PROVE  RowKept(Workers, row[g], row'[g])
    <3>1. \A v \in Workers : wk[v].pc # "idle" => wk[v].lease # None
      BY Zenon, NoneAssumption DEF IInv, Sound, JobOk
    <3>. QED
      BY Zenon, <2>0, <2>s, <3>1 DEF Quietly, Quiet, RowKept
  <2>2. Env(Workers)
    BY Zenon, <2>1 DEF Env
  <2>3. \A v \in Workers : Sound(wk[v])'
    BY Zenon, <2>2, OthersSound
  <2>4. \A g \in Gateways : \/ row'[g].tg = row[g].tg /\ row'[g].rule = row[g].rule
                            \/ row'[g].tg = None /\ row'[g].rule = None
    BY Zenon, <2>n DEF Quietly, Quiet
  <2>5. TgsOwned'
    <3>1. \A t \in TgArns : \A g \in Gateways : UsesTg(g, t)' => UsesTg(g, t)
      BY Zenon, <2>4, NoneAssumption DEF UsesTg
    <3>. QED
      BY Zenon, <3>1 DEF IInv, TgsOwned
  <2>6. RulesOwned'
    <3>1. \A t \in RuleArns : \A g \in Gateways : UsesRule(g, t)' => UsesRule(g, t)
      BY Zenon, <2>4, NoneAssumption DEF UsesRule
    <3>. QED
      BY Zenon, <3>1 DEF IInv, RulesOwned
  <2>7. ListenerOk'
    <3>1. \A x \in rules : x.g \in Gateways
      BY DEF IInv, TypeOK
    <3>2. \A g \in Gateways : row[g].state # "absent" => row'[g].state # "absent"
      BY Zenon DEF Quietly, Quiet
    <3>. QED
      BY Zenon, <3>1, <3>2 DEF IInv, ListenerOk
  <2>8. PrioritiesReserved'
    <3>1. \A x \in rules : x.g \in Gateways /\ row[x.g].state # "absent"
      BY DEF IInv, TypeOK, ListenerOk
    <3>2. \A g \in Gateways : row'[g].state = "live" =>
            \/ row'[g].prio = 0 /\ row[g].state = "absent"
            \/ row[g].state = "live" /\ row'[g].prio = row[g].prio
      BY Zenon, <2>n DEF Quietly, Quiet
    <3>3. \A x \in rules : Live(x.g)' => x.prio = row'[x.g].prio
      BY Zenon, <3>1, <3>2 DEF IInv, PrioritiesReserved, Live
    <3>4. ASSUME NEW g \in Gateways, NEW h \in Gateways, g # h, Live(g)', Live(h)', row'[g].prio # 0
          PROVE  row'[g].prio # row'[h].prio
      BY Zenon, <3>2, <3>4 DEF IInv, PrioritiesReserved, Live
    <3>. QED
      BY Zenon, <3>3, <3>4 DEF PrioritiesReserved
  <2>. QED
    BY Zenon, <2>3, <2>5, <2>6, <2>7, <2>8, StagesArePrimed DEF IInv

\* The statements of the admin API, of the reconciler, and the passing of time.
<1>Edits.
    ASSUME NEW a \in Row, NEW b, StageOk(a),
           \/ \E x \in {"failed", "decommissioned"} : b = [a EXCEPT !.status = x]
           \/ a.state = "live" /\ b = [a EXCEPT !.state = "deleted", !.status = "decommissioned"]
           \/ b = [a EXCEPT !.expired = TRUE]
           \/ b = [a EXCEPT !.due = TRUE]
           \/ b = QueueGatewayDeprovisioning(a)
    PROVE  /\ b \in Row /\ Quiet(a, b) /\ StageOk(b)
           /\ b.prov \in {a.prov, "deprovisioning"} /\ b.port = a.port
  <2>. USE <1>Edits
  <2>0. a.retries \in Nat /\ SameLease(a, a)
    BY DEF Row, SameLease
  <2>1. CASE \E x \in {"failed", "decommissioned"} : b = [a EXCEPT !.status = x]
    BY <2>1 DEF Row, Quiet, StageOk, SameLease
  <2>2. CASE a.state = "live" /\ b = [a EXCEPT !.state = "deleted", !.status = "decommissioned"]
    <3>1. /\ b.state = "deleted" /\ b.prov = a.prov /\ b.port = a.port /\ b.tg = a.tg
          /\ b.rule = a.rule /\ b.prio = a.prio /\ b.retries = a.retries /\ b.lease = a.lease
      BY <2>2 DEF Row
    <3>2. b \in Row
      BY Zenon, <2>2 DEF Row
    <3>. QED
      BY Zenon, <2>0, <2>2, <3>1, <3>2 DEF Quiet, StageOk, SameLease
  <2>3. CASE b = [a EXCEPT !.expired = TRUE] \/ b = [a EXCEPT !.due = TRUE]
    <3>1. /\ b.state = a.state /\ b.prov = a.prov /\ b.port = a.port /\ b.tg = a.tg
          /\ b.rule = a.rule /\ b.prio = a.prio /\ b.retries = a.retries /\ b.lease = a.lease
      BY <2>3 DEF Row
    <3>2. b \in Row
      BY ZenonT(40), <2>3 DEF Row
    <3>. QED
      BY Zenon, <2>0, <2>3, <3>1, <3>2 DEF Quiet, StageOk, SameLease
  <2>5. CASE b = QueueGatewayDeprovisioning(a)
    <3>0. PICK d \in BOOLEAN : d = (a.prov = "deprovisioning" /\ a.due)
      BY Zenon
    <3>1. PICK m : m = Mark(a, "deprovisioning", d)
      BY Zenon
    <3>2. /\ m \in Row /\ m.state = a.state /\ m.prio = a.prio /\ m.tg = a.tg /\ m.rule = a.rule
          /\ m.lease = None /\ m.port = a.port /\ m.prov = "deprovisioning" /\ m.retries = a.retries
      BY ZenonT(40), <3>1 DEF Mark, Row, Provs, Stages
    <3>3. PICK n \in 0 .. MaxRetries :
            b = [m EXCEPT !.status = "draining", !.retries = n]
      <4>1. 0 \in 0 .. MaxRetries /\ m.retries \in 0 .. MaxRetries
        BY <3>2, BoundAssumption DEF Row
      <4>. QED
        BY Zenon, <2>5, <3>0, <3>1, <3>2, <4>1 DEF QueueGatewayDeprovisioning
    <3>4. /\ b \in Row /\ b.state = a.state /\ b.prio = a.prio /\ b.tg = a.tg /\ b.rule = a.rule
          /\ b.lease = None /\ b.port = a.port /\ b.prov = "deprovisioning"
      BY ZenonT(40), <3>2, <3>3 DEF Row
    <3>. QED
      BY <3>4 DEF Quiet, StageOk, Stages
  <2>. QED
    BY Zenon, <2>1, <2>2, <2>3, <2>5

\* One row changes.
<1>OneRow.
    ASSUME IInv, NEW g \in Gateways, NEW b, row' = [row EXCEPT ![g] = b],
           b \in Row /\ StageOk(b),
           b = row[g] \/ (row[g].state = "absent" /\ b = NewRow) \/ Quiet(row[g], b)
    PROVE  /\ row' \in [Gateways -> Row] /\ Quietly /\ \A h \in Gateways : StageOk(row'[h])
           /\ row'[g] = b /\ \A h \in Gateways \ {g} : row'[h] = row[h]
  <2>. USE <1>OneRow
  <2>1. row \in [Gateways -> Row] /\ \A h \in Gateways : StageOk(row[h])
    BY Zenon, StagesAre DEF IInv, TypeOK
  <2>2. row' \in [Gateways -> Row] /\ row'[g] = b /\ \A h \in Gateways \ {g} : row'[h] = row[h]
    BY Zenon, <2>1
  <2>. QED
    BY Zenon, <2>1, <2>2 DEF Quietly

\* A Provision call goes on, and the row with it.
<1>ApiMoves.
    ASSUME IInv, NEW g \in Gateways, NEW c \in CallRec, NEW b,
           call' = [call EXCEPT ![g] = c], row' = [row EXCEPT ![g] = b],
           b \in Row /\ StageOk(b),
           b = row[g] \/ (row[g].state = "absent" /\ b = NewRow) \/ Quiet(row[g], b),
           c.pc # "none" =>
              /\ b.state # "absent"
              /\ b.prov \in {"not_started", "deprovisioning", "failed", "deprovisioned"}
              /\ c.pc = "healthy" => c.port # None,
           containers' \in [Gateways -> Ports \cup {None}], Fault \/ UNCHANGED faults,
           UNCHANGED <<wk, stale, alb>>
    PROVE  IInv'
  <2>. USE <1>ApiMoves
  <2>1. /\ row' \in [Gateways -> Row] /\ Quietly /\ \A h \in Gateways : StageOk(row'[h])
        /\ row'[g] = b /\ \A h \in Gateways \ {g} : row'[h] = row[h]
    BY Zenon, <1>OneRow
  <2>2. call \in [Gateways -> CallRec]
    BY Zenon DEF IInv, TypeOK, CallRec
  <2>3. /\ call' \in [Gateways -> CallRec] /\ call'[g] = c
        /\ \A h \in Gateways \ {g} : call'[h] = call[h]
    BY Zenon, <2>2
  <2>4. TypeOK'
    BY Zenon, <2>1, <2>3, FaultOk DEF IInv, TypeOK, CallRec, alb
  <2>5. ASSUME NEW h \in Gateways
        PROVE  CallOk(h)'
    <3>1. CASE h = g
      BY Zenon, <2>1, <2>3, <3>1 DEF CallOk
    <3>2. CASE h # g
      BY Zenon, <2>1, <2>3, <3>2 DEF IInv, CallOk
    <3>. QED
      BY Zenon, <3>1, <3>2
  <2>. QED
    BY Zenon, <2>1, <2>4, <2>5, <1>QuietRows DEF alb

\* MarkContainerReady finds a gateway nobody has begun to expose.
<1>ReadyIs.
    ASSUME NEW a \in Row, NEW p \in Ports, NEW b, b = MarkContainerReady(a, p), a.prov \notin Stages
    PROVE  /\ b \in Row /\ Quiet(a, b) /\ StageOk(b)
           /\ b.prov = "container_ready" /\ b.port = p /\ b.tg = a.tg /\ b.state = a.state
           /\ b.status = "provisioning"
  <2>. USE <1>ReadyIs
  <2>1. 0 \in 0 .. MaxRetries /\ a.retries \in Nat
    BY BoundAssumption DEF Row
  <2>2. /\ b.state = a.state /\ b.prov = "container_ready" /\ b.port = p /\ b.tg = a.tg
        /\ b.rule = a.rule /\ b.prio = a.prio /\ b.retries = 0 /\ b.lease = a.lease
        /\ b.status = "provisioning"
    BY DEF MarkContainerReady, Row
  <2>3. b \in Row
    BY Zenon, <2>1 DEF MarkContainerReady, Row, Provs, Stages
  <2>4. 0 <= a.retries /\ p # None
    BY <2>1, NoneAssumption
  <2>5. Quiet(a, b)
    BY Zenon, <2>2, <2>4 DEF Quiet, SameLease
  <2>6. StageOk(b)
    BY <2>2, <2>4 DEF StageOk, Stages
  <2>. QED
    BY Zenon, <2>2, <2>3, <2>5, <2>6

\* Every step of the admin API keeps the invariant.
<1>ApiKeeps.
    ASSUME IInv, ApiStep
    PROVE  IInv'
  <2>. USE <1>ApiKeeps
  <2>g. PICK g \in Gateways :
          \/ Provision(g) \/ ContainerHealthy(g) \/ ContainerFails(g) \/ RegisterEndpoint(g)
          \/ \E p \in Ports : StartContainer(g, p)
          \/ ApiCrash(g) \/ Decommission(g) \/ ForceDecommission(g)
    BY Zenon DEF ApiStep
  <2>0. /\ row \in [Gateways -> Row] /\ row[g] \in Row /\ StageOk(row[g])
        /\ call \in [Gateways -> CallRec] /\ call[g] \in CallRec /\ CallOk(g)
        /\ containers \in [Gateways -> Ports \cup {None}]
    BY Zenon, StagesAre DEF IInv, TypeOK, CallRec
  <2>a. PICK a \in Row : a = row[g]
    BY Zenon, <2>0
  <2>c. PICK c \in CallRec : c = call[g]
    BY Zenon, <2>0
  <2>r. row = [row EXCEPT ![g] = a] /\ call = [call EXCEPT ![g] = c]
    BY <2>0, <2>a, <2>c
  <2>1. CASE Provision(g)
    <3>1. PICK d : d = [c EXCEPT !.pc = "starting"]
      BY Zenon
    <3>2. d \in CallRec /\ d.pc = "starting"
      BY <3>1 DEF CallRec
    <3>3. call' = [call EXCEPT ![g] = d] /\ row' = [row EXCEPT ![g] = NewRow]
      BY Zenon, <2>1, <2>c, <3>1 DEF Provision
    <3>4. row[g].state = "absent" /\ UNCHANGED <<wk, stale, containers, alb, faults>>
      BY Zenon, <2>1 DEF Provision
    <3>5. d.pc # "none" /\ d.pc # "healthy"
      BY <3>2
    <3>. QED
      BY Zenon, <2>0, <3>2, <3>3, <3>4, <3>5, NewRowIs, <1>ApiMoves
  <2>2. CASE ContainerHealthy(g)
    <3>1. PICK d : d = [pc |-> "healthy", port |-> containers[g]]
      BY Zenon
    <3>2. d \in CallRec /\ d.pc = "healthy" /\ d.port # None
      BY <2>0, <2>2, <3>1 DEF CallRec, ContainerHealthy
    <3>3. call' = [call EXCEPT ![g] = d] /\ row' = row /\ c.pc # "none"
      BY <2>2, <2>c, <3>1 DEF ContainerHealthy
    <3>5. /\ row' = [row EXCEPT ![g] = a] /\ a.state # "absent" /\ StageOk(a)
          /\ a.prov \in {"not_started", "deprovisioning", "failed", "deprovisioned"}
      BY Zenon, <2>0, <2>a, <2>c, <2>r, <3>3 DEF CallOk
    <3>. QED
      BY Zenon, <2>0, <2>2, <2>a, <3>2, <3>3, <3>5, <1>ApiMoves DEF ContainerHealthy
  <2>3. CASE ContainerFails(g)
    <3>1. PICK b : b = IF Live(g) THEN [a EXCEPT !.status = "failed"] ELSE a
      BY Zenon
    <3>2. row' = [row EXCEPT ![g] = b]
      <4>1. row' = [row EXCEPT ![g] = [a EXCEPT !.status = IF Live(g) THEN "failed" ELSE a.status]]
        BY Zenon, <2>3, <2>a DEF ContainerFails
      <4>2. a = [a EXCEPT !.status = a.status]
        BY DEF Row
      <4>. QED
        BY Zenon, <3>1, <4>1, <4>2
    <3>3. b = a \/ b = [a EXCEPT !.status = "failed"]
      BY Zenon, <3>1
    <3>4. b \in Row /\ StageOk(b) /\ (b = a \/ Quiet(a, b))
      BY Zenon, <2>0, <2>a, <3>3, <1>Edits
    <3>5. /\ containers' \in [Gateways -> Ports \cup {None}] /\ call' = [call EXCEPT ![g] = NoCall]
          /\ Fault \/ UNCHANGED faults
          /\ UNCHANGED <<wk, stale, alb>>
      BY Zenon, <2>0, <2>3 DEF ContainerFails
    <3>. QED
      BY Zenon, <2>a, <3>2, <3>4, <3>5, NoCallIs, <1>ApiMoves
  <2>4. CASE RegisterEndpoint(g)
    <3>0. c.pc = "healthy" /\ c.port \in Ports /\ a.prov \notin Stages /\ a.prov # "completed"
      <4>1. c.pc = "healthy"
        BY Zenon, <2>4, <2>c DEF RegisterEndpoint
      <4>2. /\ a.prov \in {"not_started", "deprovisioning", "failed", "deprovisioned"}
            /\ c.port # None
        BY <2>0, <2>a, <2>c, <4>1 DEF CallOk
      <4>. QED
        BY <4>1, <4>2 DEF CallRec, Stages
    <3>1. PICK b : b = IF Live(g) THEN MarkContainerReady(a, c.port) ELSE a
      BY Zenon
    <3>2. row' = [row EXCEPT ![g] = b] /\ call' = [call EXCEPT ![g] = NoCall]
      BY Zenon, <2>4, <2>a, <2>c, <3>1 DEF RegisterEndpoint
    <3>3. b \in Row /\ StageOk(b) /\ (b = a \/ Quiet(a, b))
      BY Zenon, <2>0, <2>a, <3>0, <3>1, <1>ReadyIs
    <3>. QED
      BY Zenon, <2>0, <2>4, <2>a, <3>2, <3>3, NoCallIs, <1>ApiMoves DEF RegisterEndpoint
  <2>5. ASSUME NEW p \in Ports, StartContainer(g, p)
        PROVE  IInv'
    <3>1. PICK d : d = [c EXCEPT !.pc = "waiting"]
      BY Zenon
    <3>2. d \in CallRec /\ d.pc = "waiting" /\ d.pc # "healthy"
      BY <3>1 DEF CallRec
    <3>3. call' = [call EXCEPT ![g] = d] /\ row' = row /\ c.pc # "none"
      BY <2>5, <2>c, <3>1 DEF StartContainer
    <3>4. containers' \in [Gateways -> Ports \cup {None}]
      BY Zenon, <2>0, <2>5 DEF StartContainer
    <3>5. /\ row' = [row EXCEPT ![g] = a] /\ a.state # "absent" /\ StageOk(a)
          /\ a.prov \in {"not_started", "deprovisioning", "failed", "deprovisioned"}
      BY Zenon, <2>0, <2>a, <2>c, <2>r, <3>3 DEF CallOk
    <3>. QED
      BY Zenon, <2>0, <2>5, <2>a, <3>2, <3>3, <3>4, <3>5, <1>ApiMoves DEF StartContainer
  <2>6. CASE ApiCrash(g)
    BY Zenon, <2>0, <2>6, <2>a, <2>r, NoCallIs, <1>ApiMoves DEF ApiCrash
  <2>7. CASE Decommission(g)
    <3>1. PICK b : b = QueueGatewayDeprovisioning(a)
      BY Zenon
    <3>2. row' = [row EXCEPT ![g] = b]
      BY Zenon, <2>7, <2>a, <3>1 DEF Decommission
    <3>3. b \in Row /\ StageOk(b) /\ Quiet(a, b) /\ b.prov \in {a.prov, "deprovisioning"}
      BY Zenon, <2>0, <2>a, <3>1, <1>Edits
    <3>4. c.pc # "none" =>
            /\ b.state # "absent"
            /\ b.prov \in {"not_started", "deprovisioning", "failed", "deprovisioned"}
            /\ c.pc = "healthy" => c.port # None
      BY Zenon, <2>0, <2>a, <2>c, <3>3 DEF CallOk, Quiet
    <3>. QED
      BY Zenon, <2>0, <2>7, <2>a, <2>r, <3>2, <3>3, <3>4, <1>ApiMoves DEF Decommission
  <2>8. CASE ForceDecommission(g)
    <3>1. PICK b : b = [a EXCEPT !.status = "decommissioned"]
      BY Zenon
    <3>2. row' = [row EXCEPT ![g] = b]
      BY Zenon, <2>8, <2>a, <3>1 DEF ForceDecommission
    <3>3. b \in Row /\ StageOk(b) /\ Quiet(a, b) /\ b.prov \in {a.prov, "deprovisioning"}
      BY Zenon, <2>0, <2>a, <3>1, <1>Edits
    <3>4. c.pc # "none" =>
            /\ b.state # "absent"
            /\ b.prov \in {"not_started", "deprovisioning", "failed", "deprovisioned"}
            /\ c.pc = "healthy" => c.port # None
      BY Zenon, <2>0, <2>a, <2>c, <3>3 DEF CallOk, Quiet
    <3>5. containers' \in [Gateways -> Ports \cup {None}] /\ (Fault \/ UNCHANGED faults)
      BY Zenon, <2>0, <2>8 DEF ForceDecommission
    <3>. QED
      BY Zenon, <2>0, <2>8, <2>a, <2>r, <3>2, <3>3, <3>4, <3>5, <1>ApiMoves DEF ForceDecommission
  <2>. QED
    BY Zenon, <2>g, <2>1, <2>2, <2>3, <2>4, <2>5, <2>6, <2>7, <2>8

\* At most one row changes, and no call.
<1>BackMoves.
    ASSUME IInv, NEW g \in Gateways, NEW b, row' = [row EXCEPT ![g] = b],
           b \in Row /\ StageOk(b), b = row[g] \/ Quiet(row[g], b),
           b.prov \in {row[g].prov, "deprovisioning"},
           stale' \subseteq Gateways, containers' \in [Gateways -> Ports \cup {None}],
           pinned' \subseteq TgArns, Fault \/ UNCHANGED faults,
           UNCHANGED <<wk, call, tgs, targets, rules>>
    PROVE  IInv'
  <2>. USE <1>BackMoves
  <2>1. /\ row' \in [Gateways -> Row] /\ Quietly /\ \A h \in Gateways : StageOk(row'[h])
        /\ row'[g] = b /\ \A h \in Gateways \ {g} : row'[h] = row[h]
    BY Zenon, <1>OneRow
  <2>2. TypeOK'
    BY Zenon, <2>1, FaultOk DEF IInv, TypeOK
  <2>3. ASSUME NEW h \in Gateways
        PROVE  CallOk(h)'
    <3>1. CASE h = g
      BY Zenon, <2>1, <3>1 DEF IInv, CallOk, Quiet
    <3>2. CASE h # g
      BY Zenon, <2>1, <3>2 DEF IInv, CallOk
    <3>. QED
      BY Zenon, <3>1, <3>2
  <2>. QED
    BY Zenon, <2>1, <2>2, <2>3, <1>QuietRows

\* The reconciler, time and the custom-domain worker keep the invariant.
<1>BackKeeps.
    ASSUME IInv,
           \/ ListStaleDraining \/ EnvStep \/ \E g \in Gateways : reconcileStaleDraining(g)
    PROVE  IInv'
  <2>. USE <1>BackKeeps
  <2>0. /\ row \in [Gateways -> Row] /\ containers \in [Gateways -> Ports \cup {None}]
        /\ stale \subseteq Gateways /\ pinned \subseteq TgArns
        /\ \A g \in Gateways : row[g] \in Row /\ StageOk(row[g])
    BY Zenon, StagesAre DEF IInv, TypeOK
  <2>r. \A g \in Gateways : row = [row EXCEPT ![g] = row[g]]
    BY <2>0
  <2>1. ASSUME UNCHANGED <<row, wk, call, containers, tgs, targets, rules, faults>>,
               stale' \subseteq Gateways, pinned' \subseteq TgArns
        PROVE  IInv'
    <3>1. TypeOK' /\ Quietly
      BY Zenon, <2>1 DEF IInv, TypeOK, Quietly
    <3>2. \A g \in Gateways : CallOk(g)'
      BY Zenon, <2>1 DEF IInv, CallOk
    <3>. QED
      BY Zenon, <2>0, <2>1, <3>1, <3>2, <1>QuietRows
  <2>2. CASE ListStaleDraining
    BY Zenon, <2>0, <2>1, <2>2 DEF ListStaleDraining, alb
  <2>3. ASSUME NEW t \in TgArns, CustomDomainRule(t)
        PROVE  IInv'
    BY Zenon, <2>0, <2>1, <2>3 DEF CustomDomainRule
  <2>4. ASSUME NEW g \in Gateways, reconcileStaleDraining(g)
        PROVE  IInv'
    <3>1. PICK a \in Row : a = row[g] /\ StageOk(a)
      BY Zenon, <2>0
    <3>0. /\ stale' \subseteq Gateways /\ containers' \in [Gateways -> Ports \cup {None}]
          /\ Fault \/ UNCHANGED faults
          /\ UNCHANGED <<wk, call, tgs, targets, rules, pinned>>
      BY Zenon, <2>0, <2>4 DEF reconcileStaleDraining, alb
    <3>2. CASE UNCHANGED row
      BY Zenon, <2>0, <2>r, <3>0, <3>1, <3>2, <1>BackMoves
    <3>3. CASE row' = [row EXCEPT ![g] = IF Live(g)
                          THEN [@ EXCEPT !.state = "deleted", !.status = "decommissioned"]
                          ELSE @]
      <4>1. PICK b : b = IF Live(g)
                         THEN [a EXCEPT !.state = "deleted", !.status = "decommissioned"] ELSE a
        BY Zenon
      <4>2. row' = [row EXCEPT ![g] = b]
        BY Zenon, <3>1, <3>3, <4>1
      <4>3. b = a \/ (a.state = "live" /\ b = [a EXCEPT !.state = "deleted", !.status = "decommissioned"])
        BY Zenon, <3>1, <4>1 DEF Live
      <4>4. b \in Row /\ StageOk(b) /\ (b = a \/ Quiet(a, b)) /\ b.prov \in {a.prov, "deprovisioning"}
        BY Zenon, <3>1, <4>3, <1>Edits
      <4>. QED
        BY Zenon, <2>0, <3>0, <3>1, <4>2, <4>4, <1>BackMoves
    <3>. QED
      BY Zenon, <2>4, <3>2, <3>3 DEF reconcileStaleDraining
  <2>5. ASSUME NEW g \in Gateways, LeaseExpires(g) \/ RetryTimeComes(g)
        PROVE  IInv'
    <3>1. PICK a \in Row : a = row[g] /\ StageOk(a)
      BY Zenon, <2>0
    <3>2. PICK b : /\ b = [a EXCEPT !.expired = TRUE] \/ b = [a EXCEPT !.due = TRUE]
                   /\ row' = [row EXCEPT ![g] = b]
      BY Zenon, <2>5, <3>1 DEF LeaseExpires, RetryTimeComes
    <3>3. b \in Row /\ StageOk(b) /\ Quiet(a, b) /\ b.prov \in {a.prov, "deprovisioning"}
      BY Zenon, <3>1, <3>2, <1>Edits
    <3>4. (Fault \/ UNCHANGED faults) /\ UNCHANGED <<wk, call, stale, containers, alb>>
      BY Zenon, <2>5 DEF LeaseExpires, RetryTimeComes
    <3>. QED
      BY Zenon, <2>0, <3>1, <3>2, <3>3, <3>4, <1>BackMoves DEF alb
  <2>. QED
    BY Zenon, <2>2, <2>3, <2>4, <2>5 DEF EnvStep

\* A stuttering step keeps the invariant.
<1>StutterKeeps. IInv /\ UNCHANGED vars => IInv'
  <2>. SUFFICES ASSUME IInv, UNCHANGED vars PROVE IInv'
    OBVIOUS
  <2>1. /\ UNCHANGED <<row, wk, call, tgs, rules>>
        /\ UNCHANGED <<stale, containers, targets, pinned, faults>>
    BY Zenon DEF vars
  <2>2. TypeOK' /\ Quietly /\ \A g \in Gateways : StageOk(row'[g])
    BY Zenon, <2>1, StagesAre DEF IInv, TypeOK, Quietly
  <2>3. \A g \in Gateways : CallOk(g)'
    BY Zenon, <2>1 DEF IInv, CallOk
  <2>. QED
    BY Zenon, <2>1, <2>2, <2>3, <1>QuietRows

<1>. QED
  BY Zenon, <1>ApiKeeps, <1>BackKeeps, <1>StutterKeeps

----------------------------------------------------------------------------
(* Steps of a worker *)

\* A handler goes on with the job it has read.
SameJob(j, k) ==
    /\ k.g = j.g /\ k.lease = j.lease /\ k.prov = j.prov /\ k.port = j.port /\ k.tg = j.tg
    /\ k.rule = j.rule /\ k.retries = j.retries

\* What a call may return.
Arns == TgArns \cup RuleArns \cup {None}

\* A handler that has decided on its statement.
LEMMA DecidedIs ==
    ASSUME NEW j \in Job, NEW op \in Ops, NEW got \in Arns,
           NEW k, k = Decided(j, op, got)
    PROVE  /\ k \in Job /\ SameJob(j, k) /\ k.prio = j.prio
           /\ k.pc = "write" /\ k.op = op /\ k.got = got
<1>1. k \in Job
  BY Zenon DEF Decided, Job, Arns
<1>. QED
  BY <1>1 DEF Decided, Job, SameJob

\* A handler on its way to its next call.
LEMMA AtIs ==
    ASSUME NEW j \in Job, NEW pc \in Calls, NEW k, k = At(j, pc)
    PROVE  k \in Job /\ SameJob(j, k) /\ k.prio = j.prio /\ k.pc = pc /\ k.got = j.got
<1>1. k \in Job
  BY Zenon DEF At, Job
<1>. QED
  BY <1>1 DEF At, Job, SameJob

\* retryOrFail: the statement after a failed call.
LEMMA RetryIs ==
    ASSUME NEW j \in Job, NEW k, k = retryOrFail(j)
    PROVE  /\ k \in Job /\ SameJob(j, k) /\ k.prio = j.prio
           /\ k.pc = "write" /\ k.op \in {"retry", "fail"} /\ k.got = None
           /\ k.op = "retry" => k.retries + 1 < MaxRetries
<1>1. PICK op \in Ops : /\ op \in {"retry", "fail"}
                        /\ op = IF j.retries + 1 >= MaxRetries THEN "fail" ELSE "retry"
  BY DEF Ops
<1>2. k = Decided(j, op, None)
  BY Zenon, <1>1 DEF retryOrFail
<1>3. /\ k \in Job /\ SameJob(j, k) /\ k.prio = j.prio
      /\ k.pc = "write" /\ k.op = op /\ k.got = None
  <2>1. None \in Arns
    BY Zenon DEF Arns
  <2>. QED
    BY <1>1, <1>2, <2>1, DecidedIs
<1>4. op = "retry" => j.retries + 1 < MaxRetries
  <2>1. j.retries \in Nat /\ MaxRetries \in Nat
    BY BoundAssumption DEF Job
  <2>. QED
    BY <1>1, <2>1
<1>. QED
  BY Zenon, <1>1, <1>3, <1>4 DEF SameJob

\* The worker's next call or statement is in order, and what it was given is its gateway's.
Going(j, k) ==
    /\ SameJob(j, k) /\ k.prio = j.prio /\ k.pc # "idle"
    /\ IF k.pc = "write" THEN k.op \in Ops /\ OpOk(k) ELSE PcOk(k)

Traced(k) ==
    /\ \A t \in TgArns : k.got = t => UsesTg(k.g, t)
    /\ \A a \in RuleArns : k.got = a => UsesRule(k.g, a)

\* The job a worker is busy with.
LEMMA Busy ==
    ASSUME IInv, NEW w \in Workers, NEW j, j = wk[w], j.pc # "idle"
    PROVE  /\ j \in Job /\ j.g \in Gateways /\ j.lease \in Tokens
           /\ j.tg # None => j.port # None
           /\ j.prov \in Stages \cup {"deprovisioning"}
           /\ IF j.pc = "write" THEN j.op \in Ops /\ OpOk(j) ELSE PcOk(j)
           /\ RowOk(j, row[j.g]) /\ Released(j)
BY Zenon DEF IInv, TypeOK, Sound, JobOk

----------------------------------------------------------------------------
(* Statements of a worker *)

\* What a row and a job refer to was their gateway's.
TracedRow(g, b) ==
    /\ \A t \in TgArns : b.tg = t => UsesTg(g, t)
    /\ \A a \in RuleArns : b.rule = a => UsesRule(g, a)

TracedJob(k) ==
    k.g \in Gateways =>
        /\ Traced(k)
        /\ \A t \in TgArns : k.tg = t => UsesTg(k.g, t)
        /\ \A a \in RuleArns : k.rule = a => UsesRule(k.g, a)

PrioFrom(a, b) ==
    b.state = "live" => /\ a.state = "live"
                        /\ b.prio = a.prio \/ (a.prio = 0 /\ b.prio \in FreePriorities)

QuietProvs == {"not_started", "deprovisioning", "failed", "deprovisioned"}

\* A worker goes on to k, and the row of g becomes b in the same statement.
LEMMA RowMoves ==
    ASSUME IInv, NEW w \in Workers, NEW k \in Job, Becomes(w, k),
           NEW g \in Gateways, NEW b \in Row, row' = [row EXCEPT ![g] = b],
           UNCHANGED <<call, stale, containers, alb>>, Fault \/ UNCHANGED faults,
           StageOk(b), RowKept(Workers \ {w}, row[g], b), row[g].state # "absent",
           Sound(k)', call[g].pc # "none" => b.prov \in QuietProvs,
           TracedRow(g, b), TracedJob(k), PrioFrom(row[g], b)
    PROVE  IInv'
<1>0. /\ row \in [Gateways -> Row] /\ wk \in [Workers -> Job]
      /\ \A h \in Gateways : StageOk(row[h])
  BY Zenon, StagesAre DEF IInv, TypeOK
<1>1. /\ wk' \in [Workers -> Job] /\ wk'[w] = k /\ \A v \in Workers \ {w} : wk'[v] = wk[v]
      /\ row' \in [Gateways -> Row] /\ row'[g] = b
      /\ \A h \in Gateways \ {g} : row'[h] = row[h]
  BY Zenon, <1>0 DEF Becomes
<1>2. TypeOK'
  BY Zenon, <1>1, FaultOk DEF IInv, TypeOK, alb
<1>3. PICK R \in SUBSET Workers : R = Workers \ {w}
  BY Zenon
<1>s. \A a \in Row : RowKept(R, a, a)
  BY DEF SameLease, Row, RowKept
<1>4. Env(R)
  <2>1. ASSUME NEW h \in Gateways
        PROVE  RowKept(R, row[h], row'[h])
    BY Zenon, <1>0, <1>1, <1>3, <1>s
  <2>. QED
    BY Zenon, <1>1, <1>3, <2>1 DEF Env, alb
<1>5. ASSUME NEW v \in Workers
      PROVE  Sound(wk[v])'
  <2>1. CASE v = w
    BY Zenon, <1>1, <2>1 DEF Sound, Released
  <2>2. CASE v # w
    BY Zenon, <1>2, <1>3, <1>4, <2>2, OthersSound
  <2>. QED
    BY Zenon, <2>1, <2>2
<1>6. StagesRecorded'
  BY Zenon, <1>0, <1>1, StagesArePrimed
<1>7. ASSUME NEW h \in Gateways
      PROVE  CallOk(h)'
  <2>1. CASE h = g
    <3>1. b.state # "absent"
      BY Zenon DEF RowKept
    <3>. QED
      BY Zenon, <1>1, <2>1, <3>1 DEF IInv, CallOk, QuietProvs
  <2>2. CASE h # g
    BY Zenon, <1>1, <2>2 DEF IInv, CallOk
  <2>. QED
    BY Zenon, <2>1, <2>2
<1>8. TgsOwned'
  <2>1. ASSUME NEW t \in TgArns, NEW h \in Gateways, UsesTg(h, t)'
        PROVE  UsesTg(h, t)
    <3>1. CASE tgs'[t] = h
      BY Zenon, <3>1 DEF UsesTg, alb
    <3>2. CASE row'[h].tg = t
      <4>1. h = g => UsesTg(h, t)
        BY Zenon, <1>1, <3>2 DEF TracedRow
      <4>2. h # g => UsesTg(h, t)
        BY Zenon, <1>1, <3>2 DEF UsesTg
      <4>. QED
        BY Zenon, <4>1, <4>2
    <3>3. ASSUME NEW v \in Workers, wk'[v].g = h, t \in {wk'[v].tg, wk'[v].got}
          PROVE  UsesTg(h, t)
      <4>1. CASE v # w
        BY Zenon, <1>1, <3>3, <4>1 DEF UsesTg
      <4>2. CASE v = w
        BY Zenon, <1>1, <3>3, <4>2 DEF TracedJob, Traced
      <4>. QED
        BY Zenon, <4>1, <4>2
    <3>. QED
      BY Zenon, <2>1, <3>1, <3>2, <3>3 DEF UsesTg
  <2>. QED
    BY Zenon, <2>1 DEF IInv, TgsOwned
<1>9. RulesOwned'
  <2>1. ASSUME NEW t \in RuleArns, NEW h \in Gateways, UsesRule(h, t)'
        PROVE  UsesRule(h, t)
    <3>1. CASE \E x \in rules' : x.arn = t /\ x.g = h
      BY Zenon, <3>1 DEF UsesRule, alb
    <3>2. CASE row'[h].rule = t
      <4>1. h = g => UsesRule(h, t)
        BY Zenon, <1>1, <3>2 DEF TracedRow
      <4>2. h # g => UsesRule(h, t)
        BY Zenon, <1>1, <3>2 DEF UsesRule
      <4>. QED
        BY Zenon, <4>1, <4>2
    <3>3. ASSUME NEW v \in Workers, wk'[v].g = h, t \in {wk'[v].rule, wk'[v].got}
          PROVE  UsesRule(h, t)
      <4>1. CASE v # w
        BY Zenon, <1>1, <3>3, <4>1 DEF UsesRule
      <4>2. CASE v = w
        BY Zenon, <1>1, <3>3, <4>2 DEF TracedJob, Traced
      <4>. QED
        BY Zenon, <4>1, <4>2
    <3>. QED
      BY Zenon, <2>1, <3>1, <3>2, <3>3 DEF UsesRule
  <2>. QED
    BY Zenon, <2>1 DEF IInv, RulesOwned
<1>10. ListenerOk'
  <2>1. \A h \in Gateways : row[h].state # "absent" => row'[h].state # "absent"
    BY Zenon, <1>1 DEF RowKept
  <2>2. \A x \in rules : x.g \in Gateways
    BY DEF IInv, TypeOK
  <2>. QED
    BY Zenon, <2>1, <2>2 DEF IInv, ListenerOk, alb
<1>11. PrioritiesReserved'
  <2>1. \A x \in rules : x.g \in Gateways /\ row[x.g].state # "absent" /\ x.prio # 0
    BY DEF IInv, TypeOK, ListenerOk
  <2>2. ASSUME NEW h \in Gateways, row'[h].state = "live"
        PROVE  /\ row[h].state = "live"
               /\ \/ row'[h].prio = row[h].prio
                  \/ h = g /\ row[h].prio = 0 /\ row'[h].prio \in FreePriorities
    BY Zenon, <1>1, <2>2 DEF PrioFrom
  <2>3. \A x \in rules : Live(x.g)' => x.prio = row'[x.g].prio
    BY Zenon, <2>1, <2>2 DEF IInv, PrioritiesReserved, Live
  <2>4. \A p \in FreePriorities : \A h \in Gateways : row[h].state = "live" => row[h].prio # p
    BY Zenon DEF FreePriorities, Live
  <2>5. ASSUME NEW f \in Gateways, NEW h \in Gateways, f # h, Live(f)', Live(h)', row'[f].prio # 0
        PROVE  row'[f].prio # row'[h].prio
    <3>1. row[f].state = "live" /\ row[h].state = "live"
      BY Zenon, <2>2, <2>5 DEF Live
    <3>2. CASE f # g /\ h # g
      BY Zenon, <1>1, <2>5, <3>1, <3>2 DEF IInv, PrioritiesReserved, Live
    <3>3. CASE f = g
      <4>1. row'[h].prio = row[h].prio
        BY Zenon, <1>1, <2>5, <3>3
      <4>2. CASE row'[f].prio = row[f].prio
        BY Zenon, <2>5, <3>1, <4>1, <4>2 DEF IInv, PrioritiesReserved, Live
      <4>3. CASE row'[f].prio \in FreePriorities
        BY Zenon, <2>4, <3>1, <4>1, <4>3
      <4>. QED
        BY Zenon, <2>2, <2>5, <4>2, <4>3 DEF Live
    <3>4. CASE h = g
      <4>1. row'[f].prio = row[f].prio
        BY Zenon, <1>1, <2>5, <3>4
      <4>2. CASE row'[h].prio = row[h].prio
        BY Zenon, <2>5, <3>1, <4>1, <4>2 DEF IInv, PrioritiesReserved, Live
      <4>3. CASE row'[h].prio \in FreePriorities
        BY Zenon, <2>4, <3>1, <4>1, <4>3
      <4>. QED
        BY Zenon, <2>2, <2>5, <4>2, <4>3 DEF Live
    <3>. QED
      BY Zenon, <3>2, <3>3, <3>4
  <2>. QED
    BY Zenon, <2>3, <2>5 DEF PrioritiesReserved, alb
<1>. QED
  BY Zenon, <1>2, <1>5, <1>6, <1>7, <1>8, <1>9, <1>10, <1>11 DEF IInv

\* A worker between two jobs.
LEMMA IdleIs == Idle \in Job /\ Idle.pc = "idle" /\ Idle.g = None
BY BoundAssumption DEF Idle, Job

\* An idle worker relies on nothing.
LEMMA IdleSound == Sound(Idle)'
BY Zenon, IdleIs DEF Sound, JobOk

\* An idle worker holds nothing.
LEMMA IdleTraced == TracedJob(Idle)
BY Zenon, IdleIs, NoneAssumption DEF TracedJob

\* The UPDATE of a worker that still holds the lease: whatever it records the handler
\* has read or was given.
LEMMA WriteBackIs ==
    ASSUME NEW a \in Row, NEW j \in Job, j.op \in Ops, OpOk(j), RowOk(j, a), StageOk(a),
           j.prov \in Stages \cup {"deprovisioning"}, LeaseHeld(a, j),
           NEW b, b = WriteBack(a, j)
    PROVE  /\ b \in Row /\ StageOk(b) /\ b.state # "absent" /\ b.lease = None
           /\ b.state = "live" => b.prio = a.prio
           /\ b.tg \in {a.tg, None, j.got} /\ b.rule \in {a.rule, None, j.got}
           /\ a.prov \in QuietProvs => b.prov \in QuietProvs
<1>1. /\ a.state = "live" /\ a.tg = j.tg /\ a.rule = j.rule
      /\ j.prov # "deprovisioning" => a.prov = j.prov /\ a.port = j.port
      /\ j.prio # 0 => a.prio = j.prio
      /\ a.retries <= j.retries
  BY Zenon DEF LeaseHeld, RowOk
<1>2. CASE j.op = "tg_created"
  <2>1. b = MarkGatewayTargetGroupCreated(a, j.got) /\ j.got \in TgArns /\ a.prov = "container_ready"
    BY <1>1, <1>2 DEF WriteBack, OpOk
  <2>2. /\ b \in Row /\ b.state = a.state /\ b.lease = None /\ b.prio = a.prio
        /\ b.tg = j.got /\ b.rule = a.rule /\ b.prov = "registering_target" /\ b.port = a.port
    BY Zenon, <2>1 DEF MarkGatewayTargetGroupCreated, Mark, Row, Provs, Stages
  <2>. QED
    BY <1>1, <2>1, <2>2, NoneAssumption DEF StageOk, Stages, QuietProvs
<1>3. CASE j.op = "registered"
  <2>1. b = MarkGatewayTargetRegistered(a) /\ a.prov = "registering_target"
    BY <1>1, <1>3 DEF WriteBack, OpOk
  <2>2. /\ b \in Row /\ b.state = a.state /\ b.lease = None /\ b.prio = a.prio
        /\ b.tg = a.tg /\ b.rule = a.rule /\ b.prov = "creating_listener_rule" /\ b.port = a.port
    BY Zenon, <2>1 DEF MarkGatewayTargetRegistered, Mark, Row, Provs, Stages
  <2>. QED
    BY <1>1, <2>1, <2>2, NoneAssumption DEF StageOk, Stages, QuietProvs
<1>4. CASE j.op = "rule_created"
  <2>1. /\ b = MarkGatewayListenerRuleCreated(a, j.got) /\ a.prov = "creating_listener_rule"
        /\ j.got \in RuleArns /\ a.prio # 0
    BY <1>1, <1>4 DEF WriteBack, OpOk
  <2>2. /\ b \in Row /\ b.state = a.state /\ b.lease = None /\ b.prio = a.prio
        /\ b.tg = a.tg /\ b.rule = j.got /\ b.prov = "waiting_for_target_health"
        /\ b.port = a.port
    BY Zenon, <2>1 DEF MarkGatewayListenerRuleCreated, Mark, Row, Provs, Stages
  <2>. QED
    BY <1>1, <2>1, <2>2, NoneAssumption DEF StageOk, Stages, QuietProvs
<1>5. CASE j.op = "reschedule"
  <2>1. b = Mark(a, a.prov, FALSE)
    BY <1>1, <1>5 DEF WriteBack, RescheduleGatewayHealthCheck
  <2>2. /\ b \in Row /\ b.state = a.state /\ b.lease = None /\ b.prio = a.prio
        /\ b.tg = a.tg /\ b.rule = a.rule /\ b.prov = a.prov /\ b.port = a.port
    BY Zenon, <2>1 DEF Mark, Row
  <2>. QED
    BY Zenon, <1>1, <2>1, <2>2 DEF StageOk
<1>6. CASE j.op = "active"
  <2>1. b = MarkGatewayIngressActive(a) /\ a.prov = "waiting_for_target_health"
    BY <1>1, <1>6 DEF WriteBack, OpOk
  <2>2. /\ b \in Row /\ b.state = a.state /\ b.lease = None /\ b.prio = a.prio
        /\ b.tg = a.tg /\ b.rule = a.rule /\ b.prov = "completed" /\ b.port = a.port
    BY Zenon, <2>1 DEF MarkGatewayIngressActive, Mark, Row, Provs, Stages
  <2>. QED
    BY <1>1, <2>1, <2>2 DEF StageOk, Stages, QuietProvs
<1>7. CASE j.op = "retry"
  <2>1. b = ScheduleGatewayIngressRetry(a) /\ j.retries + 1 < MaxRetries
    BY <1>1, <1>7 DEF WriteBack, OpOk
  <2>2. a.retries + 1 \in 0 .. MaxRetries
    BY <1>1, <2>1, BoundAssumption DEF Row, Job
  <2>3. /\ b \in Row /\ b.state = a.state /\ b.lease = None /\ b.prio = a.prio
        /\ b.tg = a.tg /\ b.rule = a.rule /\ b.prov = a.prov /\ b.port = a.port
    BY Zenon, <2>1, <2>2 DEF ScheduleGatewayIngressRetry, Mark, Row
  <2>. QED
    BY Zenon, <1>1, <2>3 DEF StageOk
<1>8. CASE j.op = "fail"
  <2>1. b = MarkGatewayIngressFailed(a)
    BY <1>1, <1>8 DEF WriteBack
  <2>2. /\ b \in Row /\ b.state = a.state /\ b.lease = None /\ b.prio = a.prio
        /\ b.tg = a.tg /\ b.rule = a.rule /\ b.prov = "failed" /\ b.port = a.port
    BY Zenon, <2>1 DEF MarkGatewayIngressFailed, Mark, Row, Provs, Stages
  <2>. QED
    BY <1>1, <2>1, <2>2 DEF StageOk, Stages, QuietProvs
<1>9. CASE j.op = "decommissioned"
  <2>1. b = MarkGatewayDecommissioned(a)
    BY <1>1, <1>9 DEF WriteBack
  <2>2. /\ b \in Row /\ b.state = "deleted" /\ b.lease = None
        /\ b.tg = None /\ b.rule = None /\ b.prov = "deprovisioned"
    <3>1. 0 \in 0 .. MaxPriority
      BY BoundAssumption
    <3>2. b \in Row
      BY ZenonT(40), <2>1, <3>1 DEF MarkGatewayDecommissioned, Mark, Row, Provs
    <3>3. /\ b.state = "deleted" /\ b.lease = None
          /\ b.tg = None /\ b.rule = None /\ b.prov = "deprovisioned"
      BY <2>1 DEF MarkGatewayDecommissioned, Mark, Row
    <3>. QED
      BY Zenon, <3>2, <3>3
  <2>. QED
    BY <1>1, <2>1, <2>2 DEF StageOk, Stages, QuietProvs
<1>. QED
  BY <1>2, <1>3, <1>4, <1>5, <1>6, <1>7, <1>8, <1>9 DEF Ops

\* The statement a handler ends with, and a process that dies.
LEMMA WriteKeeps ==
    ASSUME IInv, NEW w \in Workers, Write(w) \/ Crash(w)
    PROVE  IInv'
<1>p. PICK j : j = wk[w]
  BY Zenon
<1>0. j.pc # "idle"
  BY <1>p DEF Write, Crash
<1>1. /\ j \in Job /\ j.g \in Gateways /\ j.prov \in Stages \cup {"deprovisioning"}
      /\ j.pc = "write" => j.op \in Ops /\ OpOk(j)
      /\ RowOk(j, row[j.g])
  BY Zenon, <1>p, <1>0, Busy
<1>2. PICK g \in Gateways : g = j.g
  BY Zenon, <1>1
<1>3. PICK a \in Row : a = row[g] /\ StageOk(a)
  BY Zenon, StagesAre DEF IInv, TypeOK
<1>4. PICK b : b = IF j.pc = "write" /\ Write(w) /\ LeaseHeld(a, j) THEN WriteBack(a, j) ELSE a
  BY Zenon
<1>5. /\ b \in Row /\ StageOk(b) /\ b.state # "absent" /\ (b.lease = None \/ b = a)
      /\ b.state = "live" => b.prio = a.prio
      /\ b.tg \in {a.tg, None, j.got} /\ b.rule \in {a.rule, None, j.got}
      /\ a.prov \in QuietProvs => b.prov \in QuietProvs
  <2>1. CASE j.pc = "write" /\ Write(w) /\ LeaseHeld(a, j)
    <3>1. b = WriteBack(a, j) /\ j.op \in Ops /\ OpOk(j) /\ RowOk(j, a)
      BY Zenon, <1>1, <1>2, <1>3, <1>4, <2>1
    <3>. QED
      BY <1>1, <1>3, <2>1, <3>1, WriteBackIs
  <2>2. CASE ~ (j.pc = "write" /\ Write(w) /\ LeaseHeld(a, j))
    BY Zenon, <1>1, <1>2, <1>3, <1>4, <2>2 DEF RowOk
  <2>. QED
    BY Zenon, <2>1, <2>2
<1>6. /\ row' = [row EXCEPT ![g] = b] /\ Becomes(w, Idle)
      /\ UNCHANGED <<call, stale, containers, alb>> /\ (Fault \/ UNCHANGED faults)
  <2>1. CASE Write(w)
    BY Zenon, <1>p, <1>2, <1>3, <1>4, <2>1 DEF Write
  <2>2. CASE Crash(w) /\ ~ Write(w)
    <3>1. row' = row /\ b = row[g] /\ row \in [Gateways -> Row]
      BY Zenon, <1>3, <1>4, <2>2 DEF Crash, IInv, TypeOK
    <3>2. row' = [row EXCEPT ![g] = b]
      BY <3>1
    <3>. QED
      BY Zenon, <2>2, <3>2 DEF Crash
  <2>. QED
    BY Zenon, <2>1, <2>2
<1>7. RowKept(Workers \ {w}, a, b)
  <2>1. \A v \in Workers : wk[v].pc # "idle" => wk[v].lease \in Tokens
    BY Zenon, Busy
  <2>2. a.state # "absent" /\ a.retries <= a.retries /\ b.state # "absent"
    BY <1>1, <1>2, <1>3, <1>5 DEF RowOk, Row
  <2>3. b.state = "live" => a.state = "live"
    BY Zenon, <1>3, <1>4 DEF LeaseHeld
  <2>. QED
    BY Zenon, <1>5, <2>1, <2>2, <2>3, NoneAssumption DEF RowKept, SameLease
<1>8. TracedRow(g, b)
  BY Zenon, <1>p, <1>2, <1>3, <1>5, NoneAssumption DEF TracedRow, UsesTg, UsesRule
<1>9. PrioFrom(a, b) /\ a.state # "absent"
  BY Zenon, <1>1, <1>2, <1>3, <1>4, <1>5 DEF PrioFrom, LeaseHeld, RowOk
<1>10. call[g].pc # "none" => b.prov \in QuietProvs
  BY Zenon, <1>3, <1>5 DEF IInv, CallOk, QuietProvs
<1>. QED
  BY Zenon, <1>3, <1>5, <1>6, <1>7, <1>8, <1>9, <1>10, RowMoves, IdleIs, IdleSound, IdleTraced

\* The calls of the handlers, and the transaction that reserves a priority, keep the
\* invariant.
LEMMA WorkersKeep ==
    \A w \in Workers :
       /\ IInv
       /\ \/ CreateGatewayTargetGroup(w) \/ RegisterGatewayTarget(w) \/ CreateGatewayHostRule(w)
          \/ GetGatewayTargetHealth(w) \/ TargetNotSettled(w) \/ DeleteGatewayHostRule(w)
          \/ DeregisterGatewayTarget(w) \/ DeleteGatewayTargetGroup(w) \/ RemoveContainer(w)
          \/ CallFails(w) \/ ReserveGatewayListenerRulePriority(w)
       => IInv'
\* A call fails or its answer is lost.
<1>RetryGoes.
    ASSUME IInv, NEW w \in Workers, wk[w].pc # "idle", NEW k, k = retryOrFail(wk[w])
    PROVE  k \in Job /\ Going(wk[w], k) /\ Traced(k) /\ Released(k)'
  <2>. USE <1>RetryGoes
  <2>p. PICK j \in Job : j = wk[w]
    BY Zenon DEF IInv, TypeOK
  <2>1. /\ k \in Job /\ SameJob(j, k) /\ k.prio = j.prio
        /\ k.pc = "write" /\ k.op \in {"retry", "fail"} /\ k.got = None
        /\ k.op = "retry" => k.retries + 1 < MaxRetries
    BY Zenon, <2>p, RetryIs
  <2>2. k.op \in Ops /\ OpOk(k)
    BY <2>1 DEF Ops, OpOk
  <2>3. k.pc # "idle" /\ ~ PastRule(k) /\ ~ PastTg(k)
    BY <2>1 DEF PastRule, PastTg
  <2>4. Traced(k)
    BY Zenon, <2>1, NoneAssumption DEF Traced
  <2>. QED
    BY Zenon, <2>p, <2>1, <2>2, <2>3, <2>4 DEF Going, Released, PastRule, PastTg

\* A handler goes on while the other workers keep what they rely on.
<1>CallMoves.
    ASSUME IInv, TypeOK', NEW w \in Workers, wk[w].pc # "idle", NEW k \in Job, Becomes(w, k),
           Going(wk[w], k), Released(k)', UNCHANGED <<row, call>>,
           TgsOwned', RulesOwned', ListenerOk',
           \A x \in rules' : \/ x \in rules
                             \/ /\ \A v \in Workers : wk[v].rule # x.arn
                                /\ row[x.g].state = "live" => x.prio = row[x.g].prio,
           \A t \in TgArns : tgs'[t] \in {tgs[t], None} \/ \A v \in Workers : wk[v].tg # t
    PROVE  IInv'
  <2>. USE <1>CallMoves
  <2>p. PICK j \in Job : j = wk[w]
    BY Zenon DEF IInv, TypeOK
  <2>0. /\ row \in [Gateways -> Row] /\ wk \in [Workers -> Job]
        /\ wk'[w] = k /\ \A v \in Workers \ {w} : wk'[v] = wk[v]
    BY Zenon DEF IInv, TypeOK, Becomes
  <2>j. /\ Sound(j) /\ JobOk(j) /\ j.g \in Gateways /\ RowOk(j, row[j.g])
        /\ j.lease \in Tokens /\ j.prov \in Stages \cup {"deprovisioning"}
        /\ j.tg # None => j.port # None
    BY Zenon, <2>p DEF IInv, Sound, JobOk
  <2>k. /\ SameJob(j, k) /\ k.prio = j.prio /\ k.pc # "idle"
        /\ IF k.pc = "write" THEN k.op \in Ops /\ OpOk(k) ELSE PcOk(k)
    BY Zenon, <2>p DEF Going
  <2>1. PICK R \in SUBSET Workers : R = Workers \ {w}
    BY Zenon
  <2>s. \A a \in Row : RowKept(R, a, a)
    BY DEF SameLease, Row, RowKept
  <2>2. Env(R)
    BY Zenon, <2>0, <2>1, <2>s DEF Env
  <2>3. ASSUME NEW v \in Workers
        PROVE  Sound(wk[v])'
    <3>1. CASE v = w
      <4>1. JobOk(k)
        BY Zenon, <2>j, <2>k DEF JobOk, SameJob
      <4>2. RowOk(k, row[k.g])
        BY Zenon, <2>j, <2>k DEF RowOk, SameJob
      <4>3. Sound(k)'
        BY Zenon, <4>1, <4>2 DEF Sound, JobOk, RowOk, OpOk, PcOk
      <4>. QED
        BY Zenon, <2>0, <3>1, <4>3 DEF Sound, Released
    <3>2. CASE v # w
      BY Zenon, <2>1, <2>2, <3>2, OthersSound
    <3>. QED
      BY Zenon, <3>1, <3>2
  <2>7. PrioritiesReserved'
    BY Zenon DEF IInv, PrioritiesReserved, Live
  <2>8. StagesRecorded' /\ \A g \in Gateways : CallOk(g)'
    BY Zenon DEF IInv, StagesRecorded, CallOk
  <2>. QED
    BY Zenon, <2>3, <2>7, <2>8 DEF IInv

\* The load balancer may lose what is asked to be deleted, and nothing is created.
<1>ShrinkMoves.
    ASSUME IInv, TypeOK', NEW w \in Workers, wk[w].pc # "idle", NEW k \in Job, Becomes(w, k),
           Going(wk[w], k), Traced(k), Released(k)', UNCHANGED <<row, call>>,
           \A t \in TgArns : tgs'[t] \in {tgs[t], None}, rules' \subseteq rules,
           \A x \in rules' : tgs'[x.tg] = tgs[x.tg]
    PROVE  IInv'
  <2>. USE <1>ShrinkMoves
  <2>p. PICK j \in Job : j = wk[w]
    BY Zenon DEF IInv, TypeOK
  <2>0. wk'[w] = k /\ \A v \in Workers \ {w} : wk'[v] = wk[v]
    BY Zenon DEF IInv, TypeOK, Becomes
  <2>k. SameJob(j, k)
    BY Zenon, <2>p DEF Going
  <2>4. TgsOwned'
    <3>1. ASSUME NEW t \in TgArns, NEW g \in Gateways, UsesTg(g, t)'
          PROVE  UsesTg(g, t)
      <4>1. CASE tgs'[t] = g \/ row'[g].tg = t
        BY Zenon, <3>1, <4>1, NoneAssumption DEF UsesTg
      <4>2. ASSUME NEW v \in Workers, wk'[v].g = g, t \in {wk'[v].tg, wk'[v].got}
            PROVE  UsesTg(g, t)
        <5>1. CASE v # w
          BY Zenon, <2>0, <4>2, <5>1 DEF UsesTg
        <5>2. CASE v = w /\ t = k.tg
          BY Zenon, <2>0, <2>p, <2>k, <4>2, <5>2 DEF UsesTg, SameJob
        <5>3. CASE v = w /\ t = k.got
          BY Zenon, <2>0, <4>2, <5>3 DEF Traced
        <5>. QED
          BY Zenon, <2>0, <4>2, <5>1, <5>2, <5>3
      <4>. QED
        BY Zenon, <3>1, <4>1, <4>2 DEF UsesTg
    <3>. QED
      BY Zenon, <3>1 DEF IInv, TgsOwned
  <2>5. RulesOwned'
    <3>1. ASSUME NEW t \in RuleArns, NEW g \in Gateways, UsesRule(g, t)'
          PROVE  UsesRule(g, t)
      <4>1. CASE row'[g].rule = t \/ \E x \in rules' : x.arn = t /\ x.g = g
        BY Zenon, <3>1, <4>1, NoneAssumption DEF UsesRule
      <4>2. ASSUME NEW v \in Workers, wk'[v].g = g, t \in {wk'[v].rule, wk'[v].got}
            PROVE  UsesRule(g, t)
        <5>1. CASE v # w
          BY Zenon, <2>0, <4>2, <5>1 DEF UsesRule
        <5>2. CASE v = w /\ t = k.rule
          BY Zenon, <2>0, <2>p, <2>k, <4>2, <5>2 DEF UsesRule, SameJob
        <5>3. CASE v = w /\ t = k.got
          BY Zenon, <2>0, <4>2, <5>3 DEF Traced
        <5>. QED
          BY Zenon, <2>0, <4>2, <5>1, <5>2, <5>3
      <4>. QED
        BY Zenon, <3>1, <4>1, <4>2 DEF UsesRule
    <3>. QED
      BY Zenon, <3>1 DEF IInv, RulesOwned
  <2>6. ListenerOk'
    BY Zenon DEF IInv, ListenerOk
  <2>. QED
    BY Zenon, <2>4, <2>5, <2>6, <1>CallMoves

\* A call takes effect, and the handler goes on to k or to retryOrFail.
<1>ShrinkGoes.
    ASSUME IInv, NEW w \in Workers, wk[w].pc # "idle", NEW k \in Job, Goes(w, k),
           Going(wk[w], k), Traced(k), Released(k)', UNCHANGED <<row, call, stale, pinned>>,
           containers' \in [Gateways -> Ports \cup {None}],
           tgs' \in [TgArns -> Gateways \cup {None}], targets' \subseteq TgArns \X Ports,
           \A t \in TgArns : tgs'[t] \in {tgs[t], None}, rules' \subseteq rules,
           \A x \in rules' : tgs'[x.tg] = tgs[x.tg]
    PROVE  IInv'
  <2>. USE <1>ShrinkGoes
  <2>1. PICK q : q = retryOrFail(wk[w])
    BY Zenon
  <2>2. q \in Job /\ Going(wk[w], q) /\ Traced(q) /\ Released(q)'
    BY Zenon, <2>1, <1>RetryGoes
  <2>3. PICK n \in Job : n \in {k, q} /\ Becomes(w, n)
    BY Zenon, <2>1, <2>2 DEF Goes
  <2>4. Fault \/ UNCHANGED faults
    BY Zenon DEF Goes
  <2>5. wk' \in [Workers -> Job]
    BY Zenon, <2>3 DEF IInv, TypeOK, Becomes
  <2>6. TypeOK'
    BY Zenon, <2>4, <2>5, FaultOk DEF IInv, TypeOK
  <2>. QED
    BY Zenon, <2>2, <2>3, <2>6, <1>ShrinkMoves

\* A failed call changes nothing but the worker, and keeps the invariant.
<1>RetryMoves.
    ASSUME IInv, NEW w \in Workers, wk[w].pc # "idle", Becomes(w, retryOrFail(wk[w])),
           Fault \/ UNCHANGED faults, UNCHANGED <<row, call, stale, containers, alb>>
    PROVE  IInv'
  <2>. USE <1>RetryMoves
  <2>1. PICK q : q = retryOrFail(wk[w])
    BY Zenon
  <2>2. q \in Job /\ Going(wk[w], q) /\ Traced(q) /\ Released(q)' /\ Becomes(w, q)
    BY Zenon, <2>1, <1>RetryGoes
  <2>3. wk' \in [Workers -> Job]
    BY Zenon, <2>2 DEF IInv, TypeOK, Becomes
  <2>4. TypeOK'
    BY Zenon, <2>3, FaultOk DEF IInv, TypeOK, alb
  <2>5. /\ \A t \in TgArns : tgs'[t] \in {tgs[t], None}
        /\ rules' \subseteq rules /\ \A x \in rules' : tgs'[x.tg] = tgs[x.tg]
    BY Zenon DEF alb
  <2>. QED
    BY Zenon, <2>2, <2>4, <2>5, <1>ShrinkMoves

\* The calls of the handlers that create nothing.
<1>ExposeKeeps.
    ASSUME IInv, NEW w \in Workers,
           \/ RegisterGatewayTarget(w) \/ GetGatewayTargetHealth(w) \/ TargetNotSettled(w)
    PROVE  IInv'
  <2>. USE <1>ExposeKeeps
  <2>p. PICK j : j = wk[w]
    BY Zenon
  <2>0. j.pc \in {"register", "health"} /\ j.pc # "idle" /\ j.pc # "write"
    BY Zenon, <2>p DEF RegisterGatewayTarget, GetGatewayTargetHealth, TargetNotSettled
  <2>1. /\ j \in Job /\ j.g \in Gateways /\ PcOk(j)
    BY Zenon, <2>p, <2>0, Busy
  <2>2. UNCHANGED <<row, call, stale, containers, tgs, rules, pinned>>
    BY Zenon DEF RegisterGatewayTarget, GetGatewayTargetHealth, TargetNotSettled, Refused, alb
  <2>3. ASSUME NEW op \in {"registered", "active", "reschedule"}, Goes(w, Decided(j, op, None)),
               targets' \subseteq TgArns \X Ports,
               op = "registered" => j.pc = "register", op # "registered" => j.pc = "health"
        PROVE  IInv'
    <3>1. PICK k : k = Decided(j, op, None)
      BY Zenon
    <3>2. op \in Ops /\ None \in Arns
      BY <2>3 DEF Ops, Arns
    <3>3. /\ k \in Job /\ SameJob(j, k) /\ k.prio = j.prio
          /\ k.pc = "write" /\ k.op = op /\ k.got = None
      BY <2>1, <3>1, <3>2, DecidedIs
    <3>4. k.op \in Ops /\ OpOk(k) /\ ~ PastRule(k) /\ ~ PastTg(k)
      BY <2>1, <2>3, <3>2, <3>3 DEF OpOk, PcOk, SameJob, PastRule, PastTg
    <3>5. Going(wk[w], k) /\ Traced(k) /\ Released(k)'
      BY Zenon, <2>p, <2>0, <3>3, <3>4, NoneAssumption DEF Going, Traced, Released, PastRule, PastTg
    <3>6. /\ containers' \in [Gateways -> Ports \cup {None}]
          /\ tgs' \in [TgArns -> Gateways \cup {None}]
      BY Zenon, <2>2 DEF IInv, TypeOK
    <3>. QED
      BY Zenon, <2>p, <2>0, <2>2, <2>3, <3>1, <3>3, <3>5, <3>6, <1>ShrinkGoes
  <2>4. CASE Refused(w)
    BY Zenon, <2>p, <2>0, <2>2, <2>4, <1>RetryMoves DEF Refused, alb
  <2>5. CASE RegisterGatewayTarget(w) /\ ~ Refused(w)
    <3>1. /\ j.pc = "register" /\ targets' = targets \cup {<<j.tg, j.port>>}
          /\ Goes(w, Decided(j, "registered", None))
      BY Zenon, <2>p, <2>5 DEF RegisterGatewayTarget
    <3>2. j.tg \in TgArns /\ j.port \in Ports
      BY <2>1, <3>1 DEF PcOk, Job
    <3>3. targets' \subseteq TgArns \X Ports
      BY <3>1, <3>2 DEF IInv, TypeOK
    <3>. QED
      BY Zenon, <2>3, <3>1, <3>3
  <2>6. CASE (GetGatewayTargetHealth(w) \/ TargetNotSettled(w)) /\ ~ Refused(w)
    <3>1. /\ j.pc = "health" /\ UNCHANGED <<targets, faults>>
          /\ \/ Becomes(w, Decided(j, "active", None))
             \/ Becomes(w, Decided(j, "reschedule", None))
      BY Zenon, <2>p, <2>6 DEF GetGatewayTargetHealth, TargetNotSettled, alb
    <3>2. targets' \subseteq TgArns \X Ports
      BY Zenon, <3>1 DEF IInv, TypeOK
    <3>. QED
      BY Zenon, <2>3, <3>1, <3>2 DEF Goes
  <2>. QED
    BY Zenon, <2>4, <2>5, <2>6

\* handleDeprovisioning: the next call.
<1>CleanGoes.
    ASSUME IInv, NEW w \in Workers, NEW j, j = wk[w], j.pc \in Calls, j.prov = "deprovisioning",
           NEW pc \in {"deregister", "deleteTg", "removeContainer"},
           pc # "removeContainer" => j.tg # None,
           NEW k, k = At(j, pc), Traced(j)
    PROVE  /\ k \in Job /\ Going(j, k) /\ Traced(k)
           /\ SameJob(j, k) /\ k.pc = pc
  <2>. USE <1>CleanGoes
  <2>0. j.pc # "idle" /\ pc \in Calls
    BY DEF Calls
  <2>1. j \in Job /\ (j.tg # None => j.port # None)
    BY Zenon, <2>0, Busy
  <2>2. k \in Job /\ SameJob(j, k) /\ k.prio = j.prio /\ k.pc = pc /\ k.got = j.got
    BY <2>0, <2>1, AtIs
  <2>3. PcOk(k) /\ k.pc # "idle" /\ k.pc # "write"
    BY <2>1, <2>2 DEF PcOk, SameJob
  <2>4. Traced(k)
    BY Zenon, <2>2 DEF Traced, SameJob
  <2>. QED
    BY Zenon, <2>2, <2>3, <2>4 DEF Going

\* What a worker holds is its gateway's.
<1>JobTraced.
    ASSUME NEW w \in Workers, NEW j, j = wk[w]
    PROVE  Traced(j)
  BY Zenon, <1>JobTraced DEF Traced, UsesTg, UsesRule

\* The calls of handleDeprovisioning keep the invariant.
<1>CleanKeeps.
    ASSUME IInv, NEW w \in Workers,
           \/ DeleteGatewayHostRule(w) \/ DeregisterGatewayTarget(w)
           \/ DeleteGatewayTargetGroup(w) \/ RemoveContainer(w)
    PROVE  IInv'
  <2>. USE <1>CleanKeeps
  <2>p. PICK j : j = wk[w]
    BY Zenon
  <2>0. /\ j.pc \in {"deleteRule", "deregister", "deleteTg", "removeContainer"}
        /\ j.pc # "idle" /\ j.pc # "write" /\ j.pc \in Calls
    BY <2>p DEF DeleteGatewayHostRule, DeregisterGatewayTarget, DeleteGatewayTargetGroup,
         RemoveContainer, Calls
  <2>1. j \in Job /\ j.g \in Gateways /\ PcOk(j) /\ Released(j) /\ Traced(j)
    BY Zenon, <2>p, <2>0, Busy, <1>JobTraced
  <2>2. j.prov = "deprovisioning"
    BY Zenon, <2>0, <2>1 DEF PcOk
  <2>3. /\ tgs \in [TgArns -> Gateways \cup {None}] /\ targets \subseteq TgArns \X Ports
        /\ containers \in [Gateways -> Ports \cup {None}]
    BY Zenon DEF IInv, TypeOK
  <2>4. CASE DeleteGatewayHostRule(w)
    <3>1. PICK pc \in {"deregister", "removeContainer"} :
            /\ pc = "deregister" <=> j.tg # None
            /\ AfterRule(j) = At(j, pc)
      BY Zenon DEF AfterRule
    <3>2. PICK k : k = At(j, pc)
      BY Zenon
    <3>3. k \in Job /\ Going(j, k) /\ Traced(k) /\ SameJob(j, k) /\ k.pc = pc
      BY Zenon, <2>p, <2>0, <2>1, <2>2, <3>1, <3>2, <1>CleanGoes
    <3>4. /\ rules' = {x \in rules : x.arn # j.rule} /\ Goes(w, k)
          /\ UNCHANGED <<row, call, stale, containers, tgs, targets, pinned>>
      BY Zenon, <2>p, <2>4, <3>1, <3>2 DEF DeleteGatewayHostRule
    <3>5. Released(k)'
      <4>1. \A x \in rules' : x.arn # k.rule
        BY Zenon, <3>3, <3>4 DEF SameJob
      <4>2. ~ (PastTg(k) /\ k.tg # None)
        BY <3>1, <3>3 DEF SameJob, PastTg
      <4>. QED
        BY Zenon, <4>1, <4>2 DEF Released, PastTg, PastRule
    <3>. QED
      BY Zenon, <2>p, <2>0, <2>3, <3>3, <3>4, <3>5, <1>ShrinkGoes
  <2>5. CASE DeregisterGatewayTarget(w)
    <3>1. PICK k : k = At(j, "deleteTg")
      BY Zenon
    <3>2. j.tg # None /\ j.pc = "deregister"
      BY Zenon, <2>p, <2>1, <2>5 DEF DeregisterGatewayTarget, PcOk
    <3>3. k \in Job /\ Going(j, k) /\ Traced(k) /\ SameJob(j, k) /\ k.pc = "deleteTg"
      BY Zenon, <2>p, <2>0, <2>1, <2>2, <3>1, <3>2, <1>CleanGoes
    <3>4. /\ targets' \subseteq TgArns \X Ports /\ Goes(w, k)
          /\ UNCHANGED <<row, call, stale, containers, tgs, rules, pinned>>
      BY Zenon, <2>p, <2>3, <2>5, <3>1 DEF DeregisterGatewayTarget
    <3>5. Released(k)'
      <4>1. \A x \in rules : x.arn # k.rule
        BY Zenon, <2>1, <3>2, <3>3 DEF SameJob, Released, PastRule
      <4>2. ~ PastTg(k)
        BY <3>3 DEF PastTg
      <4>. QED
        BY Zenon, <3>4, <4>1, <4>2 DEF Released, PastTg, PastRule
    <3>. QED
      BY Zenon, <2>p, <2>0, <2>3, <3>3, <3>4, <3>5, <1>ShrinkGoes
  <2>6. CASE DeleteGatewayTargetGroup(w)
    <3>1. CASE Refused(w)
      BY Zenon, <2>p, <2>0, <2>6, <3>1, <1>RetryMoves DEF Refused, DeleteGatewayTargetGroup, alb
    <3>2. CASE ~ Refused(w)
      <4>1. PICK k : k = At(j, "removeContainer")
        BY Zenon
      <4>2. j.pc = "deleteTg" /\ j.tg \in TgArns
        BY <2>p, <2>1, <2>6 DEF DeleteGatewayTargetGroup, PcOk, Job
      <4>3. k \in Job /\ Going(j, k) /\ Traced(k) /\ SameJob(j, k) /\ k.pc = "removeContainer"
        BY Zenon, <2>p, <2>0, <2>1, <2>2, <4>1, <1>CleanGoes
      <4>4. /\ tgs' = [tgs EXCEPT ![j.tg] = None] /\ targets' \subseteq targets
            /\ \A x \in rules : x.tg # j.tg
            /\ Goes(w, k) /\ UNCHANGED <<row, call, stale, containers, rules, pinned>>
        BY Zenon, <2>p, <2>6, <3>2, <4>1 DEF DeleteGatewayTargetGroup
      <4>5. /\ tgs' \in [TgArns -> Gateways \cup {None}] /\ tgs'[j.tg] = None
            /\ \A t \in TgArns \ {j.tg} : tgs'[t] = tgs[t]
        BY Zenon, <2>3, <4>2, <4>4
      <4>6. \A x \in rules' : tgs'[x.tg] = tgs[x.tg]
        BY <4>4, <4>5 DEF IInv, TypeOK
      <4>7. /\ targets' \subseteq TgArns \X Ports
            /\ \A t \in TgArns : tgs'[t] \in {tgs[t], None}
        BY Zenon, <2>3, <4>4, <4>5
      <4>8. Released(k)'
        <5>1. \A x \in rules : x.arn # k.rule
          BY Zenon, <2>1, <4>2, <4>3 DEF SameJob, Released, PastRule
        <5>. QED
          BY Zenon, <4>3, <4>4, <4>5, <5>1 DEF Released, PastTg, PastRule, SameJob
      <4>. QED
        BY Zenon, <2>p, <2>0, <2>3, <4>3, <4>4, <4>5, <4>6, <4>7, <4>8, <1>ShrinkGoes
    <3>. QED
      BY Zenon, <3>1, <3>2
  <2>7. CASE RemoveContainer(w)
    <3>1. PICK k : k = Decided(j, "decommissioned", None)
      BY Zenon
    <3>2. "decommissioned" \in Ops /\ None \in Arns
      BY DEF Ops, Arns
    <3>3. /\ k \in Job /\ SameJob(j, k) /\ k.prio = j.prio
          /\ k.pc = "write" /\ k.op = "decommissioned" /\ k.got = None
      BY <2>1, <3>1, <3>2, DecidedIs
    <3>4. k.op \in Ops /\ OpOk(k) /\ j.pc = "removeContainer"
      BY <2>2, <2>7, <2>p, <3>2, <3>3 DEF OpOk, SameJob, RemoveContainer
    <3>5. Going(wk[w], k) /\ Traced(k)
      BY Zenon, <2>p, <2>0, <3>3, <3>4, NoneAssumption DEF Going, Traced
    <3>6. /\ containers' \in [Gateways -> Ports \cup {None}] /\ Goes(w, k)
          /\ UNCHANGED <<row, call, stale, tgs, targets, rules, pinned>>
      BY Zenon, <2>p, <2>1, <2>3, <2>7, <3>1 DEF RemoveContainer, alb
    <3>7. Released(k)'
      BY Zenon, <2>1, <3>3, <3>4, <3>6 DEF Released, PastTg, PastRule, SameJob
    <3>. QED
      BY Zenon, <2>p, <2>0, <2>3, <3>3, <3>5, <3>6, <3>7, <1>ShrinkGoes
  <2>. QED
    BY Zenon, <2>4, <2>5, <2>6, <2>7

\* A handler that was given an ARN records it next.
<1>GivenGoes.
    ASSUME IInv, NEW w \in Workers, NEW j, j = wk[w],
           NEW op \in {"tg_created", "rule_created"}, NEW got \in Arns,
           \/ op = "tg_created" /\ j.pc = "createTg" /\ got \in TgArns
           \/ op = "rule_created" /\ j.pc = "createRule" /\ got \in RuleArns,
           NEW k, k = Decided(j, op, got)
    PROVE  /\ k \in Job /\ Going(j, k) /\ Released(k)' /\ SameJob(j, k)
           /\ k.got = got /\ k.op = op /\ k.pc = "write"
  <2>. USE <1>GivenGoes
  <2>0. j.pc # "idle" /\ j.pc # "write" /\ op \in Ops
    BY DEF Ops
  <2>1. j \in Job /\ PcOk(j)
    BY Zenon, <2>0, Busy
  <2>2. /\ k \in Job /\ SameJob(j, k) /\ k.prio = j.prio
        /\ k.pc = "write" /\ k.op = op /\ k.got = got
    BY <2>0, <2>1, DecidedIs
  <2>3. OpOk(k) /\ ~ PastRule(k) /\ ~ PastTg(k)
    BY <2>1, <2>2 DEF OpOk, PcOk, SameJob, PastRule, PastTg
  <2>. QED
    BY Zenon, <2>0, <2>2, <2>3 DEF Going, Released, PastRule, PastTg

\* Either way the worker goes on, and the types are kept.
<1>GoesOn.
    ASSUME IInv, NEW w \in Workers, wk[w].pc # "idle", NEW k \in Job, Goes(w, k),
           Going(wk[w], k), Released(k)',
           UNCHANGED <<row, call, stale, containers, targets, pinned>>,
           tgs' \in [TgArns -> Gateways \cup {None}],
           rules' \subseteq [arn: RuleArns, g: Gateways, tg: TgArns, prio: 1 .. MaxPriority]
    PROVE  \E n \in Job : /\ Becomes(w, n) /\ Going(wk[w], n) /\ Released(n)'
                          /\ SameJob(wk[w], n) /\ n.got \in {k.got, None}
                          /\ wk'[w] = n /\ \A v \in Workers \ {w} : wk'[v] = wk[v]
                          /\ TypeOK'
  <2>. USE <1>GoesOn
  <2>1. PICK q : q = retryOrFail(wk[w])
    BY Zenon
  <2>p. PICK j \in Job : j = wk[w]
    BY Zenon DEF IInv, TypeOK
  <2>2. q \in Job /\ Going(wk[w], q) /\ Released(q)'
    BY Zenon, <2>1, <1>RetryGoes
  <2>3. q.got = None
    BY Zenon, <2>1, <2>p, RetryIs
  <2>4. PICK n \in Job : n \in {k, q} /\ Becomes(w, n)
    BY Zenon, <2>1, <2>2 DEF Goes
  <2>5. Fault \/ UNCHANGED faults
    BY Zenon DEF Goes
  <2>6. /\ wk' \in [Workers -> Job] /\ wk'[w] = n
        /\ \A v \in Workers \ {w} : wk'[v] = wk[v]
    BY Zenon, <2>4 DEF IInv, TypeOK, Becomes
  <2>7. TypeOK'
    BY Zenon, <2>5, <2>6, FaultOk DEF IInv, TypeOK
  <2>8. SameJob(wk[w], n)
    BY Zenon, <2>2, <2>4 DEF Going
  <2>. QED
    BY Zenon, <2>2, <2>3, <2>4, <2>6, <2>7, <2>8

\* CreateGatewayTargetGroup finds the group of its gateway, or makes one nobody knows.
<1>CreateTgKeeps.
    ASSUME IInv, NEW w \in Workers, CreateGatewayTargetGroup(w)
    PROVE  IInv'
  <2>. USE <1>CreateTgKeeps
  <2>p. PICK j : j = wk[w]
    BY Zenon
  <2>0. /\ j.pc = "createTg" /\ j.pc # "idle" /\ j.pc # "write"
        /\ UNCHANGED <<row, call, stale, containers, targets, rules, pinned>>
    BY Zenon, <2>p DEF CreateGatewayTargetGroup
  <2>1. j \in Job /\ j.g \in Gateways
    BY Zenon, <2>p, <2>0, Busy
  <2>2. /\ tgs \in [TgArns -> Gateways \cup {None}] /\ targets \subseteq TgArns \X Ports
        /\ containers \in [Gateways -> Ports \cup {None}]
        /\ rules \subseteq [arn: RuleArns, g: Gateways, tg: TgArns, prio: 1 .. MaxPriority]
    BY Zenon DEF IInv, TypeOK
  <2>3. ASSUME NEW t \in TgArns, tgs[t] = j.g, Goes(w, Decided(j, "tg_created", t)), UNCHANGED tgs
        PROVE  IInv'
    <3>1. PICK k : k = Decided(j, "tg_created", t)
      BY Zenon
    <3>2. t \in Arns /\ t \notin RuleArns
      BY Zenon, NoneAssumption DEF Arns
    <3>3. k \in Job /\ Going(j, k) /\ Released(k)' /\ SameJob(j, k) /\ k.got = t
      BY <2>p, <2>0, <3>1, <3>2, <1>GivenGoes
    <3>4. Traced(k)
      BY Zenon, <2>3, <3>2, <3>3 DEF Traced, UsesTg, SameJob
    <3>. QED
      BY Zenon, <2>p, <2>0, <2>2, <2>3, <3>1, <3>3, <3>4, <1>ShrinkGoes
  <2>4. ASSUME NEW t \in UnusedTgs, tgs' = [tgs EXCEPT ![t] = j.g],
               Goes(w, Decided(j, "tg_created", t))
        PROVE  IInv'
    <3>1. PICK k : k = Decided(j, "tg_created", t)
      BY Zenon
    <3>2. /\ t \in TgArns /\ tgs[t] = None /\ \A g \in Gateways : row[g].tg # t
          /\ \A v \in Workers : wk[v].tg # t /\ wk[v].got # t
      BY Zenon, <2>4 DEF UnusedTgs
    <3>3. t \in Arns /\ t \notin RuleArns
      BY Zenon, <3>2, NoneAssumption DEF Arns
    <3>4. k \in Job /\ Going(j, k) /\ Released(k)' /\ SameJob(j, k) /\ k.got = t
      BY <2>p, <2>0, <3>1, <3>2, <3>3, <1>GivenGoes
    <3>5. /\ tgs' \in [TgArns -> Gateways \cup {None}] /\ tgs'[t] = j.g
          /\ \A u \in TgArns \ {t} : tgs'[u] = tgs[u]
      BY Zenon, <2>1, <2>2, <2>4, <3>2
    <3>6. PICK n \in Job : /\ Becomes(w, n) /\ Going(wk[w], n) /\ Released(n)'
                           /\ SameJob(wk[w], n) /\ n.got \in {k.got, None}
                           /\ wk'[w] = n /\ \A v \in Workers \ {w} : wk'[v] = wk[v]
                           /\ TypeOK'
      BY Zenon, <2>p, <2>0, <2>2, <2>4, <3>1, <3>4, <3>5, <1>GoesOn
    <3>7. TgsOwned'
      <4>1. ASSUME NEW u \in TgArns, u # t, NEW g \in Gateways, UsesTg(g, u)'
            PROVE  UsesTg(g, u)
        <5>1. tgs'[u] = g \/ row'[g].tg = u => UsesTg(g, u)
          BY Zenon, <2>0, <3>5, <4>1 DEF UsesTg
        <5>2. ASSUME NEW v \in Workers, wk'[v].g = g, u \in {wk'[v].tg, wk'[v].got}
              PROVE  UsesTg(g, u)
          <6>1. CASE v # w
            BY Zenon, <3>6, <5>2, <6>1 DEF UsesTg
          <6>2. CASE v = w
            <7>1. u # None /\ n.got \in {t, None} /\ n.g = g /\ u \in {n.tg, n.got}
              BY Zenon, <3>4, <3>6, <5>2, <6>2, NoneAssumption
            <7>2. wk[w].g = g /\ u = wk[w].tg
              BY Zenon, <3>6, <4>1, <7>1 DEF SameJob
            <7>. QED
              BY Zenon, <7>2 DEF UsesTg
          <6>. QED
            BY Zenon, <6>1, <6>2
        <5>. QED
          BY Zenon, <4>1, <5>1, <5>2 DEF UsesTg
      <4>2. ASSUME NEW g \in Gateways, UsesTg(g, t)'
            PROVE  g = j.g
        <5>1. tgs'[t] = g \/ row'[g].tg = t => g = j.g
          BY Zenon, <2>0, <3>2, <3>5
        <5>2. ASSUME NEW v \in Workers, wk'[v].g = g, t \in {wk'[v].tg, wk'[v].got}
              PROVE  g = j.g
          <6>1. v = w
            BY Zenon, <3>2, <3>6, <5>2
          <6>. QED
            BY Zenon, <2>p, <3>6, <5>2, <6>1 DEF SameJob
        <5>. QED
          BY Zenon, <4>2, <5>1, <5>2 DEF UsesTg
      <4>. QED
        BY Zenon, <4>1, <4>2 DEF IInv, TgsOwned
    <3>8. RulesOwned'
      <4>1. ASSUME NEW a \in RuleArns, NEW g \in Gateways, UsesRule(g, a)'
            PROVE  UsesRule(g, a)
        <5>1. ASSUME NEW v \in Workers, wk'[v].g = g, a \in {wk'[v].rule, wk'[v].got}
              PROVE  UsesRule(g, a)
          <6>1. CASE v # w
            BY Zenon, <3>6, <5>1, <6>1 DEF UsesRule
          <6>2. CASE v = w
            <7>1. a # None /\ a # t /\ n.got \in {t, None} /\ n.g = g /\ a \in {n.rule, n.got}
              BY Zenon, <3>3, <3>4, <3>6, <5>1, <6>2, NoneAssumption
            <7>2. wk[w].g = g /\ a = wk[w].rule
              BY Zenon, <3>6, <7>1 DEF SameJob
            <7>. QED
              BY Zenon, <7>2 DEF UsesRule
          <6>. QED
            BY Zenon, <6>1, <6>2
        <5>. QED
          BY Zenon, <2>0, <4>1, <5>1 DEF UsesRule
      <4>. QED
        BY Zenon, <4>1 DEF IInv, RulesOwned
    <3>9. ListenerOk'
      <4>1. \A x \in rules : x.tg \in TgArns /\ x.tg # t
        BY <2>2, <3>2, NoneAssumption DEF IInv, ListenerOk
      <4>. QED
        BY Zenon, <2>0, <3>5, <4>1 DEF IInv, ListenerOk
    <3>10. \A u \in TgArns : tgs'[u] \in {tgs[u], None} \/ \A v \in Workers : wk[v].tg # u
      BY Zenon, <3>2, <3>5
    <3>. QED
      BY Zenon, <2>p, <2>0, <3>6, <3>7, <3>8, <3>9, <3>10, <1>CallMoves
  <2>5. UnusedTgs # {} => AnyOf(UnusedTgs) \in UnusedTgs
    BY Zenon DEF AnyOf
  <2>. QED
    BY Zenon, <2>p, <2>3, <2>4, <2>5 DEF CreateGatewayTargetGroup

\* CreateGatewayHostRule finds the rule of its hostname, or makes one nobody knows.
<1>CreateRuleKeeps.
    ASSUME IInv, NEW w \in Workers, CreateGatewayHostRule(w)
    PROVE  IInv'
  <2>. USE <1>CreateRuleKeeps
  <2>p. PICK j : j = wk[w]
    BY Zenon
  <2>0. /\ j.pc = "createRule" /\ j.pc # "idle" /\ j.pc # "write"
        /\ UNCHANGED <<row, call, stale, containers>>
    BY Zenon, <2>p DEF CreateGatewayHostRule
  <2>1. j \in Job /\ j.g \in Gateways /\ PcOk(j) /\ RowOk(j, row[j.g])
    BY Zenon, <2>p, <2>0, Busy
  <2>t. j.tg \in TgArns /\ j.prio \in 1 .. MaxPriority
    BY <2>0, <2>1, BoundAssumption DEF PcOk, Job
  <2>2. /\ tgs \in [TgArns -> Gateways \cup {None}] /\ targets \subseteq TgArns \X Ports
        /\ containers \in [Gateways -> Ports \cup {None}]
        /\ rules \subseteq [arn: RuleArns, g: Gateways, tg: TgArns, prio: 1 .. MaxPriority]
    BY Zenon DEF IInv, TypeOK
  <2>3. CASE Refused(w)
    BY Zenon, <2>p, <2>0, <2>3, <1>RetryMoves DEF Refused
  <2>4. ASSUME NEW x \in rules, x.g = j.g, x.tg = j.tg, Goes(w, Decided(j, "rule_created", x.arn)),
               UNCHANGED alb
        PROVE  IInv'
    <3>0. PICK a \in RuleArns : a = x.arn
      BY <2>2
    <3>1. PICK k : k = Decided(j, "rule_created", a)
      BY Zenon
    <3>2. a \in Arns /\ a \notin TgArns
      BY Zenon, NoneAssumption DEF Arns
    <3>3. k \in Job /\ Going(j, k) /\ Released(k)' /\ SameJob(j, k) /\ k.got = a
      BY <2>p, <2>0, <3>1, <3>2, <1>GivenGoes
    <3>4. Traced(k)
      BY Zenon, <2>4, <3>0, <3>2, <3>3 DEF Traced, UsesRule, SameJob
    <3>5. Goes(w, k) /\ UNCHANGED <<tgs, targets, rules, pinned>>
      BY Zenon, <2>4, <3>0, <3>1 DEF alb
    <3>. QED
      BY Zenon, <2>p, <2>0, <2>2, <3>3, <3>4, <3>5, <1>ShrinkGoes
  <2>5. ASSUME NEW a \in UnusedRules, \A x \in rules : x.g # j.g, tgs[j.tg] # None,
               rules' = rules \cup {[arn |-> a, g |-> j.g, tg |-> j.tg, prio |-> j.prio]},
               Goes(w, Decided(j, "rule_created", a)), UNCHANGED <<tgs, targets, pinned>>
        PROVE  IInv'
    <3>1. PICK k : k = Decided(j, "rule_created", a)
      BY Zenon
    <3>2. /\ a \in RuleArns /\ \A x \in rules : x.arn # a
          /\ \A g \in Gateways : row[g].rule # a
          /\ \A v \in Workers : wk[v].rule # a /\ wk[v].got # a
      BY Zenon, <2>5 DEF UnusedRules
    <3>3. a \in Arns /\ a \notin TgArns
      BY Zenon, <3>2, NoneAssumption DEF Arns
    <3>4. k \in Job /\ Going(j, k) /\ Released(k)' /\ SameJob(j, k) /\ k.got = a
      BY <2>p, <2>0, <3>1, <3>2, <3>3, <1>GivenGoes
    <3>5. PICK y : y = [arn |-> a, g |-> j.g, tg |-> j.tg, prio |-> j.prio]
      BY Zenon
    <3>y. /\ rules' = rules \cup {y} /\ y.arn = a /\ y.g = j.g /\ y.tg = j.tg /\ y.prio = j.prio
          /\ y \in [arn: RuleArns, g: Gateways, tg: TgArns, prio: 1 .. MaxPriority]
      BY <2>1, <2>t, <2>5, <3>2, <3>5
    <3>r. rules' \subseteq [arn: RuleArns, g: Gateways, tg: TgArns, prio: 1 .. MaxPriority]
      BY Zenon, <2>2, <3>y
    <3>6. PICK n \in Job : /\ Becomes(w, n) /\ Going(wk[w], n) /\ Released(n)'
                           /\ SameJob(wk[w], n) /\ n.got \in {k.got, None}
                           /\ wk'[w] = n /\ \A v \in Workers \ {w} : wk'[v] = wk[v]
                           /\ TypeOK'
      BY Zenon, <2>p, <2>0, <2>2, <2>5, <3>1, <3>4, <3>r, <1>GoesOn
    <3>7. TgsOwned'
      <4>1. ASSUME NEW u \in TgArns, NEW g \in Gateways, UsesTg(g, u)'
            PROVE  UsesTg(g, u)
        <5>1. ASSUME NEW v \in Workers, wk'[v].g = g, u \in {wk'[v].tg, wk'[v].got}
              PROVE  UsesTg(g, u)
          <6>1. CASE v # w
            BY Zenon, <3>6, <5>1, <6>1 DEF UsesTg
          <6>2. CASE v = w
            <7>1. u # None /\ u # a /\ n.got \in {a, None} /\ n.g = g /\ u \in {n.tg, n.got}
              BY Zenon, <3>3, <3>4, <3>6, <5>1, <6>2, NoneAssumption
            <7>2. wk[w].g = g /\ u = wk[w].tg
              BY Zenon, <3>6, <7>1 DEF SameJob
            <7>. QED
              BY Zenon, <7>2 DEF UsesTg
          <6>. QED
            BY Zenon, <6>1, <6>2
        <5>. QED
          BY Zenon, <2>0, <2>5, <4>1, <5>1 DEF UsesTg
      <4>. QED
        BY Zenon, <4>1 DEF IInv, TgsOwned
    <3>8. RulesOwned'
      <4>1. ASSUME NEW u \in RuleArns, u # a, NEW g \in Gateways, UsesRule(g, u)'
            PROVE  UsesRule(g, u)
        <5>1. row'[g].rule = u \/ (\E x \in rules' : x.arn = u /\ x.g = g) => UsesRule(g, u)
          BY Zenon, <2>0, <3>y, <4>1 DEF UsesRule
        <5>2. ASSUME NEW v \in Workers, wk'[v].g = g, u \in {wk'[v].rule, wk'[v].got}
              PROVE  UsesRule(g, u)
          <6>1. CASE v # w
            BY Zenon, <3>6, <5>2, <6>1 DEF UsesRule
          <6>2. CASE v = w
            <7>1. u # None /\ n.got \in {a, None} /\ n.g = g /\ u \in {n.rule, n.got}
              BY Zenon, <3>4, <3>6, <5>2, <6>2, NoneAssumption
            <7>2. wk[w].g = g /\ u = wk[w].rule
              BY Zenon, <3>6, <4>1, <7>1 DEF SameJob
            <7>. QED
              BY Zenon, <7>2 DEF UsesRule
          <6>. QED
            BY Zenon, <6>1, <6>2
        <5>. QED
          BY Zenon, <4>1, <5>1, <5>2 DEF UsesRule
      <4>2. ASSUME NEW g \in Gateways, UsesRule(g, a)'
            PROVE  g = j.g
        <5>1. row'[g].rule = a \/ (\E x \in rules' : x.arn = a /\ x.g = g) => g = j.g
          BY Zenon, <2>0, <3>2, <3>y
        <5>2. ASSUME NEW v \in Workers, wk'[v].g = g, a \in {wk'[v].rule, wk'[v].got}
              PROVE  g = j.g
          <6>1. v = w
            BY Zenon, <3>2, <3>6, <5>2
          <6>. QED
            BY Zenon, <2>p, <3>6, <5>2, <6>1 DEF SameJob
        <5>. QED
          BY Zenon, <4>2, <5>1, <5>2 DEF UsesRule
      <4>. QED
        BY Zenon, <4>1, <4>2 DEF IInv, RulesOwned
    <3>9. ListenerOk'
      <4>1. tgs[j.tg] = j.g
        <5>1. tgs[j.tg] \in Gateways /\ UsesTg(tgs[j.tg], j.tg) /\ UsesTg(j.g, j.tg)
          BY Zenon, <2>p, <2>2, <2>t, <2>5 DEF UsesTg
        <5>. QED
          BY Zenon, <2>1, <2>t, <5>1 DEF IInv, TgsOwned
      <4>2. row[j.g].state # "absent"
        BY Zenon, <2>1 DEF RowOk
      <4>. QED
        BY Zenon, <2>0, <2>5, <3>y, <4>1, <4>2 DEF IInv, ListenerOk
    <3>10. \A x \in rules' : \/ x \in rules
                             \/ /\ \A v \in Workers : wk[v].rule # x.arn
                                /\ row[x.g].state = "live" => x.prio = row[x.g].prio
      <4>1. row[j.g].state = "live" => j.prio = row[j.g].prio
        BY Zenon, <2>0, <2>1 DEF RowOk, PcOk
      <4>. QED
        BY Zenon, <3>2, <3>y, <4>1
    <3>11. \A u \in TgArns : tgs'[u] \in {tgs[u], None} \/ \A v \in Workers : wk[v].tg # u
      BY Zenon, <2>5
    <3>. QED
      BY Zenon, <2>p, <2>0, <3>6, <3>7, <3>8, <3>9, <3>10, <3>11, <1>CallMoves
  <2>6. UnusedRules # {} => AnyOf(UnusedRules) \in UnusedRules
    BY Zenon DEF AnyOf
  <2>. QED
    BY Zenon, <2>p, <2>3, <2>4, <2>5, <2>6 DEF CreateGatewayHostRule

\* A call fails without effect.
<1>FailKeeps.
    ASSUME IInv, NEW w \in Workers, CallFails(w)
    PROVE  IInv'
  <2>. USE <1>FailKeeps
  <2>1. wk[w].pc # "idle"
    BY DEF CallFails, Calls
  <2>. QED
    BY Zenon, <2>1, <1>RetryMoves DEF CallFails

\* The transaction that reserves a priority.
<1>ReserveKeeps.
    ASSUME IInv, NEW w \in Workers, ReserveGatewayListenerRulePriority(w)
    PROVE  IInv'
  <2>. USE <1>ReserveKeeps
  <2>p. PICK j : j = wk[w]
    BY Zenon
  <2>0. j.pc = "reserve" /\ j.pc # "idle" /\ j.pc # "write"
    BY Zenon, <2>p DEF ReserveGatewayListenerRulePriority
  <2>1. /\ j \in Job /\ j.g \in Gateways /\ j.lease \in Tokens
        /\ j.prov \in Stages \cup {"deprovisioning"}
        /\ PcOk(j) /\ RowOk(j, row[j.g])
    BY Zenon, <2>p, <2>0, Busy
  <2>2. PICK g \in Gateways : g = j.g
    BY Zenon, <2>1
  <2>3. PICK a \in Row : a = row[g] /\ StageOk(a)
    BY Zenon, StagesAre DEF IInv, TypeOK
  <2>4. UNCHANGED <<call, stale, containers, alb>> /\ UNCHANGED faults
    BY Zenon DEF ReserveGatewayListenerRulePriority
  <2>5. CASE Becomes(w, retryOrFail(wk[w])) /\ UNCHANGED row
    BY Zenon, <2>p, <2>0, <2>4, <2>5, <1>RetryMoves
  <2>6. ASSUME NEW p, a.state = "live", a.lease = j.lease, p # 0,
               p = a.prio \/ (a.prio = 0 /\ p \in FreePriorities),
               Becomes(w, [wk[w] EXCEPT !.pc = "createRule", !.prio = p]),
               row' = [row EXCEPT ![g] = [a EXCEPT !.prio = p]]
        PROVE  IInv'
    <3>0. p \in 0 .. MaxPriority
      BY <2>6 DEF Row, FreePriorities
    <3>1. PICK b : b = [a EXCEPT !.prio = p]
      BY Zenon
    <3>2. PICK k : k = [j EXCEPT !.pc = "createRule", !.prio = p]
      BY Zenon
    <3>3. /\ b \in Row /\ b.state = a.state /\ b.prov = a.prov /\ b.port = a.port /\ b.tg = a.tg
          /\ b.rule = a.rule /\ b.prio = p /\ b.lease = a.lease /\ b.retries = a.retries
      BY <3>0, <3>1 DEF Row
    <3>4. /\ k \in Job /\ SameJob(j, k) /\ k.pc = "createRule" /\ k.prio = p /\ k.got = j.got
      BY Zenon, <2>1, <3>0, <3>2 DEF Job, SameJob, Calls
    <3>5. StageOk(b)
      BY Zenon, <2>3, <2>6, <3>3 DEF StageOk
    <3>6. RowKept(Workers \ {w}, a, b)
      <4>1. a.retries <= a.retries
        BY DEF Row
      <4>. QED
        BY Zenon, <2>6, <3>3, <4>1 DEF RowKept, SameLease
    <3>7. wk' = [wk EXCEPT ![w] = k] /\ row' = [row EXCEPT ![g] = b]
      BY Zenon, <2>p, <2>6, <3>1, <3>2 DEF Becomes
    <3>8. row'[k.g] = b
      BY Zenon, <2>2, <3>4, <3>7 DEF SameJob, IInv, TypeOK
    <3>9. Sound(k)'
      <4>1. PcOk(k) /\ JobOk(k) /\ k.pc # "idle"
        BY <2>0, <2>1, <2>6, <3>4 DEF PcOk, JobOk, SameJob
      <4>2. RowOk(k, b)
        BY ZenonT(40), <2>0, <2>1, <2>2, <2>3, <2>6, <3>3, <3>4 DEF RowOk, SameJob, PcOk
      <4>3. ~ PastRule(k) /\ ~ PastTg(k)
        BY <3>4 DEF PastRule, PastTg
      <4>4. JobOk(k)' /\ RowOk(k, b)'
        BY Zenon, <4>1, <4>2 DEF JobOk, PcOk, OpOk, RowOk
      <4>. QED
        BY Zenon, <3>8, <4>1, <4>2, <4>3, <4>4 DEF Sound, Released, PastRule, PastTg, RowOk
    <3>10. TracedRow(g, b)
      BY Zenon, <2>3, <3>3 DEF TracedRow, UsesTg, UsesRule
    <3>11. TracedJob(k)
      BY Zenon, <2>p, <3>4 DEF TracedJob, Traced, SameJob, UsesTg, UsesRule
    <3>12. PrioFrom(a, b) /\ a.state # "absent"
      BY <2>6, <3>3 DEF PrioFrom
    <3>13. call[g].pc # "none" => b.prov \in QuietProvs
      BY Zenon, <2>3, <3>3 DEF IInv, CallOk, QuietProvs
    <3>. QED
      BY Zenon, <2>3, <2>4, <3>3, <3>4, <3>5, <3>6, <3>7, <3>9, <3>10, <3>11, <3>12, <3>13,
         RowMoves DEF Becomes
  <2>7. ASSUME a.state = "live", a.lease = j.lease, a.prio # 0, UNCHANGED row,
               Becomes(w, [wk[w] EXCEPT !.pc = "createRule", !.prio = a.prio])
        PROVE  IInv'
    <3>1. [a EXCEPT !.prio = a.prio] = a
      BY DEF Row
    <3>2. row' = [row EXCEPT ![g] = [a EXCEPT !.prio = a.prio]]
      BY <2>3, <2>7, <3>1 DEF IInv, TypeOK
    <3>. QED
      BY Zenon, <2>6, <2>7, <3>2
  <2>8. ASSUME NEW p \in FreePriorities, a.state = "live", a.lease = j.lease, a.prio = 0,
               Becomes(w, [wk[w] EXCEPT !.pc = "createRule", !.prio = p]),
               row' = [row EXCEPT ![g].prio = p]
        PROVE  IInv'
    <3>1. p # 0
      BY DEF FreePriorities
    <3>2. row' = [row EXCEPT ![g] = [a EXCEPT !.prio = p]]
      BY Zenon, <2>3, <2>8
    <3>. QED
      BY Zenon, <2>6, <2>8, <3>1, <3>2
  <2>. QED
    BY Zenon, <2>p, <2>2, <2>3, <2>5, <2>7, <2>8 DEF ReserveGatewayListenerRulePriority, Live

<1>. QED
  BY Zenon, <1>ExposeKeeps, <1>CleanKeeps, <1>CreateTgKeeps, <1>CreateRuleKeeps, <1>FailKeeps, <1>ReserveKeeps

\* The handler a row is dispatched to has what it needs.
LEMMA DispatchIs ==
    ASSUME NEW j \in Job, NEW k, k = Dispatch(j), j.prov \in Stages \cup {"deprovisioning"},
           j.prov \in Stages \ {"container_ready"} => j.tg # None,
           j.tg # None => j.port # None
    PROVE  /\ k \in Job /\ SameJob(j, k) /\ k.prio = j.prio /\ k.got = j.got
           /\ k.pc \in Calls /\ PcOk(k)
           /\ PastRule(k) => k.rule = None
           /\ PastTg(k) => k.tg = None
<1>1. PICK pc \in Calls :
        /\ k = At(j, pc)
        /\ j.prov = "container_ready" => pc = "createTg"
        /\ j.prov = "registering_target" => pc = "register"
        /\ j.prov = "creating_listener_rule" => pc = "reserve"
        /\ j.prov = "waiting_for_target_health" => pc = "health"
        /\ j.prov = "deprovisioning" =>
              pc = IF j.rule # None THEN "deleteRule"
                   ELSE IF j.tg # None THEN "deregister" ELSE "removeContainer"
  BY DEF Dispatch, AfterRule, Calls, Stages
<1>2. k \in Job /\ SameJob(j, k) /\ k.prio = j.prio /\ k.pc = pc /\ k.got = j.got
  BY <1>1, AtIs
<1>3. PcOk(k)
  BY <1>1, <1>2 DEF PcOk, SameJob, Stages
<1>4. (PastRule(k) => k.rule = None) /\ (PastTg(k) => k.tg = None)
  BY <1>1, <1>2 DEF PastRule, PastTg, SameJob, Stages
<1>. QED
  BY Zenon, <1>2, <1>3, <1>4

\* The job a worker reads from a row.
ReadJob(g, t, a) ==
    [Idle EXCEPT !.g = g, !.lease = t, !.prov = a.prov, !.port = a.port, !.tg = a.tg,
                 !.rule = a.rule, !.prio = a.prio, !.retries = a.retries]

\* What ClaimNextGatewayIngressJob returns is what the row says.
LEMMA ReadIs ==
    ASSUME NEW a \in Row, NEW g \in Gateways, NEW t \in Tokens, NEW j, j = ReadJob(g, t, a)
    PROVE  /\ j \in Job /\ j.g = g /\ j.lease = t /\ j.prov = a.prov /\ j.port = a.port
           /\ j.tg = a.tg /\ j.rule = a.rule /\ j.prio = a.prio /\ j.retries = a.retries
           /\ j.got = None
BY ZenonT(40), IdleIs DEF Row, Job, Idle, ReadJob

\* A worker takes the next job, perhaps over from one whose lease has expired.
LEMMA ClaimKeeps ==
    ASSUME IInv, NEW w \in Workers, NEW g \in Gateways, ClaimNextGatewayIngressJob(w, g)
    PROVE  IInv'
<1>1. PICK a \in Row : a = row[g] /\ StageOk(a)
  BY Zenon, StagesAre DEF IInv, TypeOK
<1>2. PICK t \in Tokens : t = AnyOf(UnusedTokens) /\ \A v \in Workers : wk[v].lease # t
  BY Zenon DEF ClaimNextGatewayIngressJob, UnusedTokens, AnyOf
<1>3. PICK b : b = [a EXCEPT !.lease = t, !.expired = FALSE]
  BY Zenon
<1>4. PICK j : j = ReadJob(g, t, a)
  BY Zenon
<1>5. PICK k : k = Dispatch(j)
  BY Zenon
<1>6. /\ b \in Row /\ b.state = a.state /\ b.prov = a.prov /\ b.port = a.port /\ b.tg = a.tg
      /\ b.rule = a.rule /\ b.prio = a.prio /\ b.lease = t /\ b.retries = a.retries
  BY Zenon, <1>3 DEF Row
<1>7. /\ j \in Job /\ j.g = g /\ j.lease = t /\ j.prov = a.prov /\ j.port = a.port
      /\ j.tg = a.tg /\ j.rule = a.rule /\ j.prio = a.prio /\ j.retries = a.retries
      /\ j.got = None
  BY <1>1, <1>2, <1>4, ReadIs
<1>8. a.state = "live" /\ a.prov \in Stages \cup {"deprovisioning"}
  BY Zenon, <1>1 DEF ClaimNextGatewayIngressJob, Live
<1>9. /\ k \in Job /\ SameJob(j, k) /\ k.prio = j.prio /\ k.got = j.got
      /\ k.pc \in Calls /\ PcOk(k)
      /\ PastRule(k) => k.rule = None
      /\ PastTg(k) => k.tg = None
  <2>1. /\ j \in Job /\ k = Dispatch(j) /\ j.prov \in Stages \cup {"deprovisioning"}
        /\ j.prov \in Stages \ {"container_ready"} => j.tg # None
        /\ j.tg # None => j.port # None
    BY Zenon, <1>1, <1>5, <1>7, <1>8 DEF StageOk
  <2>. QED
    BY <2>1, DispatchIs
<1>10. /\ row' = [row EXCEPT ![g] = b] /\ Becomes(w, k)
       /\ UNCHANGED <<call, stale, containers, alb>> /\ UNCHANGED faults
  <2>1. row' = [row EXCEPT ![g].lease = t, ![g].expired = FALSE]
    BY Zenon, <1>2 DEF ClaimNextGatewayIngressJob
  <2>2. row' = [row EXCEPT ![g] = b]
    BY Zenon, <1>1, <1>3, <2>1 DEF IInv, TypeOK
  <2>3. Becomes(w, k)
    BY Zenon, <1>1, <1>2, <1>4, <1>5
       DEF ClaimNextGatewayIngressJob, Becomes, ReadJob
  <2>. QED
    BY Zenon, <2>2, <2>3 DEF ClaimNextGatewayIngressJob
<1>11. RowKept(Workers \ {w}, a, b)
  BY Zenon, <1>2, <1>6, <1>8 DEF RowKept
<1>12. Sound(k)'
  <2>1. k.pc # "idle" /\ k.pc # "write"
    BY <1>9 DEF Calls
  <2>2. JobOk(k)
    BY Zenon, <1>1, <1>7, <1>8, <1>9, <2>1 DEF JobOk, SameJob, StageOk
  <2>3. a.retries <= a.retries /\ a.state # "absent"
    BY <1>8 DEF Row
  <2>4. RowOk(k, b)
    BY Zenon, <1>6, <1>7, <1>9, <2>3 DEF RowOk, SameJob
  <2>5. k.g = g /\ row'[g] = b
    BY Zenon, <1>7, <1>9, <1>10 DEF SameJob, IInv, TypeOK
  <2>6. rules' \subseteq [arn: RuleArns, g: Gateways, tg: TgArns, prio: 1 .. MaxPriority]
    BY Zenon, <1>10 DEF IInv, TypeOK, alb
  <2>7. \A x \in rules' : x.arn # None
    BY <2>6, NoneAssumption
  <2>8. Released(k)'
    BY Zenon, <1>9, <2>7 DEF Released, PastRule, PastTg
  <2>9. JobOk(k)' /\ RowOk(k, b)'
    BY Zenon, <2>2, <2>4 DEF JobOk, PcOk, OpOk, RowOk
  <2>. QED
    BY Zenon, <2>5, <2>8, <2>9 DEF Sound, RowOk
<1>13. TracedRow(g, b)
  BY Zenon, <1>1, <1>6 DEF TracedRow, UsesTg, UsesRule
<1>14. TracedJob(k)
  BY ZenonT(40), <1>1, <1>7, <1>9, NoneAssumption DEF TracedJob, Traced, SameJob, UsesTg, UsesRule
<1>15. PrioFrom(a, b) /\ a.state # "absent"
  BY <1>6, <1>8 DEF PrioFrom
<1>16. call[g].pc # "none" => b.prov \in QuietProvs
  BY Zenon, <1>1, <1>6 DEF IInv, CallOk, QuietProvs
<1>17. StageOk(b)
  BY Zenon, <1>1, <1>6 DEF StageOk
<1>. QED
  BY Zenon, <1>1, <1>6, <1>9, <1>10, <1>11, <1>12, <1>13, <1>14, <1>15, <1>16, <1>17, RowMoves

----------------------------------------------------------------------------
(* The invariant *)

\* The invariant holds at the start.
LEMMA InitHolds == Init => IInv
<1>. SUFFICES ASSUME Init PROVE IInv
  OBVIOUS
<1>1. ASSUME NEW g \in Gateways
      PROVE  /\ row[g] \in Row /\ row[g].tg = None /\ row[g].rule = None /\ row[g].prio = 0
             /\ row[g].prov = "not_started" /\ row[g].port = None /\ row[g].lease = None
  <2>1. row[g] = [NewRow EXCEPT !.status = "draining"] \/ row[g] = [NewRow EXCEPT !.state = "absent"]
    BY Zenon DEF Init
  <2>. QED
    BY ZenonT(40), <2>1, NewRowIs DEF NewRow, Row
<1>2. TypeOK
  <2>1. row \in [Gateways -> Row]
    <3>1. DOMAIN row = Gateways /\ row = [g \in DOMAIN row |-> row[g]]
      BY Zenon DEF Init
    <3>. QED
      BY Zenon, <1>1, <3>1
  <2>2. wk \in [Workers -> Job] /\ call \in [Gateways -> CallRec]
    BY Zenon, IdleIs, NoCallIs DEF Init
  <2>3. faults \in 0 .. MaxFaults
    BY BoundAssumption DEF Init
  <2>4. tgs \in [TgArns -> Gateways \cup {None}] /\ targets \subseteq TgArns \X Ports
    BY DEF Init
  <2>5. stale \subseteq Gateways /\ pinned \subseteq TgArns /\ rules = {}
    BY DEF Init
  <2>6. rules \subseteq [arn: RuleArns, g: Gateways, tg: TgArns, prio: 1 .. MaxPriority]
    BY Zenon, <2>5
  <2>. QED
    BY Zenon, <2>1, <2>2, <2>3, <2>4, <2>5, <2>6 DEF Init, TypeOK, CallRec
<1>3. StagesRecorded /\ PrioritiesReserved
  <2>1. rules = {}
    BY DEF Init
  <2>. QED
    BY <1>1, <2>1 DEF StagesRecorded, PrioritiesReserved, Stages, Live
<1>4. \A w \in Workers : Sound(wk[w])
  BY Zenon, IdleIs DEF Init, Sound, JobOk
<1>5. \A g \in Gateways : CallOk(g)
  BY Zenon, NoCallIs DEF Init, CallOk
<1>6. /\ \A t \in TgArns : \A g \in Gateways : ~ UsesTg(g, t)
      /\ \A t \in RuleArns : \A g \in Gateways : ~ UsesRule(g, t)
  <2>1. /\ \A w \in Workers : \A g \in Gateways : wk[w].g # g
        /\ rules = {} /\ \A t \in TgArns : tgs[t] = None
    BY Zenon, IdleIs, NoneAssumption DEF Init
  <2>2. ASSUME NEW t \in TgArns, NEW g \in Gateways
        PROVE  ~ UsesTg(g, t)
    BY Zenon, <1>1, <2>1, NoneAssumption DEF UsesTg
  <2>3. ASSUME NEW t \in RuleArns, NEW g \in Gateways
        PROVE  ~ UsesRule(g, t)
    BY Zenon, <1>1, <2>1, NoneAssumption DEF UsesRule
  <2>. QED
    BY Zenon, <2>2, <2>3
<1>7. ListenerOk
  BY Zenon DEF Init, ListenerOk
<1>. QED
  BY Zenon, <1>2, <1>3, <1>4, <1>5, <1>6, <1>7 DEF IInv, TgsOwned, RulesOwned

\* Every step keeps the invariant.
LEMMA NextKeeps == IInv /\ [Next]_vars => IInv'
<1>. SUFFICES ASSUME IInv, [Next]_vars PROVE IInv'
  OBVIOUS
<1>1. CASE UNCHANGED vars
  BY Zenon, <1>1, OthersKeep
<1>2. CASE ApiStep
  BY Zenon, <1>2, OthersKeep
<1>3. CASE EnvStep \/ ListStaleDraining \/ \E g \in Gateways : reconcileStaleDraining(g)
  BY Zenon, <1>3, OthersKeep
<1>4. ASSUME NEW w \in Workers, HandlerStep(w)
      PROVE  IInv'
  BY Zenon, <1>4, WorkersKeep, WriteKeeps DEF HandlerStep
<1>5. ASSUME NEW w \in Workers, \/ CallFails(w) \/ Crash(w)
                                \/ \E g \in Gateways : ClaimNextGatewayIngressJob(w, g)
      PROVE  IInv'
  BY Zenon, <1>5, WorkersKeep, WriteKeeps, ClaimKeeps
<1>. QED
  BY Zenon, <1>1, <1>2, <1>3, <1>4, <1>5 DEF Next, WorkerStep

\* The inductive invariant holds throughout.
THEOREM Invariance == Spec => []IInv
BY InitHolds, NextKeeps, PTL DEF Spec

\* Rows, jobs, calls and what the load balancer holds keep their types: a retry counter
\* stays within maxRetries, a priority within priorityMax.
THEOREM IngressTypes == Spec => []TypeOK
<1>1. IInv => TypeOK
  BY Zenon DEF IInv
<1>. QED
  BY <1>1, Invariance, PTL

\* No handler finds missing what its stage needs.
THEOREM StagesComplete == Spec => []StagesRecorded
<1>1. IInv => StagesRecorded
  BY Zenon DEF IInv
<1>. QED
  BY <1>1, Invariance, PTL

\* Every rule of a live gateway uses the priority reserved for it, and no two live
\* gateways have reserved the same one.
THEOREM PrioritiesUnique == Spec => []PrioritiesReserved
<1>1. IInv => PrioritiesReserved
  BY Zenon DEF IInv
<1>. QED
  BY <1>1, Invariance, PTL

----------------------------------------------------------------------------
(* What a step records of a gateway *)

SameParts(a, b) == b.port = a.port /\ b.tg = a.tg /\ b.rule = a.rule

\* The stage of a row stays.
Stays(a, b) == b.prov = a.prov /\ SameParts(a, b)

\* A row drains only from a delete on.
Drains(a, b) ==
    b.state = "live" /\ b.status = "draining" =>
        \/ b.prov = "deprovisioning"
        \/ a.state = "live" /\ a.status = "draining" /\ a.prov # "deprovisioning"

\* What the statement of job j makes of its gateway's row.
Recorded(j, a, b) ==
    \/ Stays(a, b)
    \/ /\ j.op = "tg_created" /\ j.got \in TgArns
       /\ a.prov = "container_ready" /\ b.prov = "registering_target"
       /\ b.port = a.port /\ b.tg = j.got
    \/ /\ j.op = "registered" /\ a.prov = "registering_target"
       /\ b.prov = "creating_listener_rule" /\ SameParts(a, b)
    \/ /\ j.op = "rule_created" /\ a.prov = "creating_listener_rule"
       /\ b.prov = "waiting_for_target_health"
       /\ b.port = a.port /\ b.tg = a.tg /\ b.rule = j.got
    \/ /\ j.op = "active" /\ a.prov = "waiting_for_target_health" /\ b.prov = "completed"
       /\ SameParts(a, b)
    \/ b.prov = "failed" /\ SameParts(a, b)
    \/ /\ j.op = "decommissioned" /\ a.prov = "deprovisioning" /\ b.prov = "deprovisioned"
       /\ b.tg = None /\ b.rule = None

\* Under a valid lease the statements of the workers take a row from stage to stage.
LEMMA RecordedIs ==
    ASSUME NEW a \in Row, NEW j \in Job, j.op \in Ops, OpOk(j), RowOk(j, a),
           LeaseHeld(a, j), NEW b, b = WriteBack(a, j)
    PROVE  Recorded(j, a, b) /\ Drains(a, b) /\ b.state # "absent"
<1>1. /\ a.state = "live"
      /\ j.prov # "deprovisioning" => a.prov = j.prov /\ a.port = j.port
  BY Zenon DEF LeaseHeld, RowOk
<1>2. CASE j.op = "tg_created"
  <2>1. /\ b = MarkGatewayTargetGroupCreated(a, j.got) /\ j.got \in TgArns
        /\ a.prov = "container_ready"
    BY <1>1, <1>2 DEF WriteBack, OpOk
  <2>2. /\ b.state = a.state /\ b.status = a.status /\ b.prov = "registering_target"
        /\ b.port = a.port /\ b.tg = j.got
    BY ZenonT(40), <2>1 DEF MarkGatewayTargetGroupCreated, Mark, Row
  <2>. QED
    BY <1>1, <1>2, <2>1, <2>2 DEF Recorded, Drains
<1>3. CASE j.op = "registered"
  <2>1. b = MarkGatewayTargetRegistered(a) /\ a.prov = "registering_target"
    BY <1>1, <1>3 DEF WriteBack, OpOk
  <2>2. /\ b.state = a.state /\ b.status = a.status /\ b.prov = "creating_listener_rule"
        /\ SameParts(a, b)
    BY ZenonT(40), <2>1 DEF MarkGatewayTargetRegistered, Mark, Row, SameParts
  <2>. QED
    BY <1>1, <1>3, <2>1, <2>2 DEF Recorded, Drains
<1>4. CASE j.op = "rule_created"
  <2>1. b = MarkGatewayListenerRuleCreated(a, j.got) /\ a.prov = "creating_listener_rule"
    BY <1>1, <1>4 DEF WriteBack, OpOk
  <2>2. /\ b.state = a.state /\ b.status = a.status /\ b.prov = "waiting_for_target_health"
        /\ b.port = a.port /\ b.tg = a.tg /\ b.rule = j.got
    BY <2>1 DEF MarkGatewayListenerRuleCreated, Mark, Row
  <2>. QED
    BY <1>1, <1>4, <2>1, <2>2 DEF Recorded, Drains
<1>5. CASE j.op = "reschedule"
  <2>1. b = Mark(a, a.prov, FALSE)
    BY <1>1, <1>5 DEF WriteBack, RescheduleGatewayHealthCheck
  <2>2. b.state = a.state /\ b.status = a.status /\ Stays(a, b)
    BY <2>1 DEF Mark, Row, Stays, SameParts
  <2>. QED
    BY Zenon, <1>1, <2>2 DEF Recorded, Drains, Stays
<1>6. CASE j.op = "active"
  <2>1. b = MarkGatewayIngressActive(a) /\ a.prov = "waiting_for_target_health"
    BY <1>1, <1>6 DEF WriteBack, OpOk
  <2>2. /\ b.state = a.state /\ b.status = "active" /\ b.prov = "completed"
        /\ SameParts(a, b)
    BY <2>1 DEF MarkGatewayIngressActive, Mark, Row, SameParts
  <2>. QED
    BY <1>1, <1>6, <2>1, <2>2 DEF Recorded, Drains
<1>7. CASE j.op = "retry"
  <2>1. b = ScheduleGatewayIngressRetry(a)
    BY <1>1, <1>7 DEF WriteBack
  <2>2. b.state = a.state /\ b.status = a.status /\ Stays(a, b)
    BY <2>1 DEF ScheduleGatewayIngressRetry, Mark, Row, Stays, SameParts
  <2>. QED
    BY Zenon, <1>1, <2>2 DEF Recorded, Drains, Stays
<1>8. CASE j.op = "fail"
  <2>1. b = MarkGatewayIngressFailed(a)
    BY <1>1, <1>8 DEF WriteBack
  <2>2. b.state = a.state /\ b.status = "failed" /\ b.prov = "failed" /\ SameParts(a, b)
    BY ZenonT(40), <2>1 DEF MarkGatewayIngressFailed, Mark, Row, SameParts
  <2>. QED
    BY <1>1, <2>2 DEF Recorded, Drains
<1>9. CASE j.op = "decommissioned"
  <2>1. b = MarkGatewayDecommissioned(a) /\ a.prov = "deprovisioning"
    BY <1>1, <1>9 DEF WriteBack, LeaseHeld
  <2>2. b.state = "deleted" /\ b.prov = "deprovisioned" /\ b.tg = None /\ b.rule = None
    BY <2>1 DEF MarkGatewayDecommissioned, Mark, Row
  <2>. QED
    BY <1>9, <2>1, <2>2 DEF Recorded, Drains
<1>. QED
  BY ZenonT(40), <1>2, <1>3, <1>4, <1>5, <1>6, <1>7, <1>8, <1>9 DEF Ops

\* What a step of no worker makes of the row and the call of gateway g.
Changes(g) ==
    LET a == row[g]
        b == row'[g]
    IN  /\ Drains(a, b)
        /\ \/ /\ Stays(a, b) /\ (b.state = "absent" => a.state = "absent")
              /\ call'[g].pc # "none" => call[g].pc # "none"
           \/ a.state = "absent" /\ b = NewRow
           \/ /\ call[g].pc = "healthy" /\ b.prov = "container_ready" /\ b.port = call[g].port
              /\ b.state = "live" /\ b.tg = a.tg /\ b.rule = a.rule /\ call'[g] = NoCall
           \/ /\ b.prov = "deprovisioning" /\ SameParts(a, b) /\ b.state = "live"
              /\ EarlyDelete \/ call[g] = NoCall
              /\ call'[g] = call[g]

\* Rows that keep their stage and calls that do not begin.
LEMMA StillChanges ==
    ASSUME NEW g, Stays(row[g], row'[g]), Drains(row[g], row'[g]),
           row'[g].state = "absent" => row[g].state = "absent",
           call'[g].pc # "none" => call[g].pc # "none"
    PROVE  Changes(g)
BY Zenon DEF Changes

\* A row that is not touched keeps its stage.
LEMMA SameStays == \A a : Stays(a, a) /\ Drains(a, a)
BY Zenon DEF Stays, SameParts, Drains

\* Changes that keep the stage of a row.
LEMMA EditsStay ==
    ASSUME NEW a \in Row, NEW b,
           \/ b = [a EXCEPT !.status = "failed"] \/ b = [a EXCEPT !.status = "decommissioned"]
           \/ b = [a EXCEPT !.expired = TRUE] \/ b = [a EXCEPT !.due = TRUE]
           \/ b = [a EXCEPT !.state = "deleted", !.status = "decommissioned"]
    PROVE  Stays(a, b) /\ Drains(a, b) /\ (b.state = "absent" => a.state = "absent")
<1>1. CASE b = [a EXCEPT !.status = "failed"] \/ b = [a EXCEPT !.status = "decommissioned"]
  BY <1>1 DEF Stays, SameParts, Drains, Row
<1>2. CASE b = [a EXCEPT !.expired = TRUE] \/ b = [a EXCEPT !.due = TRUE]
  BY <1>2 DEF Stays, SameParts, Drains, Row
<1>3. CASE b = [a EXCEPT !.state = "deleted", !.status = "decommissioned"]
  BY <1>3 DEF Stays, SameParts, Drains, Row
<1>. QED
  BY Zenon, <1>1, <1>2, <1>3

\* One row and one call change.
LEMMA OneChange ==
    ASSUME IInv, NEW g \in Gateways, NEW b, row' = [row EXCEPT ![g] = b],
           \A h \in Gateways \ {g} : call'[h] = call[h], Changes(g)
    PROVE  \A h \in Gateways : Changes(h)
<1>1. ASSUME NEW h \in Gateways \ {g}
      PROVE  Changes(h)
  <2>1. row'[h] = row[h] /\ call'[h] = call[h]
    BY Zenon DEF IInv, TypeOK
  <2>. QED
    BY Zenon, <2>1, StillChanges, SameStays
<1>. QED
  BY Zenon, <1>1

\* The API changes a row only when its call is ready or it is to be deleted.
LEMMA ApiChanges ==
    ASSUME IInv, ApiStep
    PROVE  UNCHANGED <<wk, stale, tgs, targets, rules>> /\ \A g \in Gateways : Changes(g)
<1>g. PICK g \in Gateways :
        \/ Provision(g) \/ ContainerHealthy(g) \/ ContainerFails(g) \/ RegisterEndpoint(g)
        \/ \E p \in Ports : StartContainer(g, p)
        \/ ApiCrash(g) \/ Decommission(g) \/ ForceDecommission(g)
  BY Zenon DEF ApiStep
<1>0. row \in [Gateways -> Row] /\ call \in [Gateways -> CallRec]
  BY Zenon DEF IInv, TypeOK, CallRec
<1>a. PICK a \in Row : a = row[g]
  BY Zenon, <1>0
<1>c. PICK c \in CallRec : c = call[g]
  BY Zenon, <1>0
<1>r. row = [row EXCEPT ![g] = a]
  BY <1>0, <1>a
<1>1. UNCHANGED <<wk, stale, tgs, targets, rules>> /\ \A h \in Gateways \ {g} : call'[h] = call[h]
  BY Zenon, <1>g, <1>0 DEF Provision, ContainerHealthy, ContainerFails, RegisterEndpoint,
     StartContainer, ApiCrash, Decommission, ForceDecommission, alb
<1>2. CASE Provision(g)
  <2>1. a.state = "absent" /\ row' = [row EXCEPT ![g] = NewRow] /\ row'[g] = NewRow
    BY Zenon, <1>0, <1>2, <1>a DEF Provision
  <2>2. Drains(a, NewRow)
    BY DEF Drains, NewRow
  <2>3. Changes(g)
    BY Zenon, <1>a, <2>1, <2>2 DEF Changes
  <2>. QED
    BY Zenon, <1>1, <2>1, <2>3, OneChange
<1>3. CASE ContainerHealthy(g) \/ (\E p \in Ports : StartContainer(g, p)) \/ ApiCrash(g)
  <2>1. row' = row
    BY Zenon, <1>3 DEF ContainerHealthy, StartContainer, ApiCrash
  <2>2. call'[g].pc # "none" => call[g].pc # "none"
    <3>1. ASSUME ApiCrash(g) PROVE call'[g] = NoCall
      BY Zenon, <1>0, <3>1 DEF ApiCrash
    <3>2. ASSUME ContainerHealthy(g) \/ \E p \in Ports : StartContainer(g, p)
          PROVE  call[g].pc # "none"
      BY <3>2 DEF ContainerHealthy, StartContainer
    <3>. QED
      BY Zenon, <1>3, <3>1, <3>2, NoCallIs
  <2>3. Changes(g)
    BY Zenon, <2>1, <2>2, StillChanges, SameStays
  <2>. QED
    BY Zenon, <1>1, <1>r, <2>1, <2>3, OneChange
<1>4. CASE ContainerFails(g)
  <2>1. PICK b : b = IF Live(g) THEN [a EXCEPT !.status = "failed"] ELSE a
    BY Zenon
  <2>2. row' = [row EXCEPT ![g] = b] /\ call'[g] = NoCall
    <3>1. /\ row' = [row EXCEPT ![g] = [a EXCEPT !.status = IF Live(g) THEN "failed" ELSE a.status]]
          /\ call'[g] = NoCall
      BY Zenon, <1>0, <1>4, <1>a DEF ContainerFails
    <3>2. a = [a EXCEPT !.status = a.status]
      BY DEF Row
    <3>. QED
      BY Zenon, <2>1, <3>1, <3>2
  <2>3. Stays(a, b) /\ Drains(a, b) /\ (b.state = "absent" => a.state = "absent")
    <3>1. CASE b = [a EXCEPT !.status = "failed"]
      BY Zenon, <3>1, EditsStay
    <3>2. CASE b = a
      BY Zenon, <3>2, SameStays
    <3>. QED
      BY Zenon, <2>1, <3>1, <3>2
  <2>4. row'[g] = b
    BY Zenon, <1>0, <2>2
  <2>5. Changes(g)
    BY Zenon, <1>a, <2>2, <2>3, <2>4, StillChanges, NoCallIs
  <2>. QED
    BY Zenon, <1>1, <2>2, <2>5, OneChange
<1>5. CASE RegisterEndpoint(g)
  <2>1. PICK b : b = IF a.state = "live" THEN MarkContainerReady(a, c.port) ELSE a
    BY Zenon
  <2>2. row' = [row EXCEPT ![g] = b] /\ row'[g] = b /\ call'[g] = NoCall /\ c.pc = "healthy"
    BY Zenon, <1>0, <1>5, <1>a, <1>c, <2>1 DEF RegisterEndpoint, Live
  <2>3. CASE a.state = "live"
    <3>1. /\ b.prov = "container_ready" /\ b.port = c.port /\ b.state = "live"
          /\ b.tg = a.tg /\ b.rule = a.rule /\ b.status = "provisioning"
      BY <2>1, <2>3 DEF MarkContainerReady, Row
    <3>2. Drains(a, b)
      BY <3>1 DEF Drains
    <3>3. Changes(g)
      BY Zenon, <1>a, <1>c, <2>2, <3>1, <3>2 DEF Changes
    <3>. QED
      BY Zenon, <1>1, <2>2, <3>3, OneChange
  <2>4. CASE a.state # "live"
    <3>1. Changes(g)
      BY Zenon, <1>a, <2>1, <2>2, <2>4, StillChanges, SameStays, NoCallIs
    <3>. QED
      BY Zenon, <1>1, <2>2, <3>1, OneChange
  <2>. QED
    BY Zenon, <2>3, <2>4
<1>6. CASE Decommission(g)
  <2>1. PICK b : b = QueueGatewayDeprovisioning(a)
    BY Zenon
  <2>2. /\ row' = [row EXCEPT ![g] = b] /\ row'[g] = b /\ a.state = "live"
        /\ EarlyDelete \/ call[g] = NoCall
        /\ call'[g] = call[g]
    BY Zenon, <1>0, <1>6, <1>a, <2>1 DEF Decommission, Live
  <2>3. b.prov = "deprovisioning" /\ SameParts(a, b) /\ b.state = "live"
    BY <2>1, <2>2 DEF QueueGatewayDeprovisioning, Mark, SameParts, Row
  <2>4. Changes(g)
    BY Zenon, <1>a, <2>2, <2>3 DEF Changes, Drains
  <2>. QED
    BY Zenon, <1>1, <2>2, <2>4, OneChange
<1>7. CASE ForceDecommission(g)
  <2>1. PICK b : b = [a EXCEPT !.status = "decommissioned"]
    BY Zenon
  <2>2. row' = [row EXCEPT ![g] = b] /\ row'[g] = b /\ call'[g] = call[g]
    BY Zenon, <1>0, <1>7, <1>a, <2>1 DEF ForceDecommission
  <2>3. Stays(a, b) /\ Drains(a, b) /\ (b.state = "absent" => a.state = "absent")
    BY Zenon, <2>1, EditsStay
  <2>4. Changes(g)
    BY Zenon, <1>a, <2>2, <2>3, StillChanges
  <2>. QED
    BY Zenon, <1>1, <2>2, <2>4, OneChange
<1>. QED
  BY Zenon, <1>g, <1>2, <1>3, <1>4, <1>5, <1>6, <1>7

\* The reconciler and time leave the stage of every row.
LEMMA BackChanges ==
    ASSUME IInv,
           \/ ListStaleDraining \/ EnvStep \/ \E g \in Gateways : reconcileStaleDraining(g)
    PROVE  UNCHANGED <<wk, call, tgs, targets, rules>> /\ \A g \in Gateways : Changes(g)
<1>0. row \in [Gateways -> Row] /\ \A g \in Gateways : row = [row EXCEPT ![g] = row[g]]
  BY DEF IInv, TypeOK
<1>1. UNCHANGED <<wk, call, tgs, targets, rules>>
  BY Zenon DEF ListStaleDraining, EnvStep, LeaseExpires, RetryTimeComes, CustomDomainRule,
     reconcileStaleDraining, alb
<1>2. ASSUME UNCHANGED row
      PROVE  \A g \in Gateways : Changes(g)
  BY Zenon, <1>1, <1>2, StillChanges, SameStays
<1>3. ASSUME NEW g \in Gateways, NEW a \in Row, a = row[g], NEW b, row' = [row EXCEPT ![g] = b],
             Stays(a, b), Drains(a, b), b.state = "absent" => a.state = "absent"
      PROVE  \A h \in Gateways : Changes(h)
  <2>1. row'[g] = b /\ \A h \in Gateways \ {g} : call'[h] = call[h]
    BY Zenon, <1>0, <1>1, <1>3
  <2>2. Changes(g)
    BY Zenon, <1>1, <1>3, <2>1, StillChanges
  <2>. QED
    BY Zenon, <1>3, <2>1, <2>2, OneChange
<1>4. ASSUME NEW g \in Gateways, reconcileStaleDraining(g), ~ UNCHANGED row
      PROVE  \A h \in Gateways : Changes(h)
  <2>1. PICK a \in Row : a = row[g]
    BY Zenon, <1>0
  <2>2. PICK b : /\ b = IF a.state = "live"
                        THEN [a EXCEPT !.state = "deleted", !.status = "decommissioned"] ELSE a
                 /\ row' = [row EXCEPT ![g] = b]
    BY Zenon, <1>4, <2>1 DEF reconcileStaleDraining, Live
  <2>3. Stays(a, b) /\ Drains(a, b) /\ (b.state = "absent" => a.state = "absent")
    BY Zenon, <2>2, EditsStay, SameStays
  <2>. QED
    BY Zenon, <1>3, <2>1, <2>2, <2>3
<1>5. ASSUME NEW g \in Gateways, LeaseExpires(g) \/ RetryTimeComes(g)
      PROVE  \A h \in Gateways : Changes(h)
  <2>1. PICK a \in Row : a = row[g]
    BY Zenon, <1>0
  <2>2. PICK b : /\ b = [a EXCEPT !.expired = TRUE] \/ b = [a EXCEPT !.due = TRUE]
                 /\ row' = [row EXCEPT ![g] = b]
    BY Zenon, <1>5, <2>1 DEF LeaseExpires, RetryTimeComes
  <2>3. Stays(a, b) /\ Drains(a, b) /\ (b.state = "absent" => a.state = "absent")
    BY Zenon, <2>2, EditsStay
  <2>. QED
    BY Zenon, <1>3, <2>1, <2>2, <2>3
<1>6. ASSUME ListStaleDraining \/ \E t \in TgArns : CustomDomainRule(t)
      PROVE  UNCHANGED row
  BY Zenon, <1>6 DEF ListStaleDraining, CustomDomainRule
<1>. QED
  BY Zenon, <1>1, <1>2, <1>4, <1>5, <1>6 DEF EnvStep

\* Reserving and claiming leave the stage of every row.
LEMMA LeaseChanges ==
    ASSUME IInv, NEW w \in Workers,
           \/ ReserveGatewayListenerRulePriority(w)
           \/ \E g \in Gateways : ClaimNextGatewayIngressJob(w, g)
    PROVE  \A h \in Gateways : /\ Stays(row[h], row'[h]) /\ Drains(row[h], row'[h])
                               /\ row'[h].state = "absent" => row[h].state = "absent"
<1>0. row \in [Gateways -> Row]
  BY Zenon DEF IInv, TypeOK
<1>1. CASE UNCHANGED row
  BY Zenon, <1>1, SameStays
<1>2. ASSUME NEW g \in Gateways, NEW t,
             \/ row' = [row EXCEPT ![g].lease = t, ![g].expired = FALSE]
             \/ row' = [row EXCEPT ![g].prio = t],
             NEW h \in Gateways
      PROVE  /\ Stays(row[h], row'[h]) /\ Drains(row[h], row'[h])
             /\ row'[h].state = "absent" => row[h].state = "absent"
  <2>1. PICK a \in Row : a = row[h]
    BY Zenon, <1>0
  <2>2. PICK b : b = row'[h]
    BY Zenon
  <2>3. /\ b.state = a.state /\ b.status = a.status /\ b.prov = a.prov /\ b.port = a.port
        /\ b.tg = a.tg /\ b.rule = a.rule
    BY <1>0, <1>2, <2>1, <2>2 DEF Row
  <2>. QED
    BY Zenon, <2>1, <2>2, <2>3 DEF Stays, SameParts, Drains
<1>3. ASSUME NEW g \in Gateways, ClaimNextGatewayIngressJob(w, g)
      PROVE  \E t : row' = [row EXCEPT ![g].lease = t, ![g].expired = FALSE]
  BY Zenon, <1>3 DEF ClaimNextGatewayIngressJob
<1>4. ASSUME ReserveGatewayListenerRulePriority(w), ~ UNCHANGED row
      PROVE  \E g \in Gateways : \E t : row' = [row EXCEPT ![g].prio = t]
  <2>1. wk[w].pc # "idle"
    BY Zenon, <1>4 DEF ReserveGatewayListenerRulePriority
  <2>2. wk[w].g \in Gateways
    BY Zenon, <2>1, Busy
  <2>. QED
    BY Zenon, <1>4, <2>2 DEF ReserveGatewayListenerRulePriority
<1>. QED
  BY Zenon, <1>1, <1>2, <1>3, <1>4

\* The statement of a handler has no effect, or is what the handler decided.
LEMMA WriteChanges ==
    ASSUME IInv, NEW w \in Workers, Write(w), NEW j, j = wk[w]
    PROVE  /\ j.pc = "write" /\ j.g \in Gateways
           /\ \A h \in Gateways \ {j.g} : row'[h] = row[h]
           /\ \/ row'[j.g] = row[j.g]
              \/ /\ LeaseHeld(row[j.g], j) /\ Recorded(j, row[j.g], row'[j.g])
                 /\ Drains(row[j.g], row'[j.g]) /\ row'[j.g].state # "absent"
<1>1. j.pc = "write" /\ j.pc # "idle"
  BY DEF Write
<1>2. j \in Job /\ j.g \in Gateways /\ j.op \in Ops /\ OpOk(j) /\ RowOk(j, row[j.g])
  BY Zenon, <1>1, Busy
<1>3. PICK g \in Gateways : g = j.g
  BY Zenon, <1>2
<1>4. PICK a \in Row : a = row[g]
  BY Zenon DEF IInv, TypeOK
<1>5. row' = [row EXCEPT ![g] = IF LeaseHeld(a, j) THEN WriteBack(a, j) ELSE a]
  BY Zenon, <1>3, <1>4 DEF Write
<1>6. /\ row'[g] = IF LeaseHeld(a, j) THEN WriteBack(a, j) ELSE a
      /\ \A h \in Gateways \ {g} : row'[h] = row[h]
  BY Zenon, <1>5 DEF IInv, TypeOK
<1>7. ASSUME LeaseHeld(a, j)
      PROVE  Recorded(j, a, row'[g]) /\ Drains(a, row'[g]) /\ row'[g].state # "absent"
  <2>1. PICK b : b = WriteBack(a, j)
    BY Zenon
  <2>2. b = row'[g] /\ RowOk(j, a)
    BY ZenonT(40), <1>2, <1>3, <1>4, <1>6, <1>7, <2>1
  <2>3. Recorded(j, a, b) /\ Drains(a, b) /\ b.state # "absent"
    BY Zenon, <1>2, <1>7, <2>1, <2>2, RecordedIs
  <2>. QED
    BY Zenon, <2>2, <2>3
<1>. QED
  BY Zenon, <1>1, <1>2, <1>3, <1>4, <1>6, <1>7

\* The other steps of a worker leave the table.
LEMMA CallChanges ==
    ASSUME IInv, NEW w \in Workers,
           \/ CreateGatewayTargetGroup(w) \/ RegisterGatewayTarget(w) \/ CreateGatewayHostRule(w)
           \/ GetGatewayTargetHealth(w) \/ TargetNotSettled(w) \/ DeleteGatewayHostRule(w)
           \/ DeregisterGatewayTarget(w) \/ DeleteGatewayTargetGroup(w) \/ RemoveContainer(w)
           \/ CallFails(w) \/ Crash(w)
    PROVE  UNCHANGED <<row, call, stale>>
BY Zenon DEF CreateGatewayTargetGroup, RegisterGatewayTarget, CreateGatewayHostRule,
   GetGatewayTargetHealth, TargetNotSettled, DeleteGatewayHostRule, DeregisterGatewayTarget,
   DeleteGatewayTargetGroup, RemoveContainer, CallFails, Crash

\* A gateway is only marked decommissioned when its recorded rule and target group are
\* gone: only the last statement of a cleanup does it, the lease it is fenced by means
\* the row still names what the handler has deleted, and no other step brings it back.
THEOREM DecommissionComplete == Spec => DecommissionReleases
<1>1. ASSUME IInv, [Next]_vars, NEW g \in Gateways,
             row[g].prov = "deprovisioning", row'[g].prov = "deprovisioned"
      PROVE  /\ row[g].tg # None => tgs[row[g].tg] = None
             /\ \A x \in rules : x.arn # row[g].rule
  <2>1. row'[g].prov # row[g].prov /\ row'[g].prov # NewRow.prov
    BY ZenonT(40), <1>1 DEF NewRow
  <2>2. ~ Stays(row[g], row'[g]) /\ row'[g] # row[g] /\ ~ Changes(g)
    BY <1>1, <2>1 DEF Stays, Changes
  <2>3. ~ UNCHANGED row
    BY Zenon, <2>2
  <2>4. PICK w \in Workers : Write(w)
    <3>1. ~ UNCHANGED vars /\ ~ ApiStep
      BY Zenon, <1>1, <2>2, <2>3, ApiChanges DEF vars
    <3>2. ~ (ListStaleDraining \/ EnvStep \/ \E h \in Gateways : reconcileStaleDraining(h))
      BY Zenon, <1>1, <2>2, BackChanges
    <3>3. PICK w \in Workers : \/ HandlerStep(w) \/ CallFails(w) \/ Crash(w)
                               \/ \E h \in Gateways : ClaimNextGatewayIngressJob(w, h)
      BY Zenon, <1>1, <3>1, <3>2 DEF Next, WorkerStep
    <3>. QED
      BY Zenon, <1>1, <2>2, <2>3, <3>3, CallChanges, LeaseChanges DEF HandlerStep
  <2>5. PICK j : j = wk[w]
    BY Zenon
  <2>6. /\ j.pc = "write" /\ g = j.g
        /\ LeaseHeld(row[g], j) /\ Recorded(j, row[g], row'[g])
    BY ZenonT(40), <1>1, <2>2, <2>4, <2>5, WriteChanges
  <2>7. j.op = "decommissioned" /\ j.pc # "idle"
    BY <1>1, <2>2, <2>6 DEF Recorded, SameParts
  <2>8. RowOk(j, row[g]) /\ Released(j)
    BY Zenon, <1>1, <2>5, <2>6, <2>7, Busy
  <2>. QED
    BY Zenon, <2>6, <2>7, <2>8 DEF RowOk, Released, PastRule, PastTg, LeaseHeld
<1>2. IInv /\ [Next]_vars =>
        [\A g \in Gateways :
            row[g].prov = "deprovisioning" /\ row'[g].prov = "deprovisioned" =>
                /\ row[g].tg # None => tgs[row[g].tg] = None
                /\ \A x \in rules : x.arn # row[g].rule]_vars
  BY Zenon, <1>1
<1>. QED
  BY <1>2, Invariance, PTL DEF Spec, DecommissionReleases

----------------------------------------------------------------------------
(* What is on the load balancer *)

\* Gateways that are being taken down or were given up.
DeadProvs == {"deprovisioning", "failed", "deprovisioned"}
Dead(g) == row[g].prov \in DeadProvs

\* What the load balancer holds for a gateway at its stage.
Exposed(g) ==
    /\ row[g].state = "absent" => row[g].prov = "not_started"
    /\ row[g].prov = "not_started" \/ call[g].pc # "none" => row[g].tg = None /\ row[g].rule = None
    /\ row[g].prov = "container_ready" => row[g].tg = None
    /\ row[g].prov \in {"registering_target", "creating_listener_rule",
                        "waiting_for_target_health", "completed"} => tgs[row[g].tg] = g
    /\ row[g].prov \in {"creating_listener_rule", "waiting_for_target_health", "completed"} =>
         <<row[g].tg, row[g].port>> \in targets
    /\ row[g].prov \in {"waiting_for_target_health", "completed"} =>
         \E x \in rules : x.arn = row[g].rule /\ x.g = g /\ x.tg = row[g].tg

\* What a handler's calls have done before its statement records it.
Took(j) ==
    /\ j.op = "tg_created" => tgs[j.got] = j.g
    /\ j.op = "registered" => <<j.tg, j.port>> \in targets
    /\ j.op = "rule_created" => \E x \in rules : x.arn = j.got /\ x.g = j.g /\ x.tg = j.tg

\* The cleanup of a gateway that was deleted before it had anything on the load balancer:
\* its Provision call may still go on and revive it.
Bare(j) == j.prov = "deprovisioning" /\ j.tg = None /\ j.rule = None

Effect(j) ==
    \/ Bare(j)
    \/ /\ call[j.g].pc = "none"
       /\ j.prov = "deprovisioning" => Dead(j.g)
       /\ j.pc = "write" /\ ~ Dead(j.g) => Took(j)

RInv ==
    /\ \A g \in Gateways : Exposed(g)
    /\ \A w \in Workers : wk[w].pc # "idle" => Effect(wk[w])

\* A step spares what is on the load balancer for gateways that are not dead.
Spares ==
    \A g \in Gateways : ~ Dead(g) =>
        /\ \A t \in TgArns : UsesTg(g, t) =>
              /\ tgs[t] = g => tgs'[t] = g
              /\ \A p \in Ports : <<t, p>> \in targets => <<t, p>> \in targets'
        /\ \A x \in rules : x.g = g => x \in rules'

\* A gateway whose call has ended is not revived.
Calm(g) ==
    call[g].pc = "none" /\ row[g].state # "absent" =>
        call'[g].pc = "none" /\ (Dead(g) => Dead(g)')

\* A row that keeps its stage is not revived.
LEMMA StaysCalm ==
    ASSUME NEW g, Stays(row[g], row'[g]), call'[g].pc # "none" => call[g].pc # "none"
    PROVE  Calm(g)
BY Zenon DEF Stays, Calm, Dead

\* At the start nothing is on the load balancer.
LEMMA InitR == Init => RInv
<1>. SUFFICES ASSUME Init PROVE RInv
  OBVIOUS
<1>1. ASSUME NEW g \in Gateways
      PROVE  Exposed(g)
  <2>1. row[g] = [NewRow EXCEPT !.status = "draining"] \/ row[g] = [NewRow EXCEPT !.state = "absent"]
    BY Zenon DEF Init
  <2>2. row[g].prov = "not_started" /\ row[g].tg = None /\ row[g].rule = None
    BY <2>1 DEF NewRow
  <2>. QED
    BY <2>2 DEF Exposed
<1>2. \A w \in Workers : wk[w].pc = "idle"
  BY Zenon, IdleIs DEF Init
<1>. QED
  BY Zenon, <1>1, <1>2 DEF RInv

\* Every step keeps what the load balancer holds for the stages of the rows.
LEMMA NextR == IInv /\ RInv /\ [Next]_vars => RInv'
\* Neither is one whose cleanup goes on.
<1>DeadCalm.
    ASSUME NEW g, UNCHANGED call, row[g].prov \in DeadProvs => row'[g].prov \in DeadProvs
    PROVE  Calm(g)
  BY Zenon, <1>DeadCalm DEF Calm, Dead

\* What the calls of worker v have done lasts.
<1>TookLasts.
    ASSUME IInv, NEW v \in Workers, NEW j, j = wk[v], j.pc = "write", Spares, ~ Dead(j.g), Took(j)
    PROVE  Took(j)'
  <2>. USE <1>TookLasts
  <2>0. j.pc # "idle"
    OBVIOUS
  <2>1. j \in Job /\ j.g \in Gateways /\ OpOk(j)
    BY Zenon, <2>0, Busy
  <2>2. j.op = "tg_created" => tgs'[j.got] = j.g
    BY Zenon, <2>1 DEF OpOk, Took, Spares, UsesTg
  <2>3. j.op = "registered" => <<j.tg, j.port>> \in targets'
    <3>1. ASSUME j.op = "registered"
          PROVE  j.tg \in TgArns /\ j.port \in Ports /\ <<j.tg, j.port>> \in targets
      <4>1. <<j.tg, j.port>> \in targets /\ targets \subseteq TgArns \X Ports
        BY Zenon, <3>1 DEF Took, IInv, TypeOK
      <4>. QED
        BY <4>1
    <3>. QED
      BY Zenon, <2>1, <3>1 DEF Spares, UsesTg
  <2>4. j.op = "rule_created" => \E x \in rules' : x.arn = j.got /\ x.g = j.g /\ x.tg = j.tg
    BY Zenon, <2>1 DEF Took, Spares
  <2>. QED
    BY Zenon, <2>2, <2>3, <2>4 DEF Took

\* A job keeps what it relies on while it goes on from j to k.
<1>EffectGoes.
    ASSUME IInv, RInv, NEW w \in Workers, NEW j, j = wk[w], j.pc # "idle",
           Calm(j.g), NEW k, SameJob(j, k), k.pc = "write" /\ ~ Dead(k.g)' => Took(k)'
    PROVE  Effect(k)'
  <2>. USE <1>EffectGoes
  <2>1. j.g \in Gateways /\ row[j.g].state # "absent"
    BY Zenon, Busy DEF RowOk
  <2>2. Effect(j) /\ k.g = j.g /\ k.tg = j.tg /\ k.rule = j.rule /\ k.prov = j.prov
    BY Zenon DEF RInv, SameJob
  <2>. QED
    BY Zenon, <2>1, <2>2 DEF Effect, Bare, Calm, Dead

\* A worker that does not move keeps what its calls have done.
<1>EffectLasts.
    ASSUME IInv, RInv, Spares, NEW v \in Workers, NEW j, j = wk[v], j.pc # "idle", Calm(j.g)
    PROVE  Effect(j)'
  <2>. USE <1>EffectLasts
  <2>1. CASE Bare(j)
    BY Zenon, <2>1 DEF Effect, Bare
  <2>2. CASE ~ Bare(j)
    <3>1. Effect(j) /\ row[j.g].state # "absent"
      BY Zenon, Busy DEF RInv, RowOk
    <3>2. call[j.g].pc = "none" /\ (j.pc = "write" /\ ~ Dead(j.g) => Took(j))
      BY Zenon, <2>2, <3>1 DEF Effect
    <3>3. ASSUME j.pc = "write", ~ Dead(j.g)'
          PROVE  Took(j)'
      <4>1. ~ Dead(j.g)
        BY Zenon, <3>1, <3>2, <3>3 DEF Calm
      <4>. QED
        BY Zenon, <3>2, <3>3, <4>1, <1>TookLasts
    <3>4. SameJob(j, j)
      BY Zenon DEF SameJob
    <3>. QED
      BY Zenon, <3>3, <3>4, <1>EffectGoes
  <2>. QED
    BY Zenon, <2>1, <2>2

\* A gateway whose row keeps its stage stays exposed.
<1>ExposedLasts.
    ASSUME IInv, RInv, Spares, NEW g \in Gateways, Stays(row[g], row'[g]),
           row'[g].state = "absent" => row[g].state = "absent",
           call'[g].pc # "none" => call[g].pc # "none"
    PROVE  Exposed(g)'
  <2>. USE <1>ExposedLasts
  <2>p. PICK a \in Row : a = row[g] /\ StageOk(a)
    BY Zenon, StagesAre DEF IInv, TypeOK
  <2>q. PICK b : b = row'[g]
    BY Zenon
  <2>1. b.prov = a.prov /\ b.port = a.port /\ b.tg = a.tg /\ b.rule = a.rule /\ Exposed(g)
    BY Zenon, <2>p, <2>q DEF Stays, SameParts, RInv
  <2>0. /\ b.state = "absent" => b.prov = "not_started"
        /\ b.prov = "not_started" \/ call'[g].pc # "none" => b.tg = None /\ b.rule = None
        /\ b.prov = "container_ready" => b.tg = None
    BY ZenonT(40), <2>p, <2>q, <2>1 DEF Exposed
  <2>2. CASE Dead(g)
    <3>1. a.prov \in DeadProvs
      BY Zenon, <2>p, <2>2 DEF Dead
    <3>. QED
      BY <2>q, <2>0, <2>1, <3>1 DEF Exposed, DeadProvs
  <2>3. CASE ~ Dead(g)
    <3>2. ASSUME a.prov \in {"registering_target", "creating_listener_rule",
                             "waiting_for_target_health", "completed"}
          PROVE  a.tg \in TgArns /\ a.port \in Ports /\ UsesTg(g, a.tg)
      <4>1. a.prov \in (Stages \ {"container_ready"}) \cup {"completed"}
        BY ZenonT(40), <3>2 DEF Stages
      <4>2. a.tg \in TgArns /\ a.port \in Ports
        BY <2>p, <4>1 DEF StageOk, Row
      <4>. QED
        BY Zenon, <2>p, <4>2 DEF UsesTg
    <3>3. a.prov \in {"registering_target", "creating_listener_rule",
                      "waiting_for_target_health", "completed"} => tgs'[a.tg] = g
      BY Zenon, <2>p, <2>1, <2>3, <3>2 DEF Exposed, Spares
    <3>4. a.prov \in {"creating_listener_rule", "waiting_for_target_health", "completed"} =>
             <<a.tg, a.port>> \in targets'
      BY Zenon, <2>p, <2>1, <2>3, <3>2 DEF Exposed, Spares
    <3>5. a.prov \in {"waiting_for_target_health", "completed"} =>
             \E x \in rules' : x.arn = a.rule /\ x.g = g /\ x.tg = a.tg
      BY Zenon, <2>p, <2>1, <2>3 DEF Exposed, Spares
    <3>. QED
      BY Zenon, <2>q, <2>0, <2>1, <3>3, <3>4, <3>5 DEF Exposed
  <2>. QED
    BY Zenon, <2>2, <2>3

\* Nothing on the load balancer changes.
<1>SparesAll. UNCHANGED <<tgs, targets, rules>> => Spares
  BY Zenon DEF Spares

\* No worker moves.
<1>QuietR.
    ASSUME IInv, RInv, UNCHANGED <<wk, tgs, targets, rules>>, \A g \in Gateways : Changes(g)
    PROVE  RInv'
  <2>. USE <1>QuietR
  <2>1. Spares
    BY Zenon, <1>SparesAll
  <2>2. ASSUME NEW g \in Gateways
        PROVE  Calm(g) /\ Exposed(g)'
    <3>p. PICK a, b : a = row[g] /\ b = row'[g]
      BY Zenon
    <3>0. Exposed(g)
      BY Zenon DEF RInv
    <3>1. CASE /\ Stays(a, b) /\ (b.state = "absent" => a.state = "absent")
               /\ call'[g].pc # "none" => call[g].pc # "none"
      BY Zenon, <2>1, <3>p, <3>1, StaysCalm, <1>ExposedLasts
    <3>2. CASE a.state = "absent" /\ b = NewRow
      <4>1. b.prov = "not_started" /\ b.tg = None /\ b.rule = None /\ b.state = "live"
        BY <3>2 DEF NewRow
      <4>2. Calm(g)
        BY Zenon, <3>p, <3>2 DEF Calm
      <4>3. Exposed(g)'
        BY ZenonT(40), <3>p, <4>1 DEF Exposed
      <4>. QED
        BY Zenon, <4>2, <4>3
    <3>3. CASE /\ call[g].pc = "healthy" /\ b.prov = "container_ready" /\ b.port = call[g].port
               /\ b.state = "live" /\ b.tg = a.tg /\ b.rule = a.rule /\ call'[g] = NoCall
      <4>1. a.tg = None /\ a.rule = None /\ call[g].pc # "none"
        BY <3>p, <3>0, <3>3 DEF Exposed
      <4>2. Calm(g)
        BY Zenon, <4>1 DEF Calm
      <4>3. Exposed(g)'
        BY ZenonT(40), <3>p, <3>3, <4>1 DEF Exposed
      <4>. QED
        BY Zenon, <4>2, <4>3
    <3>4. CASE /\ b.prov = "deprovisioning" /\ SameParts(a, b) /\ b.state = "live"
               /\ call'[g] = call[g]
      <4>1. Calm(g)
        BY ZenonT(40), <3>p, <3>4 DEF Calm, Dead, DeadProvs
      <4>2. Exposed(g)'
        BY <3>p, <3>0, <3>4 DEF Exposed, SameParts
      <4>. QED
        BY Zenon, <4>1, <4>2
    <3>5. Changes(g)
      BY Zenon
    <3>. QED
      BY Zenon, <3>p, <3>1, <3>2, <3>3, <3>4, <3>5 DEF Changes
  <2>3. ASSUME NEW v \in Workers, wk[v].pc # "idle"
        PROVE  Effect(wk[v])'
    <3>1. PICK j : j = wk[v]
      BY Zenon
    <3>2. j.g \in Gateways /\ wk'[v] = j
      BY Zenon, <2>3, <3>1, Busy
    <3>3. Effect(j)'
      BY Zenon, <2>1, <2>2, <2>3, <3>1, <3>2, <1>EffectLasts
    <3>. QED
      BY Zenon, <3>2, <3>3 DEF Effect, Bare, Took, Dead
  <2>. QED
    BY Zenon, <2>2, <2>3 DEF RInv

\* A worker moves on to k.
<1>WorkerR.
    ASSUME IInv, RInv, Spares, NEW w \in Workers, NEW k, Becomes(w, k),
           k.pc # "idle" => Effect(k)', \A g \in Gateways : Calm(g) /\ Exposed(g)'
    PROVE  RInv'
  <2>. USE <1>WorkerR
  <2>1. wk'[w] = k /\ \A v \in Workers \ {w} : wk'[v] = wk[v]
    BY Zenon DEF IInv, TypeOK, Becomes
  <2>2. ASSUME NEW v \in Workers, wk'[v].pc # "idle"
        PROVE  Effect(wk[v])'
    <3>1. PICK j : j = wk'[v]
      BY Zenon
    <3>2. CASE v = w
      BY Zenon, <2>1, <2>2, <3>2 DEF Effect, Bare, Took, Dead
    <3>3. CASE v # w
      <4>1. j = wk[v] /\ j.pc # "idle"
        BY Zenon, <2>1, <2>2, <3>1, <3>3
      <4>2. j.g \in Gateways
        BY Zenon, <4>1, Busy
      <4>3. Effect(j)'
        BY Zenon, <4>1, <4>2, <1>EffectLasts
      <4>. QED
        BY Zenon, <3>1, <4>3 DEF Effect, Bare, Took, Dead
    <3>. QED
      BY Zenon, <3>2, <3>3
  <2>. QED
    BY Zenon, <2>2 DEF RInv

\* A worker moves on and no row leaves its stage.
<1>StayR.
    ASSUME IInv, RInv, Spares, NEW w \in Workers, NEW k, Becomes(w, k),
           k.pc # "idle" => Effect(k)', UNCHANGED call,
           \A h \in Gateways : /\ Stays(row[h], row'[h])
                               /\ row'[h].state = "absent" => row[h].state = "absent"
    PROVE  RInv'
  <2>. USE <1>StayR
  <2>1. \A g \in Gateways : Calm(g) /\ Exposed(g)'
    BY Zenon, StaysCalm, <1>ExposedLasts
  <2>. QED
    BY Zenon, <2>1, <1>WorkerR

\* A call is made and the table stays.
<1>CallR.
    ASSUME IInv, RInv, Spares, NEW w \in Workers, wk[w].pc # "idle", UNCHANGED <<row, call>>,
           NEW k, Becomes(w, k), SameJob(wk[w], k), k.pc = "write" => Took(k)'
    PROVE  RInv'
  <2>. USE <1>CallR
  <2>1. \A h \in Gateways : Stays(row[h], row'[h])
    BY Zenon, SameStays
  <2>2. PICK j : j = wk[w]
    BY Zenon
  <2>3. j.g \in Gateways
    BY Zenon, <2>2, Busy
  <2>4. Calm(j.g)
    BY Zenon, <2>1, <2>3, StaysCalm
  <2>5. Effect(k)'
    BY Zenon, <2>2, <2>4, <1>EffectGoes
  <2>. QED
    BY Zenon, <2>1, <2>5, <1>StayR

\* A call failed or its answer was lost.
<1>RetryR.
    ASSUME IInv, RInv, Spares, NEW w \in Workers, wk[w].pc # "idle", UNCHANGED <<row, call>>,
           Becomes(w, retryOrFail(wk[w]))
    PROVE  RInv'
  <2>. USE <1>RetryR
  <2>1. PICK k : k = retryOrFail(wk[w])
    BY Zenon
  <2>2. wk[w] \in Job
    BY Zenon DEF IInv, TypeOK
  <2>3. SameJob(wk[w], k) /\ k.op \in {"retry", "fail"}
    BY ZenonT(40), <2>1, <2>2, RetryIs
  <2>4. Took(k)'
    BY <2>3 DEF Took
  <2>. QED
    BY Zenon, <2>1, <2>3, <2>4, <1>CallR

\* A call took effect, and its answer may be lost.
<1>GoesR.
    ASSUME IInv, RInv, Spares, NEW w \in Workers, wk[w].pc # "idle", UNCHANGED <<row, call>>,
           NEW k, Goes(w, k), SameJob(wk[w], k), k.pc = "write" => Took(k)'
    PROVE  RInv'
  BY Zenon, <1>GoesR, <1>CallR, <1>RetryR DEF Goes

\* The calls that expose a gateway.
<1>ExposeR.
    ASSUME IInv, RInv, NEW w \in Workers,
           \/ CreateGatewayTargetGroup(w) \/ RegisterGatewayTarget(w) \/ CreateGatewayHostRule(w)
           \/ GetGatewayTargetHealth(w) \/ TargetNotSettled(w)
    PROVE  RInv'
  <2>. USE <1>ExposeR
  <2>p. PICK j : j = wk[w]
    BY ZenonT(40)
  <2>0. j.pc # "idle" /\ j.pc # "write"
    BY <2>p DEF CreateGatewayTargetGroup, RegisterGatewayTarget, CreateGatewayHostRule,
       GetGatewayTargetHealth, TargetNotSettled
  <2>1. j \in Job /\ j.g \in Gateways /\ PcOk(j)
    BY Zenon, <2>p, <2>0, Busy
  <2>2. UNCHANGED <<row, call>>
    BY Zenon, CallChanges
  <2>3. ASSUME NEW op \in Ops, NEW got \in Arns
        PROVE  /\ SameJob(j, Decided(j, op, got)) /\ Decided(j, op, got).op = op
               /\ Decided(j, op, got).got = got
    BY <2>1, DecidedIs
  <2>4. CASE CreateGatewayTargetGroup(w)
    <3>1. ASSUME NEW t \in TgArns, tgs' = [tgs EXCEPT ![t] = j.g], tgs[t] \in {None, j.g},
                 UNCHANGED <<targets, rules>>,
                 Goes(w, Decided(j, "tg_created", t))
          PROVE  RInv'
      <4>1. Spares
        <5>1. tgs'[t] = j.g /\ \A u \in TgArns \ {t} : tgs'[u] = tgs[u]
          BY Zenon, <3>1 DEF IInv, TypeOK
        <5>2. ASSUME NEW g \in Gateways, NEW u \in TgArns, tgs[u] = g
              PROVE  tgs'[u] = g
          BY Zenon, <3>1, <5>1, <5>2, NoneAssumption
        <5>. QED
          BY Zenon, <3>1, <5>2 DEF Spares
      <4>2. "tg_created" \in Ops /\ t \in Arns
        BY DEF Ops, Arns
      <4>3. PICK k : k = Decided(j, "tg_created", t)
        BY Zenon
      <4>4. SameJob(j, k) /\ k.op = "tg_created" /\ k.got = t
        BY Zenon, <2>3, <4>2, <4>3
      <4>5. tgs'[t] = j.g /\ k.g = j.g
        BY Zenon, <3>1, <4>4 DEF IInv, TypeOK, SameJob
      <4>6. Took(k)'
        BY <4>4, <4>5 DEF Took
      <4>. QED
        BY Zenon, <2>p, <2>0, <2>2, <3>1, <4>1, <4>3, <4>4, <4>6, <1>GoesR
    <3>2. ASSUME NEW t \in TgArns, tgs[t] = j.g, Goes(w, Decided(j, "tg_created", t)), UNCHANGED tgs
          PROVE  RInv'
      <4>1. tgs' = [tgs EXCEPT ![t] = j.g]
        BY <3>2 DEF IInv, TypeOK
      <4>2. UNCHANGED <<targets, rules>>
        BY Zenon, <2>4 DEF CreateGatewayTargetGroup
      <4>. QED
        BY Zenon, <3>1, <3>2, <4>1, <4>2
    <3>3. ASSUME UnusedTgs # {}, tgs' = [tgs EXCEPT ![AnyOf(UnusedTgs)] = j.g],
                 Goes(w, Decided(j, "tg_created", AnyOf(UnusedTgs)))
          PROVE  RInv'
      <4>1. PICK t \in UnusedTgs : t = AnyOf(UnusedTgs)
        BY Zenon, <3>3 DEF AnyOf
      <4>2. t \in TgArns /\ tgs[t] = None
        BY Zenon, <4>1 DEF UnusedTgs
      <4>3. UNCHANGED <<targets, rules>>
        BY Zenon, <2>4 DEF CreateGatewayTargetGroup
      <4>. QED
        BY Zenon, <3>1, <3>3, <4>1, <4>2, <4>3
    <3>. QED
      BY Zenon, <2>4, <2>p, <3>2, <3>3 DEF CreateGatewayTargetGroup
  <2>5. CASE RegisterGatewayTarget(w)
    <3>1. CASE Refused(w)
      BY Zenon, <2>p, <2>0, <2>2, <3>1, <1>SparesAll, <1>RetryR DEF Refused, alb
    <3>2. ASSUME targets' = targets \cup {<<j.tg, j.port>>},
                 Goes(w, Decided(j, "registered", None)), UNCHANGED <<tgs, rules>>
          PROVE  RInv'
      <4>1. Spares
        BY Zenon, <3>2 DEF Spares
      <4>2. "registered" \in Ops /\ None \in Arns
        BY DEF Ops, Arns
      <4>3. PICK k : k = Decided(j, "registered", None)
        BY Zenon
      <4>4. SameJob(j, k) /\ k.op = "registered"
        BY Zenon, <2>3, <4>2, <4>3
      <4>5. <<k.tg, k.port>> \in targets'
        BY Zenon, <3>2, <4>4 DEF SameJob
      <4>6. Took(k)'
        BY <4>4, <4>5 DEF Took
      <4>. QED
        BY Zenon, <2>p, <2>0, <2>2, <3>2, <4>1, <4>3, <4>4, <4>6, <1>GoesR
    <3>. QED
      BY Zenon, <2>5, <2>p, <3>1, <3>2 DEF RegisterGatewayTarget
  <2>6. CASE CreateGatewayHostRule(w)
    <3>1. CASE Refused(w)
      BY Zenon, <2>p, <2>0, <2>2, <3>1, <1>SparesAll, <1>RetryR DEF Refused, alb
    <3>2. ASSUME NEW x \in rules', x.g = j.g, x.tg = j.tg, x.arn \in RuleArns,
                 Goes(w, Decided(j, "rule_created", x.arn)), rules \subseteq rules',
                 UNCHANGED <<tgs, targets>>
          PROVE  RInv'
      <4>1. Spares
        BY Zenon, <3>2 DEF Spares
      <4>2. "rule_created" \in Ops /\ x.arn \in Arns
        BY <3>2 DEF Ops, Arns
      <4>3. PICK k : k = Decided(j, "rule_created", x.arn)
        BY Zenon
      <4>4. SameJob(j, k) /\ k.op = "rule_created" /\ k.got = x.arn
        BY Zenon, <2>3, <4>2, <4>3
      <4>5. \E y \in rules' : y.arn = k.got /\ y.g = k.g /\ y.tg = k.tg
        BY Zenon, <3>2, <4>4 DEF SameJob
      <4>6. Took(k)'
        BY <4>4, <4>5 DEF Took
      <4>. QED
        BY Zenon, <2>p, <2>0, <2>2, <3>2, <4>1, <4>3, <4>4, <4>6, <1>GoesR
    <3>3. ASSUME NEW x \in rules, x.g = j.g, x.tg = j.tg, Goes(w, Decided(j, "rule_created", x.arn)),
                 UNCHANGED alb
          PROVE  RInv'
      <4>1. x.arn \in RuleArns
        BY <3>3 DEF IInv, TypeOK
      <4>. QED
        BY ZenonT(40), <3>2, <3>3, <4>1 DEF alb
    <3>4. ASSUME UnusedRules # {}, NEW a, a = AnyOf(UnusedRules),
                 rules' = rules \cup {[arn |-> a, g |-> j.g, tg |-> j.tg, prio |-> j.prio]},
                 Goes(w, Decided(j, "rule_created", a)), UNCHANGED <<tgs, targets, pinned>>
          PROVE  RInv'
      <4>1. a \in RuleArns
        BY Zenon, <3>4 DEF AnyOf, UnusedRules
      <4>2. PICK x : x = [arn |-> a, g |-> j.g, tg |-> j.tg, prio |-> j.prio]
        BY Zenon
      <4>3. x \in rules' /\ x.g = j.g /\ x.tg = j.tg /\ x.arn = a /\ rules \subseteq rules'
        BY <3>4, <4>2
      <4>. QED
        BY Zenon, <3>2, <3>4, <4>1, <4>3
    <3>. QED
      BY Zenon, <2>6, <2>p, <3>1, <3>3, <3>4 DEF CreateGatewayHostRule
  <2>7. CASE GetGatewayTargetHealth(w) \/ TargetNotSettled(w)
    <3>1. CASE Refused(w)
      BY Zenon, <2>p, <2>0, <2>2, <3>1, <1>SparesAll, <1>RetryR DEF Refused, alb
    <3>2. ASSUME NEW op \in {"active", "reschedule"}, Becomes(w, Decided(j, op, None)), UNCHANGED alb
          PROVE  RInv'
      <4>2. op \in Ops /\ None \in Arns
        BY DEF Ops, Arns
      <4>3. PICK k : k = Decided(j, op, None)
        BY Zenon
      <4>4. SameJob(j, k) /\ k.op = op
        BY Zenon, <2>3, <4>2, <4>3
      <4>5. Took(k)'
        BY <4>4 DEF Took
      <4>. QED
        BY Zenon, <2>p, <2>0, <2>2, <3>2, <4>3, <4>4, <4>5, <1>CallR, <1>SparesAll DEF alb
    <3>. QED
      BY Zenon, <2>7, <2>p, <3>1, <3>2 DEF GetGatewayTargetHealth, TargetNotSettled
  <2>. QED
    BY Zenon, <2>4, <2>5, <2>6, <2>7

\* The calls of a cleanup, whose gateway is dead.
<1>CleanR.
    ASSUME IInv, RInv, NEW w \in Workers,
           \/ DeleteGatewayHostRule(w) \/ DeregisterGatewayTarget(w)
           \/ DeleteGatewayTargetGroup(w) \/ RemoveContainer(w)
    PROVE  RInv'
  <2>. USE <1>CleanR
  <2>p. PICK j : j = wk[w]
    BY Zenon
  <2>0. /\ j.pc \in {"deleteRule", "deregister", "deleteTg", "removeContainer"}
        /\ j.pc # "idle" /\ j.pc # "write"
    BY <2>p DEF DeleteGatewayHostRule, DeregisterGatewayTarget, DeleteGatewayTargetGroup,
       RemoveContainer
  <2>1. j \in Job /\ j.g \in Gateways /\ PcOk(j)
    BY Zenon, <2>p, <2>0, Busy
  <2>2. UNCHANGED <<row, call>>
    BY Zenon, CallChanges
  <2>3. j.rule # None \/ j.tg # None => Dead(j.g)
    BY Zenon, <2>p, <2>0, <2>1 DEF RInv, Effect, Bare, PcOk
  <2>4. ASSUME NEW pc \in Calls, Goes(w, At(j, pc)), Spares
        PROVE  RInv'
    <3>1. PICK k : k = At(j, pc)
      BY Zenon
    <3>2. SameJob(j, k) /\ k.pc = pc
      BY <2>1, <3>1, AtIs
    <3>3. k.pc # "write"
      BY <3>2 DEF Calls
    <3>. QED
      BY Zenon, <2>p, <2>0, <2>2, <2>4, <3>1, <3>2, <3>3, <1>GoesR
  <2>5. CASE DeleteGatewayHostRule(w)
    <3>1. ASSUME NEW x \in rules, ~ Dead(x.g)
          PROVE  x.arn # j.rule
      <4>1. SUFFICES ASSUME x.arn = j.rule PROVE FALSE
        OBVIOUS
      <4>2. x.arn \in RuleArns /\ x.g \in Gateways
        BY DEF IInv, TypeOK
      <4>3. UsesRule(x.g, x.arn) /\ UsesRule(j.g, x.arn)
        BY Zenon, <2>p, <4>1 DEF UsesRule
      <4>. QED
        BY Zenon, <2>1, <2>3, <3>1, <4>1, <4>2, <4>3, NoneAssumption DEF IInv, RulesOwned
    <3>2. Spares
      BY Zenon, <2>5, <2>p, <3>1 DEF DeleteGatewayHostRule, Spares
    <3>3. PICK pc \in Calls : AfterRule(j) = At(j, pc)
      BY DEF AfterRule, Calls
    <3>. QED
      BY Zenon, <2>4, <2>5, <2>p, <3>2, <3>3 DEF DeleteGatewayHostRule
  <2>t. ASSUME NEW g \in Gateways, ~ Dead(g), NEW t \in TgArns, UsesTg(g, t)
        PROVE  t # j.tg
    <3>1. SUFFICES ASSUME t = j.tg PROVE FALSE
      OBVIOUS
    <3>2. UsesTg(j.g, t)
      BY Zenon, <2>p, <3>1 DEF UsesTg
    <3>. QED
      BY Zenon, <2>1, <2>3, <2>t, <3>1, <3>2, NoneAssumption DEF IInv, TgsOwned
  <2>6. CASE DeregisterGatewayTarget(w)
    <3>1. ASSUME NEW t \in TgArns, NEW q \in Ports, t # j.tg, <<t, q>> \in targets
          PROVE  <<t, q>> \in targets'
      BY <2>6, <2>p, <3>1 DEF DeregisterGatewayTarget
    <3>2. Spares
      BY Zenon, <2>6, <2>t, <3>1 DEF DeregisterGatewayTarget, Spares
    <3>3. "deleteTg" \in Calls
      BY DEF Calls
    <3>. QED
      BY Zenon, <2>4, <2>6, <2>p, <3>2, <3>3 DEF DeregisterGatewayTarget
  <2>7. CASE DeleteGatewayTargetGroup(w)
    <3>1. CASE Refused(w)
      BY Zenon, <2>p, <2>0, <2>2, <3>1, <1>SparesAll, <1>RetryR DEF Refused, alb
    <3>2. ASSUME tgs' = [tgs EXCEPT ![j.tg] = None], targets' = {x \in targets : x[1] # j.tg},
                 Goes(w, At(j, "removeContainer")), UNCHANGED rules
          PROVE  RInv'
      <4>1. ASSUME NEW t \in TgArns, NEW q \in Ports, t # j.tg, <<t, q>> \in targets
            PROVE  <<t, q>> \in targets'
        BY <3>2, <4>1
      <4>2. \A t \in TgArns : t # j.tg => tgs'[t] = tgs[t]
        BY Zenon, <3>2 DEF IInv, TypeOK
      <4>3. Spares
        BY Zenon, <2>t, <3>2, <4>1, <4>2 DEF Spares
      <4>4. "removeContainer" \in Calls
        BY DEF Calls
      <4>. QED
        BY Zenon, <2>4, <3>2, <4>3, <4>4
    <3>. QED
      BY Zenon, <2>7, <2>p, <3>1, <3>2 DEF DeleteGatewayTargetGroup
  <2>8. CASE RemoveContainer(w)
    <3>1. "decommissioned" \in Ops /\ None \in Arns
      BY DEF Ops, Arns
    <3>2. PICK k : k = Decided(j, "decommissioned", None)
      BY Zenon
    <3>3. SameJob(j, k) /\ k.op = "decommissioned"
      BY <2>1, <3>1, <3>2, DecidedIs
    <3>4. Took(k)'
      BY <3>3 DEF Took
    <3>5. Spares /\ Goes(w, k)
      BY Zenon, <2>8, <2>p, <3>2, <1>SparesAll DEF RemoveContainer, alb
    <3>. QED
      BY Zenon, <2>p, <2>0, <2>2, <3>3, <3>4, <3>5, <1>GoesR
  <2>. QED
    BY Zenon, <2>5, <2>6, <2>7, <2>8

\* Steps that only touch leases, priorities and the worker itself.
<1>LeaseR.
    ASSUME IInv, RInv, NEW w \in Workers,
           \/ CallFails(w) \/ Crash(w) \/ ReserveGatewayListenerRulePriority(w)
           \/ \E g \in Gateways : ClaimNextGatewayIngressJob(w, g)
    PROVE  RInv'
  <2>. USE <1>LeaseR
  <2>1. Spares /\ UNCHANGED call
    BY Zenon, <1>SparesAll DEF CallFails, Crash, ReserveGatewayListenerRulePriority,
       ClaimNextGatewayIngressJob, alb
  <2>2. CASE CallFails(w)
    <3>1. wk[w].pc # "idle"
      BY <2>2 DEF CallFails, Calls
    <3>. QED
      BY ZenonT(40), <2>1, <2>2, <3>1, <1>RetryR DEF CallFails
  <2>3. CASE Crash(w)
    <3>1. \A h \in Gateways : Stays(row[h], row'[h]) /\ row'[h] = row[h]
      BY Zenon, <2>3, SameStays DEF Crash
    <3>. QED
      BY Zenon, <2>1, <2>3, <3>1, IdleIs, <1>StayR DEF Crash
  <2>4. CASE ReserveGatewayListenerRulePriority(w)
    <3>p. PICK j : j = wk[w]
      BY Zenon
    <3>0. j.pc # "idle"
      BY Zenon, <2>4, <3>p DEF ReserveGatewayListenerRulePriority
    <3>1. j \in Job /\ j.g \in Gateways
      BY Zenon, <3>p, <3>0, Busy
    <3>2. CASE Becomes(w, retryOrFail(wk[w])) /\ UNCHANGED row
      BY Zenon, <2>1, <3>p, <3>0, <3>2, <1>RetryR
    <3>3. ASSUME NEW p, Becomes(w, [wk[w] EXCEPT !.pc = "createRule", !.prio = p])
          PROVE  RInv'
      <4>1. PICK k : k = [j EXCEPT !.pc = "createRule", !.prio = p]
        BY Zenon
      <4>2. SameJob(j, k) /\ k.pc # "write"
        BY <3>1, <4>1 DEF SameJob, Job
      <4>3. \A h \in Gateways : /\ Stays(row[h], row'[h])
                                /\ row'[h].state = "absent" => row[h].state = "absent"
        BY Zenon, <2>4, LeaseChanges
      <4>4. Effect(k)'
        BY Zenon, <2>1, <3>p, <3>0, <3>1, <4>2, <4>3, StaysCalm, <1>EffectGoes
      <4>. QED
        BY Zenon, <2>1, <3>p, <3>3, <4>1, <4>3, <4>4, <1>StayR
    <3>. QED
      BY Zenon, <2>4, <3>2, <3>3 DEF ReserveGatewayListenerRulePriority
  <2>5. ASSUME NEW g \in Gateways, ClaimNextGatewayIngressJob(w, g)
        PROVE  RInv'
    <3>1. PICK a \in Row : a = row[g] /\ StageOk(a)
      BY Zenon, StagesAre DEF IInv, TypeOK
    <3>2. PICK t : t = AnyOf(UnusedTokens) /\ t \in Tokens
      BY Zenon, <2>5 DEF ClaimNextGatewayIngressJob, UnusedTokens, AnyOf
    <3>3. PICK j : j = ReadJob(g, t, a)
      BY Zenon
    <3>4. PICK k : k = Dispatch(j)
      BY Zenon
    <3>5. Becomes(w, k)
      BY ZenonT(40), <2>5, <3>1, <3>2, <3>3, <3>4
         DEF ClaimNextGatewayIngressJob, Becomes, ReadJob
    <3>6. /\ j \in Job /\ j.g = g /\ j.prov = a.prov /\ j.port = a.port /\ j.tg = a.tg
          /\ j.rule = a.rule
      BY <3>1, <3>2, <3>3, ReadIs
    <3>7. a.prov \in Stages \cup {"deprovisioning"}
      BY ZenonT(40), <2>5, <3>1 DEF ClaimNextGatewayIngressJob
    <3>8. SameJob(j, k) /\ k.pc \in Calls
      <4>1. /\ j.prov \in Stages \cup {"deprovisioning"}
            /\ j.prov \in Stages \ {"container_ready"} => j.tg # None
            /\ j.tg # None => j.port # None
        BY Zenon, <3>1, <3>6, <3>7 DEF StageOk
      <4>. QED
        BY ZenonT(40), <3>4, <3>6, <4>1, DispatchIs
    <3>9. \A h \in Gateways : /\ Stays(row[h], row'[h])
                              /\ row'[h].state = "absent" => row[h].state = "absent"
      BY ZenonT(40), <2>5, LeaseChanges
    <3>10. /\ k.g = g /\ k.prov = a.prov /\ k.tg = a.tg /\ k.rule = a.rule
           /\ k.pc # "write" /\ row'[g].prov = a.prov
      <4>1. k.pc # "write"
        BY <3>8 DEF Calls
      <4>. QED
        BY Zenon, <3>1, <3>6, <3>8, <3>9, <4>1 DEF SameJob, Stays
    <3>11. ASSUME call[g].pc # "none"
           PROVE  Bare(k)
      <4>1. a.tg = None /\ a.rule = None
        BY Zenon, <3>1, <3>11 DEF RInv, Exposed
      <4>2. a.prov \in QuietProvs
        BY Zenon, <3>1, <3>11 DEF IInv, CallOk, QuietProvs
      <4>3. a.prov = "deprovisioning"
        BY <3>7, <4>2 DEF QuietProvs, Stages
      <4>. QED
        BY Zenon, <3>10, <4>1, <4>3 DEF Bare
    <3>12. "deprovisioning" \in DeadProvs
      BY DEF DeadProvs
    <3>13. Effect(k)'
      BY Zenon, <2>1, <3>10, <3>11, <3>12 DEF Effect, Bare, Dead
    <3>. QED
      BY Zenon, <2>1, <3>5, <3>9, <3>13, <1>StayR
  <2>. QED
    BY Zenon, <2>2, <2>3, <2>4, <2>5

\* The statement a handler ends with records what its calls have done.
<1>WriteR.
    ASSUME IInv, RInv, NEW w \in Workers, Write(w)
    PROVE  RInv'
  <2>. USE <1>WriteR
  <2>p. PICK j : j = wk[w]
    BY Zenon
  <2>0. Spares /\ Becomes(w, Idle) /\ UNCHANGED call /\ UNCHANGED <<tgs, targets, rules>>
    BY Zenon, <1>SparesAll DEF Write, alb
  <2>1. /\ j.pc = "write" /\ j.g \in Gateways
        /\ \A h \in Gateways \ {j.g} : row'[h] = row[h]
        /\ \/ row'[j.g] = row[j.g]
           \/ /\ LeaseHeld(row[j.g], j) /\ Recorded(j, row[j.g], row'[j.g])
              /\ row'[j.g].state # "absent"
    BY Zenon, <2>p, WriteChanges
  <2>2. PICK g \in Gateways : g = j.g
    BY Zenon, <2>1
  <2>3. PICK a, b : a = row[g] /\ b = row'[g]
    BY Zenon
  <2>4. j.pc # "idle"
    BY <2>1
  <2>5. RowOk(j, a) /\ OpOk(j) /\ Effect(j) /\ Exposed(g)
    BY Zenon, <2>p, <2>1, <2>2, <2>3, <2>4, Busy DEF RInv
  <2>6. CASE row'[j.g] = row[j.g]
    <3>1. \A h \in Gateways : row'[h] = row[h] /\ Stays(row[h], row'[h])
      BY Zenon, <2>1, <2>6, SameStays
    <3>. QED
      BY Zenon, <2>0, <3>1, IdleIs, <1>StayR
  <2>7. CASE LeaseHeld(a, j) /\ Recorded(j, a, b) /\ b.state # "absent"
    <3>0. /\ a.tg = j.tg /\ a.rule = j.rule /\ a.state # "absent"
          /\ j.prov # "deprovisioning" => a.prov = j.prov /\ a.port = j.port
      BY Zenon, <2>5, <2>7 DEF LeaseHeld, RowOk
    <3>1. ~ Bare(j) => call[g].pc = "none" /\ (a.prov \notin DeadProvs => Took(j))
      BY Zenon, <2>1, <2>2, <2>3, <2>5 DEF Effect, Dead
    <3>2. ASSUME j.op \in {"tg_created", "registered", "rule_created", "active"}
          PROVE  ~ Bare(j)
      BY <2>5, <3>2 DEF OpOk, Bare
    <3>3. Calm(g) /\ Exposed(g)'
      <4>1. CASE Stays(a, b)
        BY Zenon, <2>0, <2>3, <2>7, <4>1, StaysCalm, <1>ExposedLasts
      <4>2. CASE /\ j.op = "tg_created" /\ j.got \in TgArns
                 /\ a.prov = "container_ready" /\ b.prov = "registering_target"
                 /\ b.port = a.port /\ b.tg = j.got
        <5>1. call[g].pc = "none" /\ tgs[j.got] = g
          BY ZenonT(40), <2>2, <3>1, <3>2, <4>2 DEF Took, DeadProvs
        <5>2. Calm(g)
          <6>1. a.prov \in DeadProvs => b.prov \in DeadProvs
            BY <4>2 DEF DeadProvs
          <6>. QED
            BY Zenon, <2>0, <2>3, <6>1, <1>DeadCalm
        <5>3. Exposed(g)'
          BY ZenonT(40), <2>0, <2>3, <2>7, <4>2, <5>1 DEF Exposed
        <5>. QED
          BY Zenon, <5>2, <5>3
      <4>3. CASE /\ j.op = "registered" /\ a.prov = "registering_target"
                 /\ b.prov = "creating_listener_rule" /\ SameParts(a, b)
        <5>1. tgs[a.tg] = g /\ <<a.tg, a.port>> \in targets /\ call[g].pc = "none"
          BY ZenonT(40), <2>3, <2>5, <3>0, <3>1, <3>2, <4>3 DEF Exposed, Took, DeadProvs, OpOk
        <5>2. Calm(g)
          <6>1. a.prov \in DeadProvs => b.prov \in DeadProvs
            BY Zenon, <4>3 DEF DeadProvs
          <6>. QED
            BY Zenon, <2>0, <2>3, <6>1, <1>DeadCalm
        <5>3. Exposed(g)'
          BY ZenonT(40), <2>0, <2>3, <2>7, <4>3, <5>1 DEF Exposed, SameParts
        <5>. QED
          BY Zenon, <5>2, <5>3
      <4>4. CASE /\ j.op = "rule_created" /\ a.prov = "creating_listener_rule"
                 /\ b.prov = "waiting_for_target_health"
                 /\ b.port = a.port /\ b.tg = a.tg /\ b.rule = j.got
        <5>1. tgs[a.tg] = g /\ <<a.tg, a.port>> \in targets
          BY ZenonT(40), <2>3, <2>5, <4>4 DEF Exposed
        <5>2. Took(j) /\ call[g].pc = "none"
          BY <3>1, <3>2, <4>4 DEF DeadProvs
        <5>3. \E x \in rules : x.arn = b.rule /\ x.g = g /\ x.tg = b.tg
          BY Zenon, <2>2, <3>0, <4>4, <5>2 DEF Took
        <5>4. Calm(g)
          <6>1. a.prov \in DeadProvs => b.prov \in DeadProvs
            BY <4>4 DEF DeadProvs
          <6>. QED
            BY Zenon, <2>0, <2>3, <6>1, <1>DeadCalm
        <5>5. Exposed(g)'
          BY ZenonT(40), <2>0, <2>3, <2>7, <4>4, <5>1, <5>2, <5>3 DEF Exposed
        <5>. QED
          BY Zenon, <5>4, <5>5
      <4>5. CASE /\ j.op = "active" /\ a.prov = "waiting_for_target_health"
                 /\ b.prov = "completed" /\ SameParts(a, b)
        <5>1. /\ tgs[a.tg] = g /\ <<a.tg, a.port>> \in targets /\ call[g].pc = "none"
              /\ \E x \in rules : x.arn = a.rule /\ x.g = g /\ x.tg = a.tg
          <6>1. ~ Bare(j)
            BY Zenon, <3>2, <4>5
          <6>. QED
            BY Zenon, <2>3, <2>5, <3>1, <4>5, <6>1 DEF Exposed
        <5>2. Calm(g)
          <6>1. a.prov \in DeadProvs => b.prov \in DeadProvs
            BY <4>5 DEF DeadProvs
          <6>. QED
            BY Zenon, <2>0, <2>3, <6>1, <1>DeadCalm
        <5>3. Exposed(g)'
          BY ZenonT(40), <2>0, <2>3, <2>7, <4>5, <5>1 DEF Exposed, SameParts
        <5>. QED
          BY Zenon, <5>2, <5>3
      <4>6. CASE b.prov = "failed" /\ SameParts(a, b)
        <5>1. Calm(g)
          <6>1. a.prov \in DeadProvs => b.prov \in DeadProvs
            BY Zenon, <4>6 DEF DeadProvs
          <6>. QED
            BY Zenon, <2>0, <2>3, <6>1, <1>DeadCalm
        <5>2. Exposed(g)'
          BY Zenon, <2>0, <2>3, <2>5, <2>7, <4>6 DEF Exposed, SameParts
        <5>. QED
          BY Zenon, <5>1, <5>2
      <4>7. CASE /\ j.op = "decommissioned" /\ a.prov = "deprovisioning"
                 /\ b.prov = "deprovisioned" /\ b.tg = None /\ b.rule = None
        <5>1. Calm(g)
          <6>1. a.prov \in DeadProvs => b.prov \in DeadProvs
            BY Zenon, <4>7 DEF DeadProvs
          <6>. QED
            BY Zenon, <2>0, <2>3, <6>1, <1>DeadCalm
        <5>2. Exposed(g)'
          BY Zenon, <2>3, <2>7, <4>7 DEF Exposed
        <5>. QED
          BY Zenon, <5>1, <5>2
      <4>. QED
        BY Zenon, <2>7, <4>1, <4>2, <4>3, <4>4, <4>5, <4>6, <4>7 DEF Recorded
    <3>4. ASSUME NEW h \in Gateways
          PROVE  Calm(h) /\ Exposed(h)'
      <4>1. CASE h = g
        BY Zenon, <3>3, <4>1
      <4>2. CASE h # g
        <5>1. row'[h] = row[h] /\ Stays(row[h], row'[h])
          BY Zenon, <2>1, <2>2, <4>2, SameStays
        <5>. QED
          BY Zenon, <2>0, <5>1, StaysCalm, <1>ExposedLasts
      <4>. QED
        BY Zenon, <4>1, <4>2
    <3>. QED
      BY Zenon, <2>0, <3>4, IdleIs, <1>WorkerR
  <2>. QED
    BY Zenon, <2>1, <2>2, <2>3, <2>6, <2>7

<1>. SUFFICES ASSUME IInv, RInv, [Next]_vars PROVE RInv'
  OBVIOUS
<1>1. CASE UNCHANGED vars
  <2>1. UNCHANGED <<row, call, wk, tgs, targets, rules>>
    BY Zenon, <1>1 DEF vars
  <2>2. \A g \in Gateways : Changes(g)
    BY Zenon, <2>1, StillChanges, SameStays
  <2>. QED
    BY Zenon, <2>1, <2>2, <1>QuietR
<1>2. CASE ApiStep
  BY Zenon, <1>2, ApiChanges, <1>QuietR
<1>3. CASE EnvStep \/ ListStaleDraining \/ \E g \in Gateways : reconcileStaleDraining(g)
  BY Zenon, <1>3, BackChanges, <1>QuietR
<1>4. ASSUME NEW w \in Workers, HandlerStep(w)
      PROVE  RInv'
  BY Zenon, <1>4, <1>ExposeR, <1>CleanR, <1>LeaseR, <1>WriteR DEF HandlerStep
<1>5. ASSUME NEW w \in Workers, \/ CallFails(w) \/ Crash(w)
                                \/ \E g \in Gateways : ClaimNextGatewayIngressJob(w, g)
      PROVE  RInv'
  BY Zenon, <1>5, <1>LeaseR
<1>. QED
  BY Zenon, <1>1, <1>2, <1>3, <1>4, <1>5 DEF Next, WorkerStep

\* At every stage the load balancer holds what the row says it does.
THEOREM RInvariance == Spec => []RInv
BY InitR, NextR, Invariance, PTL DEF Spec

\* The load balancer of a completed gateway is complete: its target group exists with its
\* port registered, and its rule forwards to it.
THEOREM CompletedRouted == Spec => []CompletedIsRouted
<1>1. RInv => CompletedIsRouted
  BY Zenon DEF RInv, Exposed, CompletedIsRouted
<1>. QED
  BY <1>1, RInvariance, PTL

----------------------------------------------------------------------------
(* Whose container answers *)

\* What a handler does is about the target group and the port its row still names, or
\* about a target group that is gone.  A cleanup is of a gateway nobody revives.
Legal(j) ==
    /\ j.prov = "deprovisioning" =>
          Dead(j.g) /\ call[j.g].pc = "none" /\ row[j.g].tg \in {None, j.tg}
    /\ j.tg # None => (row[j.g].tg = j.tg /\ row[j.g].port = j.port) \/ tgs[j.tg] = None

\* Rows left draining before migration 0030 have a container and nothing else, and the
\* reconciler only meets such rows.
LegacyOk(g) ==
    /\ g \in Legacy => /\ call[g].pc = "none" /\ row[g].tg = None /\ row[g].state # "absent"
                       /\ row[g].prov \in QuietProvs
    /\ Live(g) /\ row[g].status = "draining" => row[g].prov = "deprovisioning" \/ g \in Legacy

\* The container of a gateway has the port that is recorded for it until its target group
\* is gone.
Held(g) ==
    /\ call[g].pc = "healthy" => containers[g] = call[g].port
    /\ call[g].pc # "none" => row[g].prov = "not_started"
    /\ row[g].prov \in Stages \cup {"completed"} => containers[g] = row[g].port
    /\ row[g].tg # None /\ tgs[row[g].tg] # None => containers[g] = row[g].port

TargetsOk ==
    \A t \in TgArns : \A p \in Ports : <<t, p>> \in targets =>
        tgs[t] # None /\ row[tgs[t]].tg = t /\ row[tgs[t]].port = p

OwnPorts == \A g, h \in Gateways : containers[g] = containers[h] /\ containers[g] # None => g = h

PInv ==
    /\ \A g \in Gateways : LegacyOk(g) /\ Held(g)
    /\ \A w \in Workers : wk[w].pc # "idle" => Legal(wk[w])
    /\ stale \subseteq Legacy /\ OwnPorts /\ TargetsOk

\* What a row names stays named while it exists.
KeepsParts(g) ==
    /\ Calm(g)
    /\ Dead(g) /\ row[g].state # "absent" => row'[g].tg \in {None, row[g].tg}
    /\ row[g].tg # None /\ tgs[row[g].tg] # None =>
          row'[g].tg = row[g].tg /\ row'[g].port = row[g].port

\* Only target groups nobody knows are created.
Frees ==
    \A t \in TgArns : \/ tgs'[t] \in {tgs[t], None}
                      \/ /\ tgs[t] = None /\ (\A g \in Gateways : row[g].tg # t)
                         /\ \A v \in Workers : wk[v].tg # t

\* The handlers of workers that do not move stay legal.
LEMMA LegalLasts ==
    ASSUME IInv, PInv, Frees, NEW v \in Workers, NEW j, j = wk[v], j.pc # "idle",
           KeepsParts(j.g)
    PROVE  Legal(j)'
<1>1. j \in Job /\ j.g \in Gateways /\ row[j.g].state # "absent" /\ Legal(j)
  BY Zenon, Busy DEF RowOk, PInv
<1>2. j.prov = "deprovisioning" =>
        Dead(j.g)' /\ call'[j.g].pc = "none" /\ row'[j.g].tg \in {None, j.tg}
  BY Zenon, <1>1 DEF Legal, KeepsParts, Calm
<1>3. ASSUME j.tg # None
      PROVE  (row'[j.g].tg = j.tg /\ row'[j.g].port = j.port) \/ tgs'[j.tg] = None
  <2>1. j.tg \in TgArns
    BY <1>1, <1>3 DEF Job
  <2>2. CASE tgs[j.tg] = None
    BY Zenon, <2>1, <2>2 DEF Frees
  <2>3. CASE tgs[j.tg] # None
    BY Zenon, <1>1, <1>3, <2>3 DEF Legal, KeepsParts
  <2>. QED
    BY Zenon, <2>2, <2>3
<1>. QED
  BY Zenon, <1>2, <1>3 DEF Legal

\* A worker moves on to k.
LEMMA LegalAll ==
    ASSUME IInv, PInv, Frees, NEW w \in Workers, NEW k, Becomes(w, k), k.pc # "idle" => Legal(k)',
           \A g \in Gateways : KeepsParts(g)
    PROVE  \A v \in Workers : wk'[v].pc # "idle" => Legal(wk[v])'
<1>1. wk'[w] = k /\ \A v \in Workers \ {w} : wk'[v] = wk[v]
  BY Zenon DEF IInv, TypeOK, Becomes
<1>2. SUFFICES ASSUME NEW v \in Workers, wk'[v].pc # "idle"
               PROVE  Legal(wk[v])'
  BY Zenon
<1>3. CASE v = w
  BY Zenon, <1>1, <1>2, <1>3 DEF Legal, Dead
<1>4. CASE v # w
  <2>1. PICK j : j = wk[v]
    BY Zenon
  <2>2. wk'[v] = j /\ j.pc # "idle"
    BY Zenon, <1>1, <1>2, <1>4, <2>1
  <2>3. j.g \in Gateways
    BY Zenon, <2>1, <2>2, Busy
  <2>4. Legal(j)'
    BY Zenon, <2>1, <2>2, <2>3, LegalLasts
  <2>. QED
    BY Zenon, <2>2, <2>4 DEF Legal, Dead
<1>. QED
  BY Zenon, <1>3, <1>4

\* Rows keep what registered targets rely on.
LEMMA TargetsLast ==
    ASSUME IInv, PInv, UNCHANGED <<tgs, targets>>, \A g \in Gateways : KeepsParts(g)
    PROVE  TargetsOk'
<1>1. ASSUME NEW t \in TgArns, NEW p \in Ports, <<t, p>> \in targets
      PROVE  tgs[t] # None /\ row'[tgs[t]].tg = t /\ row'[tgs[t]].port = p
  <2>1. tgs[t] # None /\ row[tgs[t]].tg = t /\ row[tgs[t]].port = p
    BY Zenon, <1>1 DEF PInv, TargetsOk
  <2>2. PICK g \in Gateways : g = tgs[t]
    BY Zenon, <2>1 DEF IInv, TypeOK
  <2>. QED
    BY Zenon, <2>1, <2>2, NoneAssumption DEF KeepsParts
<1>. QED
  BY Zenon, <1>1 DEF TargetsOk

\* A row goes on as the API, the reconciler or time make it.
LEMMA QuietG ==
    ASSUME IInv, RInv, PInv, ~ EarlyDelete, UNCHANGED tgs, NEW g \in Gateways, Changes(g),
           containers'[g] # containers[g] => g \in Legacy \/ call[g].pc \in {"starting", "waiting"},
           call'[g].pc = "healthy" => containers'[g] = call'[g].port
    PROVE  KeepsParts(g) /\ LegacyOk(g)' /\ Held(g)'
<1>p. PICK a, b : a = row[g] /\ b = row'[g] /\ Drains(a, b)
  BY Zenon DEF Changes
<1>0. Exposed(g) /\ LegacyOk(g) /\ Held(g)
  BY Zenon DEF RInv, PInv
<1>1. call[g].pc # "none" => a.tg = None /\ a.rule = None /\ a.prov = "not_started"
  BY Zenon, <1>p, <1>0 DEF Exposed, Held
<1>n. "not_started" \notin DeadProvs \cup Stages \cup {"completed", "deprovisioning"}
  BY DEF DeadProvs, Stages
<1>s. ASSUME call[g].pc \in {"starting", "waiting"} PROVE call[g].pc # "none" /\ call[g].pc # "healthy"
  BY ZenonT(40), <1>s
<1>l. g \in Legacy => a.prov \notin Stages \cup {"completed"}
  BY <1>p, <1>0 DEF LegacyOk, QuietProvs, Stages
<1>2. CASE /\ Stays(a, b) /\ (b.state = "absent" => a.state = "absent")
           /\ call'[g].pc # "none" => call[g].pc # "none"
  <2>1. b.prov = a.prov /\ b.port = a.port /\ b.tg = a.tg
    BY Zenon, <1>2 DEF Stays, SameParts
  <2>2. KeepsParts(g)
    BY Zenon, <1>p, <1>2, <2>1, StaysCalm DEF KeepsParts
  <2>3. LegacyOk(g)'
    BY Zenon, <1>p, <1>0, <1>2, <2>1 DEF LegacyOk, Drains, Live
  <2>4. a.prov \in Stages \cup {"completed"} \/ a.tg # None => containers'[g] = containers[g]
    BY Zenon, <1>p, <1>0, <1>1, <1>n, <1>s, <1>l DEF LegacyOk
  <2>5. Held(g)'
    BY Zenon, <1>p, <1>0, <1>2, <2>1, <2>4 DEF Held
  <2>. QED
    BY Zenon, <2>2, <2>3, <2>5
<1>3. CASE a.state = "absent" /\ b = NewRow
  <2>1. b.prov = "not_started" /\ b.tg = None /\ b.status = "provisioning"
    BY <1>3 DEF NewRow
  <2>2. a.tg = None /\ ~ Dead(g)
    BY Zenon, <1>p, <1>0, <1>3, <1>n DEF Exposed, Dead
  <2>3. KeepsParts(g)
    BY ZenonT(40), <1>p, <1>3, <2>2 DEF KeepsParts, Calm
  <2>4. LegacyOk(g)'
    BY <1>p, <1>0, <1>3, <2>1 DEF LegacyOk
  <2>5. Held(g)'
    BY Zenon, <1>p, <1>n, <2>1 DEF Held
  <2>. QED
    BY Zenon, <2>3, <2>4, <2>5
<1>4. CASE /\ call[g].pc = "healthy" /\ b.prov = "container_ready" /\ b.port = call[g].port
           /\ b.state = "live" /\ b.tg = a.tg /\ b.rule = a.rule /\ call'[g] = NoCall
  <2>0. call[g].pc # "none" /\ call[g].pc \notin {"starting", "waiting"} /\ call'[g].pc = "none"
        /\ call'[g].pc # "healthy" /\ b.prov # "deprovisioning"
    BY <1>4, NoCallIs
  <2>1. a.tg = None /\ a.prov = "not_started" /\ g \notin Legacy
    BY Zenon, <1>p, <1>0, <1>1, <2>0 DEF LegacyOk
  <2>2. KeepsParts(g)
    BY Zenon, <1>p, <1>n, <2>0, <2>1 DEF KeepsParts, Calm, Dead
  <2>3. LegacyOk(g)'
    BY Zenon, <1>p, <1>0, <2>0, <2>1 DEF LegacyOk, Drains, Live
  <2>4. Held(g)'
    BY Zenon, <1>p, <1>0, <1>4, <2>0, <2>1 DEF Held
  <2>. QED
    BY Zenon, <2>2, <2>3, <2>4
<1>5. CASE /\ b.prov = "deprovisioning" /\ SameParts(a, b) /\ b.state = "live"
           /\ EarlyDelete \/ call[g] = NoCall
           /\ call'[g] = call[g]
  <2>0. /\ call[g].pc = "none" /\ call'[g].pc = "none" /\ b.port = a.port /\ b.tg = a.tg
        /\ b.prov = "deprovisioning" /\ b.state # "absent"
    BY ZenonT(40), <1>5, NoCallIs DEF SameParts
  <2>1. "deprovisioning" \in DeadProvs \cap QuietProvs /\ "deprovisioning" \notin Stages \cup {"completed"}
    BY DEF DeadProvs, QuietProvs, Stages
  <2>2. KeepsParts(g)
    BY Zenon, <1>p, <2>0, <2>1 DEF KeepsParts, Calm, Dead
  <2>3. LegacyOk(g)'
    BY Zenon, <1>p, <1>0, <2>0, <2>1 DEF LegacyOk
  <2>4. call'[g].pc # "healthy" /\ (a.tg # None => containers'[g] = containers[g])
    BY <1>p, <1>0, <2>0 DEF LegacyOk
  <2>5. Held(g)'
    BY Zenon, <1>p, <1>0, <2>0, <2>1, <2>4 DEF Held
  <2>. QED
    BY Zenon, <2>2, <2>3, <2>5
<1>. QED
  BY Zenon, <1>p, <1>2, <1>3, <1>4, <1>5 DEF Changes

\* No worker moves.
LEMMA QuietP ==
    ASSUME IInv, RInv, PInv, ~ EarlyDelete, UNCHANGED <<wk, tgs, targets>>,
           \A g \in Gateways :
              /\ Changes(g)
              /\ containers'[g] # containers[g] =>
                    g \in Legacy \/ call[g].pc \in {"starting", "waiting"}
              /\ call'[g].pc = "healthy" => containers'[g] = call'[g].port,
           stale' \subseteq Legacy, OwnPorts'
    PROVE  PInv'
<1>1. \A g \in Gateways : KeepsParts(g) /\ LegacyOk(g)' /\ Held(g)'
  BY Zenon, QuietG
<1>2. TargetsOk'
  BY Zenon, <1>1, TargetsLast
<1>3. Frees
  BY Zenon DEF Frees
<1>4. ASSUME NEW v \in Workers, wk[v].pc # "idle"
      PROVE  Legal(wk[v])'
  <2>1. PICK j : j = wk[v]
    BY Zenon
  <2>2. j.g \in Gateways /\ wk'[v] = j
    BY Zenon, <1>4, <2>1, Busy
  <2>3. Legal(j)'
    BY Zenon, <1>1, <1>3, <1>4, <2>1, <2>2, LegalLasts
  <2>. QED
    BY Zenon, <2>2, <2>3 DEF Legal, Dead
<1>. QED
  BY Zenon, <1>1, <1>2, <1>4 DEF PInv

\* A container goes, or takes a port nobody has.
LEMMA PortsLast ==
    ASSUME IInv, PInv, NEW g \in Gateways, NEW q, containers' = [containers EXCEPT ![g] = q],
           q = None \/ \A h \in Gateways : containers[h] # q
    PROVE  OwnPorts' /\ containers'[g] = q /\ \A h \in Gateways \ {g} : containers'[h] = containers[h]
<1>1. containers'[g] = q /\ \A h \in Gateways \ {g} : containers'[h] = containers[h]
  BY Zenon DEF IInv, TypeOK
<1>2. ASSUME NEW f \in Gateways, NEW h \in Gateways, containers'[f] = containers'[h],
             containers'[f] # None
      PROVE  f = h
  BY Zenon, <1>1, <1>2 DEF PInv, OwnPorts
<1>. QED
  BY Zenon, <1>1, <1>2 DEF OwnPorts

\* The API touches the container of a gateway only while its Provision call starts it.
LEMMA ApiP ==
    ASSUME IInv, RInv, PInv, ~ EarlyDelete, ~ ForceAllowed, ApiStep
    PROVE  PInv'
<1>g. PICK g \in Gateways :
        \/ Provision(g) \/ ContainerHealthy(g) \/ ContainerFails(g) \/ RegisterEndpoint(g)
        \/ \E p \in Ports : StartContainer(g, p)
        \/ ApiCrash(g) \/ Decommission(g)
  BY Zenon DEF ApiStep, ForceDecommission
<1>0. /\ call \in [Gateways -> CallRec]
      /\ \A h \in Gateways : call[h].pc = "healthy" => containers[h] = call[h].port
      /\ stale \subseteq Legacy /\ OwnPorts
  BY Zenon DEF IInv, TypeOK, CallRec, PInv, Held
<1>1. UNCHANGED <<wk, stale, tgs, targets>> /\ \A h \in Gateways : Changes(h)
  BY Zenon, ApiChanges
<1>2. SUFFICES /\ OwnPorts'
               /\ \A h \in Gateways :
                     /\ containers'[h] # containers[h] => call[h].pc \in {"starting", "waiting"}
                     /\ call'[h].pc = "healthy" => containers'[h] = call'[h].port
  BY Zenon, <1>0, <1>1, <1>2, QuietP
<1>c. PICK c \in CallRec : c = call[g]
  BY Zenon, <1>0
<1>3. ASSUME UNCHANGED containers, call'[g].pc = "healthy" => containers[g] = call'[g].port,
             \A h \in Gateways \ {g} : call'[h] = call[h]
      PROVE  /\ OwnPorts'
             /\ \A h \in Gateways :
                   /\ containers'[h] # containers[h] => call[h].pc \in {"starting", "waiting"}
                   /\ call'[h].pc = "healthy" => containers'[h] = call'[h].port
  BY Zenon, <1>0, <1>3 DEF OwnPorts
<1>4. CASE Provision(g)
  <2>1. UNCHANGED containers /\ call' = [call EXCEPT ![g] = [c EXCEPT !.pc = "starting"]]
    BY Zenon, <1>4, <1>c DEF Provision
  <2>2. [c EXCEPT !.pc = "starting"].pc # "healthy"
    BY DEF CallRec
  <2>3. call'[g].pc # "healthy" /\ \A h \in Gateways \ {g} : call'[h] = call[h]
    BY Zenon, <1>0, <2>1, <2>2
  <2>. QED
    BY Zenon, <1>3, <2>1, <2>3
<1>5. CASE ContainerHealthy(g)
  <2>1. /\ UNCHANGED containers
        /\ call' = [call EXCEPT ![g] = [pc |-> "healthy", port |-> containers[g]]]
    BY Zenon, <1>5 DEF ContainerHealthy
  <2>2. /\ call'[g] = [pc |-> "healthy", port |-> containers[g]]
        /\ \A h \in Gateways \ {g} : call'[h] = call[h]
    BY Zenon, <1>0, <2>1
  <2>3. call'[g].port = containers[g]
    BY <2>2
  <2>. QED
    BY Zenon, <1>3, <2>1, <2>2, <2>3
<1>6. CASE RegisterEndpoint(g) \/ ApiCrash(g)
  <2>1. UNCHANGED containers /\ call' = [call EXCEPT ![g] = NoCall]
    BY Zenon, <1>6 DEF RegisterEndpoint, ApiCrash
  <2>2. call'[g] = NoCall /\ \A h \in Gateways \ {g} : call'[h] = call[h]
    BY Zenon, <1>0, <2>1
  <2>3. call'[g].pc # "healthy"
    BY <2>2, NoCallIs
  <2>. QED
    BY Zenon, <1>3, <2>1, <2>2, <2>3
<1>7. CASE Decommission(g)
  <2>1. UNCHANGED <<containers, call>>
    BY Zenon, <1>7 DEF Decommission
  <2>. QED
    BY Zenon, <1>0, <1>3, <2>1
<1>8. ASSUME NEW q, q = None \/ \A h \in Gateways : containers[h] # q,
             containers' = [containers EXCEPT ![g] = q], NEW d, call' = [call EXCEPT ![g] = d],
             d.pc # "healthy", call[g].pc \in {"starting", "waiting"}
      PROVE  /\ OwnPorts'
             /\ \A h \in Gateways :
                   /\ containers'[h] # containers[h] => call[h].pc \in {"starting", "waiting"}
                   /\ call'[h].pc = "healthy" => containers'[h] = call'[h].port
  <2>1. OwnPorts' /\ containers'[g] = q /\ \A h \in Gateways \ {g} : containers'[h] = containers[h]
    BY Zenon, <1>8, PortsLast
  <2>2. call'[g] = d /\ \A h \in Gateways \ {g} : call'[h] = call[h]
    BY Zenon, <1>0, <1>8
  <2>. QED
    BY Zenon, <1>0, <1>8, <2>1, <2>2
<1>9. CASE ContainerFails(g)
  <2>1. NoCall.pc # "healthy"
    BY NoCallIs
  <2>. QED
    BY Zenon, <1>8, <1>9, <2>1 DEF ContainerFails
<1>10. ASSUME NEW q \in Ports, StartContainer(g, q)
       PROVE  /\ OwnPorts'
              /\ \A h \in Gateways :
                    /\ containers'[h] # containers[h] => call[h].pc \in {"starting", "waiting"}
                    /\ call'[h].pc = "healthy" => containers'[h] = call'[h].port
  <2>1. PICK d : d = [c EXCEPT !.pc = "waiting"]
    BY Zenon
  <2>2. d.pc # "healthy"
    BY <2>1 DEF CallRec
  <2>3. call' = [call EXCEPT ![g] = d]
    BY Zenon, <1>10, <1>c, <2>1 DEF StartContainer
  <2>. QED
    BY Zenon, <1>8, <1>10, <2>2, <2>3 DEF StartContainer
<1>. QED
  BY Zenon, <1>g, <1>4, <1>5, <1>6, <1>7, <1>9, <1>10

\* The reconciler only removes containers of rows left from before the cleanup queue.
LEMMA BackP ==
    ASSUME IInv, RInv, PInv, ~ EarlyDelete,
           \/ ListStaleDraining \/ EnvStep \/ \E g \in Gateways : reconcileStaleDraining(g)
    PROVE  PInv'
<1>1. UNCHANGED <<wk, call, tgs, targets>> /\ \A h \in Gateways : Changes(h)
  BY Zenon, BackChanges
<1>2. /\ \A h \in Gateways : call[h].pc = "healthy" => containers[h] = call[h].port
      /\ \A h \in Legacy : call[h].pc = "none"
      /\ stale \subseteq Legacy /\ OwnPorts
  BY Zenon, NoneAssumption DEF PInv, Held, LegacyOk
<1>3. CASE UNCHANGED containers /\ stale' \subseteq Legacy
  <2>1. OwnPorts'
    BY Zenon, <1>2, <1>3 DEF OwnPorts
  <2>. QED
    BY Zenon, <1>1, <1>2, <1>3, <2>1, QuietP
<1>4. CASE ListStaleDraining
  <2>1. UNCHANGED containers /\ stale' \subseteq Legacy
    BY Zenon, <1>4 DEF ListStaleDraining, PInv, LegacyOk
  <2>. QED
    BY Zenon, <1>3, <2>1
<1>5. CASE EnvStep
  <2>1. UNCHANGED <<containers, stale>>
    BY Zenon, <1>5 DEF EnvStep, LeaseExpires, RetryTimeComes, CustomDomainRule
  <2>. QED
    BY Zenon, <1>2, <1>3, <2>1
<1>6. ASSUME NEW g \in Gateways, reconcileStaleDraining(g)
      PROVE  PInv'
  <2>1. g \in Legacy /\ stale' \subseteq Legacy
    BY Zenon, <1>2, <1>6 DEF reconcileStaleDraining
  <2>2. CASE UNCHANGED containers
    BY Zenon, <1>3, <2>1, <2>2
  <2>3. CASE containers' = [containers EXCEPT ![g] = None]
    <3>1. /\ OwnPorts' /\ containers'[g] = None
          /\ \A h \in Gateways \ {g} : containers'[h] = containers[h]
      BY Zenon, <2>3, PortsLast
    <3>2. call[g].pc # "healthy"
      BY <1>2, <2>1
    <3>. QED
      BY Zenon, <1>1, <1>2, <2>1, <3>1, <3>2, QuietP
  <2>. QED
    BY Zenon, <1>6, <2>2, <2>3 DEF reconcileStaleDraining
<1>. QED
  BY Zenon, <1>4, <1>5, <1>6

\* A worker moves on to k and no row leaves its stage.
LEMMA StayP ==
    ASSUME IInv, RInv, PInv, NEW w \in Workers, NEW k, Becomes(w, k), k.pc # "idle" => Legal(k)',
           UNCHANGED <<call, stale>>, Frees, TargetsOk', OwnPorts',
           \A g \in Gateways :
              /\ Stays(row[g], row'[g]) /\ Drains(row[g], row'[g])
              /\ row'[g].state = "absent" => row[g].state = "absent"
              /\ \/ containers'[g] = containers[g]
                 \/ Dead(g) /\ call[g].pc = "none" /\ (row[g].tg # None => tgs[row[g].tg] = None)
    PROVE  PInv'
<1>1. ASSUME NEW g \in Gateways
      PROVE  KeepsParts(g) /\ LegacyOk(g)' /\ Held(g)'
  <2>p. PICK a \in Row : a = row[g]
    BY Zenon DEF IInv, TypeOK
  <2>q. PICK b : b = row'[g]
    BY Zenon
  <2>0. b.prov = a.prov /\ b.port = a.port /\ b.tg = a.tg /\ call'[g] = call[g]
    BY Zenon, <2>p, <2>q DEF Stays, SameParts
  <2>1. KeepsParts(g)
    BY Zenon, <2>p, <2>q, <2>0, StaysCalm DEF KeepsParts
  <2>2. LegacyOk(g) /\ Held(g)
    BY Zenon DEF PInv
  <2>3. LegacyOk(g)'
    BY Zenon, <2>p, <2>q, <2>0, <2>2 DEF LegacyOk, Drains, Live
  <2>4. a.tg # None /\ tgs'[a.tg] # None => tgs[a.tg] # None
    <3>1. a.tg # None => a.tg \in TgArns
      BY DEF Row
    <3>. QED
      BY Zenon, <2>p, <3>1 DEF Frees
  <2>5. CASE containers'[g] = containers[g]
    BY Zenon, <2>p, <2>q, <2>0, <2>1, <2>2, <2>3, <2>4, <2>5 DEF Held
  <2>6. CASE Dead(g) /\ call[g].pc = "none" /\ (row[g].tg # None => tgs[row[g].tg] = None)
    <3>1. call[g].pc # "healthy" /\ a.prov \notin Stages \cup {"completed"}
      BY <2>p, <2>6 DEF Dead, DeadProvs, Stages
    <3>. QED
      BY Zenon, <2>p, <2>q, <2>0, <2>1, <2>3, <2>4, <2>6, <3>1 DEF Held
  <2>. QED
    BY Zenon, <2>1, <2>3, <2>5, <2>6
<1>2. \A v \in Workers : wk'[v].pc # "idle" => Legal(wk[v])'
  BY Zenon, <1>1, LegalAll
<1>3. stale' \subseteq Legacy
  BY Zenon DEF PInv
<1>. QED
  BY Zenon, <1>1, <1>2, <1>3 DEF PInv

\* A handler goes on with the same job, whatever a call answers.
LEMMA JobGoes ==
    ASSUME IInv, NEW w \in Workers,
           \/ CreateGatewayTargetGroup(w) \/ RegisterGatewayTarget(w) \/ CreateGatewayHostRule(w)
           \/ GetGatewayTargetHealth(w) \/ TargetNotSettled(w) \/ DeleteGatewayHostRule(w)
           \/ DeregisterGatewayTarget(w) \/ DeleteGatewayTargetGroup(w) \/ RemoveContainer(w)
           \/ CallFails(w)
    PROVE  wk[w].pc # "idle" /\ \E k : Becomes(w, k) /\ SameJob(wk[w], k)
<1>p. PICK j \in Job : j = wk[w]
  BY Zenon DEF IInv, TypeOK
<1>1. ASSUME NEW op, NEW got
      PROVE  SameJob(j, Decided(j, op, got))
  BY DEF Decided, SameJob, Job
<1>2. ASSUME NEW pc
      PROVE  SameJob(j, At(j, pc))
  BY DEF At, SameJob, Job
<1>3. SameJob(j, retryOrFail(j)) /\ SameJob(j, AfterRule(j))
  BY ZenonT(40), <1>1, <1>2 DEF retryOrFail, AfterRule
<1>4. wk[w].pc # "idle"
  BY Zenon DEF CreateGatewayTargetGroup, RegisterGatewayTarget, CreateGatewayHostRule,
     GetGatewayTargetHealth, TargetNotSettled, DeleteGatewayHostRule, DeregisterGatewayTarget,
     DeleteGatewayTargetGroup, RemoveContainer, CallFails, Calls
<1>5. ASSUME NEW k, Goes(w, k), SameJob(j, k)
      PROVE  \E n : Becomes(w, n) /\ SameJob(j, n)
  BY Zenon, <1>p, <1>3, <1>5 DEF Goes
<1>6. CASE CreateGatewayTargetGroup(w)
  <2>1. \E t : Goes(w, Decided(j, "tg_created", t))
    BY Zenon, <1>6, <1>p DEF CreateGatewayTargetGroup
  <2>. QED
    BY Zenon, <1>p, <1>1, <1>4, <1>5, <2>1
<1>7. CASE RegisterGatewayTarget(w)
  <2>1. Refused(w) \/ Goes(w, Decided(j, "registered", None))
    BY Zenon, <1>7, <1>p DEF RegisterGatewayTarget
  <2>. QED
    BY Zenon, <1>p, <1>1, <1>3, <1>4, <1>5, <2>1 DEF Refused
<1>8. CASE CreateGatewayHostRule(w)
  <2>1. Refused(w) \/ \E a : Goes(w, Decided(j, "rule_created", a))
    BY Zenon, <1>8, <1>p DEF CreateGatewayHostRule
  <2>. QED
    BY Zenon, <1>p, <1>1, <1>3, <1>4, <1>5, <2>1 DEF Refused
<1>9. CASE GetGatewayTargetHealth(w) \/ TargetNotSettled(w)
  BY Zenon, <1>9, <1>p, <1>1, <1>3, <1>4 DEF GetGatewayTargetHealth, TargetNotSettled, Refused
<1>10. CASE DeleteGatewayHostRule(w) \/ DeregisterGatewayTarget(w)
  BY Zenon, <1>10, <1>p, <1>2, <1>3, <1>4, <1>5 DEF DeleteGatewayHostRule, DeregisterGatewayTarget
<1>11. CASE DeleteGatewayTargetGroup(w)
  <2>1. Refused(w) \/ Goes(w, At(j, "removeContainer"))
    BY Zenon, <1>11, <1>p DEF DeleteGatewayTargetGroup
  <2>. QED
    BY Zenon, <1>p, <1>2, <1>3, <1>4, <1>5, <2>1 DEF Refused
<1>12. CASE RemoveContainer(w) \/ CallFails(w)
  BY Zenon, <1>12, <1>p, <1>1, <1>3, <1>4, <1>5 DEF RemoveContainer, CallFails
<1>. QED
  BY Zenon, <1>6, <1>7, <1>8, <1>9, <1>10, <1>11, <1>12

\* A call is made and the table stays.
LEMMA MoveP ==
    ASSUME IInv, RInv, PInv, NEW w \in Workers, wk[w].pc # "idle", UNCHANGED <<row, call, stale>>,
           \E k : Becomes(w, k) /\ SameJob(wk[w], k), Frees, TargetsOk', OwnPorts',
           \A g \in Gateways :
              \/ containers'[g] = containers[g]
              \/ Dead(g) /\ call[g].pc = "none" /\ (row[g].tg # None => tgs[row[g].tg] = None)
    PROVE  PInv'
<1>1. PICK k : Becomes(w, k) /\ SameJob(wk[w], k)
  BY Zenon
<1>2. PICK j : j = wk[w]
  BY Zenon
<1>3. \A g \in Gateways : Stays(row[g], row'[g]) /\ Drains(row[g], row'[g]) /\ row'[g] = row[g]
  BY Zenon, SameStays
<1>4. j.g \in Gateways
  BY Zenon, <1>2, Busy
<1>5. KeepsParts(j.g)
  BY Zenon, <1>3, <1>4, StaysCalm DEF KeepsParts
<1>6. Legal(j)'
  BY Zenon, <1>2, <1>5, LegalLasts
<1>7. Legal(k)'
  BY Zenon, <1>1, <1>2, <1>6 DEF Legal, SameJob, Dead
<1>. QED
  BY Zenon, <1>1, <1>3, <1>7, StayP

\* Targets go, with their target groups or before them.
LEMMA TargetsShrink ==
    ASSUME PInv, UNCHANGED row,
           \A t \in TgArns : \A p \in Ports :
              <<t, p>> \in targets' => <<t, p>> \in targets /\ tgs'[t] = tgs[t]
    PROVE  TargetsOk'
<1>1. ASSUME NEW t \in TgArns, NEW p \in Ports, <<t, p>> \in targets'
      PROVE  tgs'[t] # None /\ row'[tgs'[t]].tg = t /\ row'[tgs'[t]].port = p
  <2>1. <<t, p>> \in targets /\ tgs'[t] = tgs[t]
    BY Zenon, <1>1
  <2>2. tgs[t] # None /\ row[tgs[t]].tg = t /\ row[tgs[t]].port = p
    BY Zenon, <2>1 DEF PInv, TargetsOk
  <2>. QED
    BY Zenon, <2>1, <2>2
<1>. QED
  BY Zenon, <1>1 DEF TargetsOk

\* Calls of a handler.  A target is registered only while the row names the group and the
\* port; the container goes only when the group is gone.
LEMMA CallP ==
    ASSUME IInv, RInv, PInv, NEW w \in Workers,
           \/ CreateGatewayTargetGroup(w) \/ RegisterGatewayTarget(w) \/ CreateGatewayHostRule(w)
           \/ GetGatewayTargetHealth(w) \/ TargetNotSettled(w) \/ DeleteGatewayHostRule(w)
           \/ DeregisterGatewayTarget(w) \/ DeleteGatewayTargetGroup(w) \/ RemoveContainer(w)
           \/ CallFails(w)
    PROVE  PInv'
<1>p. PICK j : j = wk[w]
  BY Zenon
<1>1. /\ j.pc # "idle" /\ UNCHANGED <<row, call, stale>>
      /\ \E k : Becomes(w, k) /\ SameJob(wk[w], k)
  BY Zenon, <1>p, JobGoes, CallChanges
<1>2. j \in Job /\ j.g \in Gateways /\ Legal(j) /\ Released(j)
  BY Zenon, <1>p, <1>1, Busy DEF PInv
<1>3. UNCHANGED containers => OwnPorts'
  BY Zenon DEF PInv, OwnPorts
<1>4. CASE UNCHANGED <<tgs, targets, containers>>
  <2>1. Frees /\ TargetsOk'
    BY Zenon, <1>1, <1>4, TargetsShrink DEF Frees
  <2>. QED
    BY Zenon, <1>p, <1>1, <1>3, <1>4, <2>1, MoveP
<1>5. CASE CreateGatewayTargetGroup(w)
  <2>1. CASE UNCHANGED tgs
    BY Zenon, <1>4, <1>5, <2>1 DEF CreateGatewayTargetGroup
  <2>2. ASSUME NEW t \in UnusedTgs, tgs' = [tgs EXCEPT ![t] = j.g]
        PROVE  PInv'
    <3>1. /\ t \in TgArns /\ tgs[t] = None /\ (\A g \in Gateways : row[g].tg # t)
          /\ \A v \in Workers : wk[v].tg # t
      BY Zenon, <2>2 DEF UnusedTgs
    <3>2. \A u \in TgArns \ {t} : tgs'[u] = tgs[u]
      BY Zenon, <2>2 DEF IInv, TypeOK
    <3>3. Frees
      BY Zenon, <3>1, <3>2 DEF Frees
    <3>4. UNCHANGED <<targets, containers>>
      BY Zenon, <1>5 DEF CreateGatewayTargetGroup
    <3>5. \A q \in Ports : <<t, q>> \notin targets
      BY Zenon, <3>1 DEF PInv, TargetsOk
    <3>6. TargetsOk'
      BY Zenon, <1>1, <3>2, <3>4, <3>5, TargetsShrink
    <3>. QED
      BY Zenon, <1>p, <1>1, <1>3, <3>3, <3>4, <3>6, MoveP
  <2>3. UnusedTgs # {} => AnyOf(UnusedTgs) \in UnusedTgs
    BY Zenon DEF AnyOf
  <2>. QED
    BY Zenon, <1>5, <1>p, <2>1, <2>2, <2>3 DEF CreateGatewayTargetGroup
<1>6. CASE RegisterGatewayTarget(w)
  <2>0. UNCHANGED containers
    BY Zenon, <1>6 DEF RegisterGatewayTarget
  <2>1. CASE Refused(w)
    BY Zenon, <1>4, <2>0, <2>1 DEF Refused, alb
  <2>2. CASE /\ tgs[j.tg] # None /\ targets' = targets \cup {<<j.tg, j.port>>}
             /\ UNCHANGED tgs
    <3>1. j.pc = "register" /\ j.pc # "write"
      BY Zenon, <1>6, <1>p DEF RegisterGatewayTarget
    <3>2. j.tg # None /\ j.port # None
      BY Zenon, <1>p, <1>1, <3>1, Busy DEF PcOk
    <3>3. j.tg \in TgArns
      BY <1>2, <3>2 DEF Job
    <3>4. row[j.g].tg = j.tg /\ row[j.g].port = j.port
      BY Zenon, <1>2, <2>2, <3>2 DEF Legal
    <3>5. PICK h \in Gateways : h = tgs[j.tg]
      BY Zenon, <2>2, <3>3 DEF IInv, TypeOK
    <3>6. UsesTg(h, j.tg) /\ UsesTg(j.g, j.tg)
      BY Zenon, <1>p, <3>5 DEF UsesTg
    <3>7. tgs[j.tg] = j.g
      BY ZenonT(40), <1>2, <3>3, <3>5, <3>6 DEF IInv, TgsOwned
    <3>8. ASSUME NEW t \in TgArns, NEW q \in Ports, <<t, q>> \in targets'
          PROVE  tgs'[t] # None /\ row'[tgs'[t]].tg = t /\ row'[tgs'[t]].port = q
      <4>1. CASE <<t, q>> \in targets
        BY Zenon, <1>1, <2>2, <4>1 DEF PInv, TargetsOk
      <4>2. CASE t = j.tg /\ q = j.port
        BY Zenon, <1>1, <2>2, <3>4, <3>7, <4>2
      <4>. QED
        BY Zenon, <2>2, <3>8, <4>1, <4>2
    <3>9. TargetsOk'
      BY Zenon, <3>8 DEF TargetsOk
    <3>10. Frees
      BY Zenon, <2>2 DEF Frees
    <3>. QED
      BY ZenonT(40), <1>p, <1>1, <1>3, <2>0, <3>9, <3>10, MoveP
  <2>. QED
    BY Zenon, <1>6, <1>p, <2>1, <2>2 DEF RegisterGatewayTarget
<1>7. CASE \/ CreateGatewayHostRule(w) \/ GetGatewayTargetHealth(w) \/ TargetNotSettled(w)
           \/ DeleteGatewayHostRule(w) \/ CallFails(w)
  <2>1. UNCHANGED <<tgs, targets, containers>>
    BY Zenon, <1>7 DEF CreateGatewayHostRule, GetGatewayTargetHealth, TargetNotSettled,
       DeleteGatewayHostRule, CallFails, Refused, alb
  <2>. QED
    BY Zenon, <1>4, <2>1
<1>8. CASE DeregisterGatewayTarget(w)
  <2>1. UNCHANGED <<tgs, containers>> /\ targets' \subseteq targets
    BY Zenon, <1>8 DEF DeregisterGatewayTarget
  <2>2. Frees /\ TargetsOk'
    BY Zenon, <1>1, <2>1, TargetsShrink DEF Frees
  <2>. QED
    BY Zenon, <1>p, <1>1, <1>3, <2>1, <2>2, MoveP
<1>9. CASE DeleteGatewayTargetGroup(w)
  <2>0. UNCHANGED containers
    BY Zenon, <1>9 DEF DeleteGatewayTargetGroup
  <2>1. CASE Refused(w)
    BY Zenon, <1>4, <2>0, <2>1 DEF Refused, alb
  <2>2. CASE tgs' = [tgs EXCEPT ![j.tg] = None] /\ targets' = {x \in targets : x[1] # j.tg}
    <3>1. \A t \in TgArns : tgs'[t] = (IF t = j.tg THEN None ELSE tgs[t])
      BY Zenon, <2>2 DEF IInv, TypeOK
    <3>2. Frees
      BY Zenon, <3>1 DEF Frees
    <3>3. ASSUME NEW t \in TgArns, NEW q \in Ports, <<t, q>> \in targets'
          PROVE  <<t, q>> \in targets /\ t # j.tg
      BY <2>2, <3>3
    <3>4. TargetsOk'
      BY Zenon, <1>1, <3>1, <3>3, TargetsShrink
    <3>. QED
      BY Zenon, <1>p, <1>1, <1>3, <2>0, <3>2, <3>4, MoveP
  <2>. QED
    BY Zenon, <1>9, <1>p, <2>1, <2>2 DEF DeleteGatewayTargetGroup
<1>10. CASE RemoveContainer(w)
  <2>1. containers' = [containers EXCEPT ![j.g] = None] /\ UNCHANGED <<tgs, targets>>
    BY Zenon, <1>10, <1>p DEF RemoveContainer, alb
  <2>2. /\ OwnPorts' /\ \A h \in Gateways \ {j.g} : containers'[h] = containers[h]
    BY ZenonT(40), <1>2, <2>1, PortsLast
  <2>3. j.pc = "removeContainer" /\ j.pc # "write"
    BY Zenon, <1>10, <1>p DEF RemoveContainer
  <2>4. j.prov = "deprovisioning" /\ PastTg(j)
    BY Zenon, <1>p, <1>1, <2>3, Busy DEF PcOk, PastTg
  <2>5. /\ Dead(j.g) /\ call[j.g].pc = "none"
        /\ row[j.g].tg # None => tgs[row[j.g].tg] = None
    BY Zenon, <1>2, <2>4 DEF Legal, Released
  <2>6. Frees /\ TargetsOk'
    BY Zenon, <1>1, <2>1, TargetsShrink DEF Frees
  <2>. QED
    BY Zenon, <1>p, <1>1, <2>2, <2>5, <2>6, MoveP
<1>. QED
  BY Zenon, <1>5, <1>6, <1>7, <1>8, <1>9, <1>10

\* Steps that only touch leases, priorities and the worker itself.
LEMMA LeaseP ==
    ASSUME IInv, RInv, PInv, NEW w \in Workers,
           \/ Crash(w) \/ ReserveGatewayListenerRulePriority(w)
           \/ \E g \in Gateways : ClaimNextGatewayIngressJob(w, g)
    PROVE  PInv'
<1>1. UNCHANGED <<call, stale, containers, tgs, targets>>
  BY Zenon DEF Crash, ReserveGatewayListenerRulePriority, ClaimNextGatewayIngressJob, alb
<1>2. \A h \in Gateways : /\ Stays(row[h], row'[h]) /\ Drains(row[h], row'[h])
                          /\ row'[h].state = "absent" => row[h].state = "absent"
  BY Zenon, SameStays, LeaseChanges DEF Crash
<1>3. Frees /\ OwnPorts'
  BY Zenon, <1>1 DEF Frees, PInv, OwnPorts
<1>4. \A g \in Gateways : KeepsParts(g)
  BY Zenon, <1>1, <1>2, StaysCalm DEF KeepsParts, Stays, SameParts
<1>5. TargetsOk'
  BY Zenon, <1>1, <1>4, TargetsLast
<1>6. SUFFICES \E k : Becomes(w, k) /\ (k.pc # "idle" => Legal(k)')
  BY Zenon, <1>1, <1>2, <1>3, <1>5, StayP
<1>7. CASE Crash(w)
  BY Zenon, <1>7, IdleIs DEF Crash
<1>8. CASE ReserveGatewayListenerRulePriority(w)
  <2>p. PICK j : j = wk[w]
    BY Zenon
  <2>0. j.pc # "idle"
    BY Zenon, <1>8, <2>p DEF ReserveGatewayListenerRulePriority
  <2>1. j \in Job /\ j.g \in Gateways
    BY Zenon, <2>p, <2>0, Busy
  <2>2. Legal(j)'
    BY ZenonT(40), <1>3, <1>4, <2>p, <2>0, <2>1, LegalLasts
  <2>3. SameJob(j, retryOrFail(j))
    BY Zenon, <2>1, RetryIs
  <2>4. ASSUME NEW p
        PROVE  SameJob(j, [j EXCEPT !.pc = "createRule", !.prio = p])
    BY <2>1 DEF SameJob, Job
  <2>5. PICK k : Becomes(w, k) /\ SameJob(j, k)
    BY Zenon, <1>8, <2>p, <2>3, <2>4 DEF ReserveGatewayListenerRulePriority
  <2>6. Legal(k)'
    BY Zenon, <2>2, <2>5 DEF Legal, SameJob, Dead
  <2>. QED
    BY Zenon, <2>5, <2>6
<1>9. ASSUME NEW g \in Gateways, ClaimNextGatewayIngressJob(w, g)
      PROVE  \E k : Becomes(w, k) /\ (k.pc # "idle" => Legal(k)')
  <2>1. PICK a \in Row : a = row[g] /\ StageOk(a)
    BY Zenon, StagesAre DEF IInv, TypeOK
  <2>2. PICK t : t = AnyOf(UnusedTokens) /\ t \in Tokens
    BY Zenon, <1>9 DEF ClaimNextGatewayIngressJob, UnusedTokens, AnyOf
  <2>3. PICK j : j = ReadJob(g, t, a)
    BY Zenon
  <2>4. PICK k : k = Dispatch(j)
    BY Zenon
  <2>5. Becomes(w, k)
    BY Zenon, <1>9, <2>1, <2>2, <2>3, <2>4
       DEF ClaimNextGatewayIngressJob, Becomes, ReadJob
  <2>6. j \in Job /\ j.g = g /\ j.prov = a.prov /\ j.port = a.port /\ j.tg = a.tg
    BY <2>1, <2>2, <2>3, ReadIs
  <2>7. a.prov \in Stages \cup {"deprovisioning"}
    BY Zenon, <1>9, <2>1 DEF ClaimNextGatewayIngressJob
  <2>8. SameJob(j, k)
    <3>1. /\ j.prov \in Stages \cup {"deprovisioning"}
          /\ j.prov \in Stages \ {"container_ready"} => j.tg # None
          /\ j.tg # None => j.port # None
      BY Zenon, <2>1, <2>6, <2>7 DEF StageOk
    <3>. QED
      BY ZenonT(40), <2>4, <2>6, <3>1, DispatchIs
  <2>9. k.g = g /\ k.prov = a.prov /\ k.port = a.port /\ k.tg = a.tg
    BY Zenon, <2>6, <2>8 DEF SameJob
  <2>10. row'[g].prov = a.prov /\ row'[g].port = a.port /\ row'[g].tg = a.tg
    BY Zenon, <1>2, <2>1 DEF Stays, SameParts
  <2>11. a.prov = "deprovisioning" => Dead(g)' /\ call'[g].pc = "none"
    <3>1. a.prov = "deprovisioning" => a.prov # "not_started" /\ a.prov \in DeadProvs
      BY DEF DeadProvs
    <3>. QED
      BY Zenon, <1>1, <2>1, <2>10, <3>1 DEF PInv, Held, Dead
  <2>12. Legal(k)'
    BY Zenon, <2>9, <2>10, <2>11 DEF Legal, Dead
  <2>. QED
    BY Zenon, <2>5, <2>12
<1>. QED
  BY Zenon, <1>7, <1>8, <1>9

\* The statement a handler ends with names a group only when the row had none, and forgets
\* one only when it is gone.
LEMMA WriteP ==
    ASSUME IInv, RInv, PInv, NEW w \in Workers, Write(w)
    PROVE  PInv'
<1>p. PICK j : j = wk[w]
  BY Zenon
<1>1. /\ j.pc = "write" /\ j.g \in Gateways
      /\ \A h \in Gateways \ {j.g} : row'[h] = row[h]
      /\ \/ row'[j.g] = row[j.g]
         \/ /\ LeaseHeld(row[j.g], j) /\ Recorded(j, row[j.g], row'[j.g])
            /\ Drains(row[j.g], row'[j.g]) /\ row'[j.g].state # "absent"
  BY Zenon, <1>p, WriteChanges
<1>2. PICK g \in Gateways : g = j.g
  BY Zenon, <1>1
<1>3. PICK a, b : a = row[g] /\ b = row'[g]
  BY Zenon
<1>4. j.pc # "idle"
  BY <1>1
<1>5. /\ j.prov \in Stages \cup {"deprovisioning"} /\ RowOk(j, a) /\ Released(j) /\ Legal(j)
      /\ Exposed(g) /\ LegacyOk(g) /\ Held(g)
  BY Zenon, <1>p, <1>2, <1>3, <1>4, Busy DEF PInv, RInv
<1>6. UNCHANGED <<call, stale, containers, tgs, targets>> /\ Becomes(w, Idle)
  BY Zenon DEF Write, alb
<1>7. Frees /\ OwnPorts' /\ stale' \subseteq Legacy
  BY Zenon, <1>6 DEF Frees, PInv, OwnPorts
<1>8. ASSUME NEW h \in Gateways, row'[h] = row[h]
      PROVE  KeepsParts(h) /\ LegacyOk(h)' /\ Held(h)'
  <2>1. KeepsParts(h)
    BY Zenon, <1>6, <1>8, SameStays, StaysCalm DEF KeepsParts
  <2>2. LegacyOk(h) /\ Held(h)
    BY ZenonT(40) DEF PInv
  <2>. QED
    BY Zenon, <1>6, <1>8, <2>1, <2>2 DEF LegacyOk, Held, Live
<1>9. ASSUME LeaseHeld(a, j), Recorded(j, a, b), Drains(a, b), b.state # "absent"
      PROVE  KeepsParts(g) /\ LegacyOk(g)' /\ Held(g)'
  <2>0. /\ a.tg = j.tg /\ (j.prov # "deprovisioning" => a.prov = j.prov)
        /\ a.tg # None /\ j.pc = "write" /\ j.op = "decommissioned" => tgs[a.tg] = None
    BY Zenon, <1>5, <1>9 DEF LeaseHeld, RowOk, Released, PastTg
  <2>1. call[g].pc = "none" /\ call[g].pc # "healthy"
    <3>1. "not_started" \notin Stages
      BY DEF Stages
    <3>2. call[g].pc = "none"
      BY Zenon, <1>2, <1>3, <1>5, <2>0, <3>1 DEF Legal, Held
    <3>. QED
      BY <3>2
  <2>2. CASE Stays(a, b)
    <3>1. b.prov = a.prov /\ b.port = a.port /\ b.tg = a.tg
      BY Zenon, <2>2 DEF Stays, SameParts
    <3>2. KeepsParts(g)
      BY Zenon, <1>3, <1>6, <2>2, <3>1, StaysCalm DEF KeepsParts
    <3>3. LegacyOk(g)'
      BY Zenon, <1>3, <1>5, <1>6, <1>9, <3>1 DEF LegacyOk, Drains, Live
    <3>. QED
      BY Zenon, <1>3, <1>5, <1>6, <3>1, <3>2, <3>3 DEF Held
  <2>3. CASE /\ a.prov \in Stages /\ b.prov \in Stages \cup {"completed"}
             /\ b.port = a.port /\ (b.tg = a.tg \/ a.tg = None)
    <3>1. /\ a.prov \notin DeadProvs /\ a.prov \notin QuietProvs
          /\ b.prov # "deprovisioning" /\ a.prov # "deprovisioning"
      BY <2>3 DEF Stages, DeadProvs, QuietProvs
    <3>2. g \notin Legacy
      BY Zenon, <1>3, <1>5, <3>1 DEF LegacyOk
    <3>3. KeepsParts(g)
      BY Zenon, <1>3, <1>6, <2>1, <2>3, <3>1 DEF KeepsParts, Calm, Dead
    <3>4. LegacyOk(g)'
      BY Zenon, <1>3, <1>5, <1>9, <3>1, <3>2 DEF LegacyOk, Drains, Live
    <3>5. containers[g] = a.port
      BY Zenon, <1>3, <1>5, <2>3 DEF Held
    <3>. QED
      BY Zenon, <1>3, <1>6, <2>1, <2>3, <3>3, <3>4, <3>5 DEF Held
  <2>4. CASE b.prov = "failed" /\ SameParts(a, b)
    <3>1. /\ b.prov \in DeadProvs \cap QuietProvs /\ b.prov \notin Stages \cup {"completed"}
          /\ b.prov # "deprovisioning" /\ b.port = a.port /\ b.tg = a.tg
      BY <2>4 DEF Stages, DeadProvs, QuietProvs, SameParts
    <3>2. KeepsParts(g)
      BY Zenon, <1>3, <1>6, <2>1, <3>1 DEF KeepsParts, Calm, Dead
    <3>3. LegacyOk(g)'
      BY Zenon, <1>3, <1>5, <1>6, <1>9, <3>1 DEF LegacyOk, Drains, Live
    <3>. QED
      BY Zenon, <1>3, <1>5, <1>6, <2>1, <3>1, <3>2, <3>3 DEF Held
  <2>5. CASE /\ j.op = "decommissioned" /\ a.prov = "deprovisioning"
             /\ b.prov = "deprovisioned" /\ b.tg = None
    <3>1. /\ b.prov \in DeadProvs \cap QuietProvs /\ b.prov \notin Stages \cup {"completed"}
          /\ b.prov # "deprovisioning"
      BY <2>5 DEF Stages, DeadProvs, QuietProvs
    <3>2. KeepsParts(g)
      BY Zenon, <1>1, <1>3, <1>6, <2>0, <2>1, <2>5, <3>1 DEF KeepsParts, Calm, Dead
    <3>3. LegacyOk(g)'
      BY Zenon, <1>3, <1>5, <1>6, <1>9, <2>5, <3>1 DEF LegacyOk, Drains, Live
    <3>. QED
      BY Zenon, <1>3, <1>6, <2>1, <2>5, <3>1, <3>2, <3>3 DEF Held
  <2>6. a.prov = "container_ready" => a.tg = None
    BY Zenon, <1>3, <1>5 DEF Exposed
  <2>. QED
    BY ZenonT(40), <1>9, <2>2, <2>3, <2>4, <2>5, <2>6 DEF Recorded, Stages, SameParts
<1>10. \A h \in Gateways : KeepsParts(h) /\ LegacyOk(h)' /\ Held(h)'
  BY Zenon, <1>1, <1>2, <1>3, <1>8, <1>9
<1>11. TargetsOk'
  BY Zenon, <1>6, <1>10, TargetsLast
<1>12. \A v \in Workers : wk'[v].pc # "idle" => Legal(wk[v])'
  BY Zenon, <1>6, <1>7, <1>10, IdleIs, LegalAll
<1>. QED
  BY Zenon, <1>7, <1>10, <1>11, <1>12 DEF PInv

\* At the start only rows left draining have containers.
LEMMA InitP == Init => PInv
<1>. SUFFICES ASSUME Init PROVE PInv
  OBVIOUS
<1>1. ASSUME NEW g \in Gateways
      PROVE  LegacyOk(g) /\ Held(g)
  <2>1. /\ row[g] = IF g \in Legacy THEN [NewRow EXCEPT !.status = "draining"]
                    ELSE [NewRow EXCEPT !.state = "absent"]
        /\ call[g] = NoCall
    BY Zenon DEF Init
  <2>2. /\ row[g].prov = "not_started" /\ row[g].tg = None
        /\ IF g \in Legacy THEN row[g].state = "live" ELSE row[g].state = "absent"
    BY <2>1 DEF NewRow
  <2>3. call[g].pc = "none"
    BY ZenonT(40), <2>1, NoCallIs
  <2>. QED
    BY <2>2, <2>3 DEF LegacyOk, Held, Live, QuietProvs, Stages
<1>2. \A w \in Workers : wk[w].pc = "idle"
  BY Zenon, IdleIs DEF Init
<1>3. OwnPorts
  BY Zenon DEF Init, OwnPorts
<1>4. TargetsOk
  BY DEF Init, TargetsOk
<1>5. stale \subseteq Legacy
  BY DEF Init
<1>. QED
  BY ZenonT(40), <1>1, <1>2, <1>3, <1>4, <1>5 DEF PInv

\* Every step keeps the invariant, when deletes wait for Provision calls and the override
\* is not used.
LEMMA NextP ==
    ASSUME ~ EarlyDelete, ~ ForceAllowed
    PROVE  IInv /\ RInv /\ PInv /\ [Next]_vars => PInv'
<1>. SUFFICES ASSUME IInv, RInv, PInv, [Next]_vars PROVE PInv'
  OBVIOUS
<1>1. CASE UNCHANGED vars
  <2>1. UNCHANGED <<row, call, wk, stale, containers, tgs, targets>>
    BY Zenon, <1>1 DEF vars
  <2>2. \A g \in Gateways : Changes(g)
    BY Zenon, <2>1, StillChanges, SameStays
  <2>3. stale' \subseteq Legacy /\ OwnPorts'
    BY Zenon, <2>1 DEF PInv, OwnPorts
  <2>4. \A g \in Gateways : call'[g].pc = "healthy" => containers'[g] = call'[g].port
    BY Zenon, <2>1 DEF PInv, Held
  <2>. QED
    BY Zenon, <2>1, <2>2, <2>3, <2>4, QuietP
<1>2. CASE ApiStep
  BY Zenon, <1>2, ApiP
<1>3. CASE EnvStep \/ ListStaleDraining \/ \E g \in Gateways : reconcileStaleDraining(g)
  BY Zenon, <1>3, BackP
<1>4. ASSUME NEW w \in Workers, HandlerStep(w)
      PROVE  PInv'
  BY Zenon, <1>4, CallP, LeaseP, WriteP DEF HandlerStep
<1>5. ASSUME NEW w \in Workers, \/ CallFails(w) \/ Crash(w)
                                \/ \E g \in Gateways : ClaimNextGatewayIngressJob(w, g)
      PROVE  PInv'
  BY Zenon, <1>5, CallP, LeaseP
<1>. QED
  BY Zenon, <1>1, <1>2, <1>3, <1>4, <1>5 DEF Next, WorkerStep

\* Traffic for a gateway's hostname never reaches the container of another gateway: its
\* rule forwards to its own target group, what is registered there is the port its row
\* names, and its container keeps that port until the group is gone.  The super-admin
\* override and a delete that overtakes its gateway's Provision call remove a container
\* first and are excluded.
THEOREM OwnerRouted ==
    ASSUME ~ EarlyDelete, ~ ForceAllowed
    PROVE  Spec => []RoutesToOwner
<1>1. ASSUME IInv, PInv, NEW x \in rules, NEW t \in targets, NEW h \in Gateways,
             t[1] = x.tg, containers[h] = t[2]
      PROVE  h = x.g
  <2>1. x.tg \in TgArns /\ x.g \in Gateways /\ tgs[x.tg] = x.g
    BY ZenonT(40), <1>1 DEF IInv, TypeOK, ListenerOk
  <2>2. t[2] \in Ports /\ t = <<x.tg, t[2]>>
    <3>1. t \in TgArns \X Ports
      BY Zenon, <1>1 DEF IInv, TypeOK
    <3>. QED
      BY <1>1, <3>1
  <2>3. row[x.g].tg = x.tg /\ row[x.g].port = t[2]
    <3>1. PICK u \in TgArns, q \in Ports : u = x.tg /\ q = t[2]
      BY Zenon, <2>1, <2>2
    <3>2. <<u, q>> \in targets
      BY Zenon, <1>1, <2>2, <3>1
    <3>3. row[tgs[u]].tg = u /\ row[tgs[u]].port = q
      BY Zenon, <1>1, <3>2 DEF PInv, TargetsOk
    <3>. QED
      BY Zenon, <2>1, <3>1, <3>3
  <2>4. containers[x.g] = t[2] /\ t[2] # None
    BY ZenonT(40), <1>1, <2>1, <2>2, <2>3, NoneAssumption DEF PInv, Held
  <2>. QED
    BY ZenonT(40), <1>1, <2>1, <2>4 DEF PInv, OwnPorts
<1>2. IInv /\ PInv => RoutesToOwner
  BY Zenon, <1>1 DEF RoutesToOwner
<1>3. Spec => []PInv
  BY InitP, NextP, Invariance, RInvariance, PTL DEF Spec
<1>. QED
  BY <1>2, <1>3, Invariance, PTL

=============================================================================
