--------------------------- MODULE GatewayIngress ---------------------------
(***************************************************************************)
(* Dedicated gateways: the admin API that starts a gateway container and   *)
(* queues its removal (internal/admin/handler/gateway_handler.go,          *)
(* platform_handler.go, internal/container/docker.go), the gateways table  *)
(* used as a job queue (internal/storage/gateway_*.go), the worker that    *)
(* exposes a gateway through the load balancer and takes it down again     *)
(* (cmd/worker/gateway_provisioner.go), and the reconciler of              *)
(* cmd/worker/main.go.                                                     *)
(*                                                                         *)
(* As in CustomDomains, a handler is one step per external call and one    *)
(* step for the UPDATE it ends with, and everything may happen in between. *)
(***************************************************************************)
EXTENDS Naturals, FiniteSets

CONSTANTS Gateways,     \* external ids, each used for one Provision call
          Legacy,       \* rows that were draining before migration 0030
          Workers,      \* concurrently running GatewayProvisioners
          Tokens,       \* lease tokens
          TgArns,       \* target group ARNs
          RuleArns,     \* listener rule ARNs
          Ports,        \* host ports Docker hands out
          MaxPriority,  \* priorityMax; priorityMin is 1
          None,         \* SQL NULL
          MaxRetries,   \* maxRetries of the provisioner
          MaxFaults,    \* bound: crashes, lease expiries and failing calls
          ForceAllowed, \* whether the super-admin override is used
          EarlyDelete   \* whether a delete may overtake its gateway's Provision call

ASSUME NoneAssumption ==
    /\ None \notin Gateways \cup Tokens \cup TgArns \cup RuleArns \cup Ports
    /\ TgArns \cap RuleArns = {}
    /\ Legacy \subseteq Gateways
ASSUME BoundAssumption ==
    /\ MaxPriority \in Nat \ {0} /\ MaxRetries \in Nat \ {0} /\ MaxFaults \in Nat
    /\ ForceAllowed \in BOOLEAN /\ EarlyDelete \in BOOLEAN

VARIABLES row,        \* the gateways table
          wk,         \* what each worker is doing
          call,       \* progress of the Provision call of each gateway
          stale,      \* what ListStaleDraining returned and is still to be reconciled
          containers, \* host port of each gateway's container, None if there is none
          tgs,        \* gateway a target group is named after, None if it does not exist
          targets,    \* registered <<target group, port>> pairs
          rules,      \* host rules of gateways on the listener
          pinned,     \* target groups a custom domain's host rule forwards to
          faults      \* how many faults have happened

vars == <<row, wk, call, stale, containers, tgs, targets, rules, pinned, faults>>
alb == <<tgs, targets, rules, pinned>>

----------------------------------------------------------------------------
(* Rows and jobs. *)

Stages == {"container_ready", "registering_target", "creating_listener_rule",
           "waiting_for_target_health"}
Provs == Stages \cup {"not_started", "completed", "failed", "deprovisioning",
                      "deprovisioned"}

\* listener_rule_priority is 0 when NULL; next_retry_at is kept as "due", locked_at
\* as "expired".
Row == [state: {"absent", "live", "deleted"},
        status: {"provisioning", "active", "failed", "draining", "decommissioned"},
        prov: Provs, port: Ports \cup {None}, tg: TgArns \cup {None},
        rule: RuleArns \cup {None}, prio: 0 .. MaxPriority, retries: 0 .. MaxRetries,
        lease: Tokens \cup {None}, expired: BOOLEAN, due: BOOLEAN]

NewRow ==
    [state |-> "live", status |-> "provisioning", prov |-> "not_started", port |-> None,
     tg |-> None, rule |-> None, prio |-> 0, retries |-> 0, lease |-> None,
     expired |-> FALSE, due |-> TRUE]

Calls == {"createTg", "register", "reserve", "createRule", "health", "deleteRule",
          "deregister", "deleteTg", "removeContainer"}
Ops == {"tg_created", "registered", "rule_created", "reschedule", "active", "retry",
        "fail", "decommissioned"}

Job == [pc: Calls \cup {"idle", "write"}, g: Gateways \cup {None},
        lease: Tokens \cup {None}, prov: Provs \cup {None}, port: Ports \cup {None},
        tg: TgArns \cup {None}, rule: RuleArns \cup {None}, prio: 0 .. MaxPriority,
        retries: 0 .. MaxRetries, got: TgArns \cup RuleArns \cup {None},
        op: Ops \cup {None}]

Idle == [pc |-> "idle", g |-> None, lease |-> None, prov |-> None, port |-> None,
         tg |-> None, rule |-> None, prio |-> 0, retries |-> 0, got |-> None,
         op |-> None]

----------------------------------------------------------------------------
(* The UPDATE statements of the repository, as functions on a row. *)

\* The columns every statement of a worker sets.
Mark(r, prov, due) ==
    [r EXCEPT !.prov = prov, !.due = due, !.lease = None, !.expired = FALSE]

MarkContainerReady(r, p) ==
    [r EXCEPT !.status = "provisioning", !.prov = "container_ready", !.port = p,
              !.retries = 0, !.due = TRUE]

MarkGatewayTargetGroupCreated(r, t) ==
    [Mark(r, "registering_target", TRUE) EXCEPT !.tg = t]

MarkGatewayTargetRegistered(r) == Mark(r, "creating_listener_rule", TRUE)

\* Mutant: the ARN is not recorded.
MarkGatewayListenerRuleCreated_NoArn(r, a) == Mark(r, "waiting_for_target_health", FALSE)

MarkGatewayListenerRuleCreated(r, a) ==
    [Mark(r, "waiting_for_target_health", FALSE) EXCEPT !.rule = a]

RescheduleGatewayHealthCheck(r) == Mark(r, r.prov, FALSE)

MarkGatewayIngressActive(r) == [Mark(r, "completed", TRUE) EXCEPT !.status = "active"]

ScheduleGatewayIngressRetry(r) ==
    [Mark(r, r.prov, FALSE) EXCEPT !.retries = @ + 1]

MarkGatewayIngressFailed(r) == [Mark(r, "failed", TRUE) EXCEPT !.status = "failed"]

QueueGatewayDeprovisioning(r) ==
    [Mark(r, "deprovisioning", r.prov = "deprovisioning" /\ r.due) EXCEPT
        !.status = "draining",
        !.retries = IF r.prov = "deprovisioning" THEN @ ELSE 0]

MarkGatewayDecommissioned(r) ==
    [Mark(r, "deprovisioned", TRUE) EXCEPT
        !.state = "deleted", !.status = "decommissioned", !.port = None, !.tg = None,
        !.rule = None, !.prio = 0]

\* Mutant: MarkGatewayIngressActive does not compare the lease token.
LeaseHeld_ActiveUnfenced(r, j) ==
    /\ r.state = "live" /\ (j.op # "active" => r.lease = j.lease)
    /\ j.op = "decommissioned" => r.prov = "deprovisioning"

\* The WHERE clause of the workers' UPDATEs.  Only the last one looks at the status.
LeaseHeld(r, j) ==
    /\ r.state = "live" /\ r.lease = j.lease
    /\ j.op = "decommissioned" => r.prov = "deprovisioning"

WriteBack(r, j) ==
    CASE j.op = "tg_created" -> MarkGatewayTargetGroupCreated(r, j.got)
      [] j.op = "registered" -> MarkGatewayTargetRegistered(r)
      [] j.op = "rule_created" -> MarkGatewayListenerRuleCreated(r, j.got)
      [] j.op = "reschedule" -> RescheduleGatewayHealthCheck(r)
      [] j.op = "active" -> MarkGatewayIngressActive(r)
      [] j.op = "retry" -> ScheduleGatewayIngressRetry(r)
      [] j.op = "fail" -> MarkGatewayIngressFailed(r)
      [] OTHER -> MarkGatewayDecommissioned(r)

----------------------------------------------------------------------------
(* The admin API. *)

Fault == faults < MaxFaults /\ faults' = faults + 1

Live(g) == row[g].state = "live"

NoCall == [pc |-> "none", port |-> None]

Init ==
    /\ row = [g \in Gateways |->
                IF g \in Legacy THEN [NewRow EXCEPT !.status = "draining"]
                ELSE [NewRow EXCEPT !.state = "absent"]]
    /\ wk = [w \in Workers |-> Idle]
    /\ call = [g \in Gateways |-> NoCall]
    /\ stale = {}
    /\ containers \in [Gateways -> Ports \cup {None}]
    /\ \A g, h \in Gateways : containers[g] # None =>
          g \in Legacy /\ (g # h => containers[g] # containers[h])
    /\ tgs = [t \in TgArns |-> None]
    /\ targets = {} /\ rules = {} /\ pinned = {}
    /\ faults = 0

\* Provision, in the steps of the handler: the row, the container, its health, and
\* MarkContainerReady (which may find the row gone).
Provision(g) ==
    /\ row[g].state = "absent"
    /\ row' = [row EXCEPT ![g] = NewRow]
    /\ call' = [call EXCEPT ![g].pc = "starting"]
    /\ UNCHANGED <<wk, stale, containers, alb, faults>>

StartContainer(g, p) ==
    /\ call[g].pc = "starting"
    /\ \A h \in Gateways : containers[h] # p
    /\ containers' = [containers EXCEPT ![g] = p]
    /\ call' = [call EXCEPT ![g].pc = "waiting"]
    /\ UNCHANGED <<row, wk, stale, alb, faults>>

ContainerHealthy(g) ==
    /\ call[g].pc = "waiting"
    /\ containers[g] # None
    /\ call' = [call EXCEPT ![g] = [pc |-> "healthy", port |-> containers[g]]]
    /\ UNCHANGED <<row, wk, stale, containers, alb, faults>>

\* The container does not start or is not healthy in time: it is removed and the
\* row is marked failed.
ContainerFails(g) ==
    /\ call[g].pc \in {"starting", "waiting"}
    /\ IF call[g].pc = "waiting" /\ containers[g] = None THEN UNCHANGED faults ELSE Fault
    /\ containers' = [containers EXCEPT ![g] = None]
    /\ row' = [row EXCEPT ![g].status = IF Live(g) THEN "failed" ELSE @]
    /\ call' = [call EXCEPT ![g] = NoCall]
    /\ UNCHANGED <<wk, stale, alb>>

RegisterEndpoint(g) ==
    /\ call[g].pc = "healthy"
    /\ row' = [row EXCEPT ![g] = IF Live(g) THEN MarkContainerReady(@, call[g].port) ELSE @]
    /\ call' = [call EXCEPT ![g] = NoCall]
    /\ UNCHANGED <<wk, stale, containers, alb, faults>>

\* The admin process dies during the call.
ApiCrash(g) ==
    /\ call[g] # NoCall
    /\ Fault
    /\ call' = [call EXCEPT ![g] = NoCall]
    /\ UNCHANGED <<row, wk, stale, containers, alb>>

Decommission(g) ==
    /\ Live(g) /\ row[g].status # "decommissioned"
    /\ EarlyDelete \/ call[g] = NoCall
    /\ row' = [row EXCEPT ![g] = QueueGatewayDeprovisioning(@)]
    /\ UNCHANGED <<wk, call, stale, containers, alb, faults>>

\* The container is removed if that succeeds; the row is updated either way.
ForceDecommission(g) ==
    /\ ForceAllowed /\ Live(g)
    /\ \/ containers' = [containers EXCEPT ![g] = None] /\ UNCHANGED faults
       \/ containers[g] # None /\ Fault /\ UNCHANGED containers
    /\ row' = [row EXCEPT ![g].status = "decommissioned"]
    /\ UNCHANGED <<wk, call, stale, alb>>

----------------------------------------------------------------------------
(* The reconciler of the worker process. *)

\* Mutant: rows with a cleanup job instead of rows without one.
ListStaleDraining_Queued ==
    /\ stale = {}
    /\ stale' = {g \in Gateways : /\ Live(g) /\ row[g].status = "draining"
                                  /\ row[g].prov = "deprovisioning"}
    /\ stale' # {}
    /\ UNCHANGED <<row, wk, call, containers, alb, faults>>

ListStaleDraining ==
    /\ stale = {}
    /\ stale' = {g \in Gateways : /\ Live(g) /\ row[g].status = "draining"
                                  /\ row[g].prov # "deprovisioning"}
    /\ stale' # {}
    /\ UNCHANGED <<row, wk, call, containers, alb, faults>>

\* A container that cannot be removed is left for the next round.
reconcileStaleDraining(g) ==
    /\ g \in stale
    /\ stale' = stale \ {g}
    /\ \/ /\ containers' = [containers EXCEPT ![g] = None]
          /\ row' = [row EXCEPT ![g] = IF Live(g)
                        THEN [@ EXCEPT !.state = "deleted", !.status = "decommissioned"]
                        ELSE @]
          /\ UNCHANGED faults
       \/ Fault /\ UNCHANGED <<row, containers>>
    /\ UNCHANGED <<wk, call, alb>>

----------------------------------------------------------------------------
(* The worker. *)

AnyOf(S) == CHOOSE x \in S : TRUE
UnusedTokens == Tokens \ ({row[g].lease : g \in Gateways} \cup {wk[w].lease : w \in Workers})
UnusedTgs ==
    {t \in TgArns : /\ tgs[t] = None
                    /\ \A g \in Gateways : row[g].tg # t
                    /\ \A w \in Workers : wk[w].tg # t /\ wk[w].got # t}
UnusedRules ==
    {a \in RuleArns : /\ \A x \in rules : x.arn # a
                      /\ \A g \in Gateways : row[g].rule # a
                      /\ \A w \in Workers : wk[w].rule # a /\ wk[w].got # a}

At(j, pc) == [j EXCEPT !.pc = pc]
Decided(j, op, got) == [j EXCEPT !.pc = "write", !.op = op, !.got = got]
retryOrFail(j) == Decided(j, IF j.retries + 1 >= MaxRetries THEN "fail" ELSE "retry", None)

\* Mutant: without a rule the target group is taken to be missing too.
AfterRule_NeedsRule(j) ==
    At(j, IF j.tg # None /\ j.rule # None THEN "deregister" ELSE "removeContainer")

\* handleDeprovisioning past the listener rule.  A recorded target group has a
\* recorded port (see StagesRecorded).
AfterRule(j) == At(j, IF j.tg # None THEN "deregister" ELSE "removeContainer")

\* Mutant: cleanup starts with the container.
Dispatch_ContainerFirst(j) ==
    CASE j.prov = "container_ready" -> At(j, "createTg")
      [] j.prov = "registering_target" -> At(j, "register")
      [] j.prov = "creating_listener_rule" -> At(j, "reserve")
      [] j.prov = "waiting_for_target_health" -> At(j, "health")
      [] OTHER -> At(j, "removeContainer")

\* The handler ProcessNextJob dispatches to.
Dispatch(j) ==
    CASE j.prov = "container_ready" -> At(j, "createTg")
      [] j.prov = "registering_target" -> At(j, "register")
      [] j.prov = "creating_listener_rule" -> At(j, "reserve")
      [] j.prov = "waiting_for_target_health" -> At(j, "health")
      [] j.prov = "deprovisioning" /\ j.rule # None -> At(j, "deleteRule")
      [] OTHER -> AfterRule(j)

\* Mutant: an expired lease is not taken over.
ClaimNextGatewayIngressJob_NoTakeover(w, g) ==
    /\ wk[w].pc = "idle" /\ Live(g) /\ row[g].due /\ row[g].lease = None
    /\ row[g].prov \in Stages \cup {"deprovisioning"}
    /\ UnusedTokens # {}
    /\ LET t == AnyOf(UnusedTokens)
           r == row[g]
       IN  /\ row' = [row EXCEPT ![g].lease = t]
           /\ wk' = [wk EXCEPT ![w] =
                 Dispatch([Idle EXCEPT !.g = g, !.lease = t, !.prov = r.prov,
                                       !.port = r.port, !.tg = r.tg, !.rule = r.rule,
                                       !.prio = r.prio, !.retries = r.retries])]
    /\ UNCHANGED <<call, stale, containers, alb, faults>>

ClaimNextGatewayIngressJob(w, g) ==
    /\ wk[w].pc = "idle"
    /\ Live(g)
    /\ row[g].prov \in Stages \cup {"deprovisioning"}
    /\ row[g].due
    /\ row[g].lease = None \/ row[g].expired
    /\ UnusedTokens # {}
    /\ LET t == AnyOf(UnusedTokens)
           r == row[g]
       IN  /\ row' = [row EXCEPT ![g].lease = t, ![g].expired = FALSE]
           /\ wk' = [wk EXCEPT ![w] =
                 Dispatch([Idle EXCEPT !.g = g, !.lease = t, !.prov = r.prov,
                                       !.port = r.port, !.tg = r.tg, !.rule = r.rule,
                                       !.prio = r.prio, !.retries = r.retries])]
    /\ UNCHANGED <<call, stale, containers, alb, faults>>

Becomes(w, j) == wk' = [wk EXCEPT ![w] = j]

\* A call took effect: the handler goes on, or its answer was lost.
Goes(w, next) ==
    \/ Becomes(w, next) /\ UNCHANGED faults
    \/ Becomes(w, retryOrFail(wk[w])) /\ Fault

\* A call failed without effect.
CallFails(w) ==
    /\ wk[w].pc \in Calls
    /\ Fault
    /\ Becomes(w, retryOrFail(wk[w]))
    /\ UNCHANGED <<row, call, stale, containers, alb>>

Refused(w) == Becomes(w, retryOrFail(wk[w])) /\ UNCHANGED <<alb, faults>>

\* Looked up by the name derived from the gateway, then created.
CreateGatewayTargetGroup(w) ==
    /\ wk[w].pc = "createTg"
    /\ \/ \E t \in TgArns :
             /\ tgs[t] = wk[w].g
             /\ Goes(w, Decided(wk[w], "tg_created", t))
             /\ UNCHANGED tgs
       \/ /\ \A t \in TgArns : tgs[t] # wk[w].g
          /\ UnusedTgs # {}
          /\ tgs' = [tgs EXCEPT ![AnyOf(UnusedTgs)] = wk[w].g]
          /\ Goes(w, Decided(wk[w], "tg_created", AnyOf(UnusedTgs)))
    /\ UNCHANGED <<row, call, stale, containers, targets, rules, pinned>>

RegisterGatewayTarget(w) ==
    /\ wk[w].pc = "register"
    /\ \/ tgs[wk[w].tg] = None /\ Refused(w)
       \/ /\ tgs[wk[w].tg] # None
          /\ targets' = targets \cup {<<wk[w].tg, wk[w].port>>}
          /\ Goes(w, Decided(wk[w], "registered", None))
          /\ UNCHANGED <<tgs, rules, pinned>>
    /\ UNCHANGED <<row, call, stale, containers>>

\* Mutant: only active gateways count.
FreePriorities_Active ==
    {p \in 1 .. MaxPriority :
        \A h \in Gateways : Live(h) /\ row[h].status = "active" => row[h].prio # p}

FreePriorities ==
    {p \in 1 .. MaxPriority : \A h \in Gateways : Live(h) => row[h].prio # p}

\* One transaction under an advisory lock: the lease is checked, a reserved priority
\* is kept, and otherwise the lowest one no live row has is taken.
ReserveGatewayListenerRulePriority(w) ==
    /\ wk[w].pc = "reserve"
    /\ LET g == wk[w].g
           held == Live(g) /\ row[g].lease = wk[w].lease
       IN  \/ /\ ~held \/ (row[g].prio = 0 /\ FreePriorities = {})
              /\ Becomes(w, retryOrFail(wk[w])) /\ UNCHANGED row
           \/ /\ held /\ row[g].prio # 0
              /\ Becomes(w, [wk[w] EXCEPT !.pc = "createRule", !.prio = row[g].prio])
              /\ UNCHANGED row
           \/ /\ held /\ row[g].prio = 0
              /\ \E lowest \in FreePriorities :
                    /\ \A q \in FreePriorities : lowest <= q
                    /\ Becomes(w, [wk[w] EXCEPT !.pc = "createRule", !.prio = lowest])
                    /\ row' = [row EXCEPT ![g].prio = lowest]
    /\ UNCHANGED <<call, stale, containers, alb, faults>>

\* The rule of the gateway's hostname is reused if it forwards to the same target
\* group, and is a conflict otherwise.  The load balancer refuses a priority that is
\* in use and a target group that does not exist.
CreateGatewayHostRule(w) ==
    /\ wk[w].pc = "createRule"
    /\ LET j == wk[w]
           mine == {x \in rules : x.g = j.g}
       IN  \/ /\ \/ \E x \in mine : x.tg # j.tg
                 \/ mine = {} /\ \E x \in rules : x.prio = j.prio
                 \/ mine = {} /\ tgs[j.tg] = None
              /\ Refused(w)
           \/ /\ \E x \in mine : x.tg = j.tg /\ Goes(w, Decided(j, "rule_created", x.arn))
              /\ UNCHANGED alb
           \/ /\ mine = {} /\ \A x \in rules : x.prio # j.prio
              /\ tgs[j.tg] # None /\ UnusedRules # {}
              /\ LET a == AnyOf(UnusedRules)
                 IN  /\ rules' = rules \cup {[arn |-> a, g |-> j.g, tg |-> j.tg, prio |-> j.prio]}
                     /\ Goes(w, Decided(j, "rule_created", a))
              /\ UNCHANGED <<tgs, targets, pinned>>
    /\ UNCHANGED <<row, call, stale, containers>>

\* The load balancer probes the registered port: whatever container listens there
\* answers.
Answers(p) == \E h \in Gateways : containers[h] = p

GetGatewayTargetHealth(w) ==
    /\ wk[w].pc = "health"
    /\ LET j == wk[w]
           used == <<j.tg, j.port>> \in targets /\ \E x \in rules : x.tg = j.tg
       IN  \/ /\ tgs[j.tg] = None \/ (used /\ ~Answers(j.port))
              /\ Refused(w)
           \/ /\ used /\ Answers(j.port)
              /\ Becomes(w, Decided(j, "active", None)) /\ UNCHANGED <<alb, faults>>
    /\ UNCHANGED <<row, call, stale, containers>>

\* Any other state (initial, unused, draining) is looked at again later.
TargetNotSettled(w) ==
    /\ wk[w].pc = "health"
    /\ tgs[wk[w].tg] # None
    /\ Becomes(w, Decided(wk[w], "reschedule", None))
    /\ UNCHANGED <<row, call, stale, containers, alb, faults>>

DeleteGatewayHostRule(w) ==
    /\ wk[w].pc = "deleteRule"
    /\ rules' = {x \in rules : x.arn # wk[w].rule}
    /\ Goes(w, AfterRule(wk[w]))
    /\ UNCHANGED <<row, call, stale, containers, tgs, targets, pinned>>

DeregisterGatewayTarget(w) ==
    /\ wk[w].pc = "deregister"
    /\ targets' = targets \ {<<wk[w].tg, wk[w].port>>}
    /\ Goes(w, At(wk[w], "deleteTg"))
    /\ UNCHANGED <<row, call, stale, containers, tgs, rules, pinned>>

\* A target group some rule forwards to cannot be deleted.
DeleteGatewayTargetGroup(w) ==
    /\ wk[w].pc = "deleteTg"
    /\ LET t == wk[w].tg
       IN  IF t \in pinned \/ \E x \in rules : x.tg = t
           THEN Refused(w)
           ELSE /\ tgs' = [tgs EXCEPT ![t] = None]
                /\ targets' = {x \in targets : x[1] # t}
                /\ Goes(w, At(wk[w], "removeContainer"))
                /\ UNCHANGED <<rules, pinned>>
    /\ UNCHANGED <<row, call, stale, containers>>

RemoveContainer(w) ==
    /\ wk[w].pc = "removeContainer"
    /\ containers' = [containers EXCEPT ![wk[w].g] = None]
    /\ Goes(w, Decided(wk[w], "decommissioned", None))
    /\ UNCHANGED <<row, call, stale, alb>>

Write(w) ==
    /\ wk[w].pc = "write"
    /\ LET j == wk[w]
       IN  row' = [row EXCEPT ![j.g] = IF LeaseHeld(@, j) THEN WriteBack(@, j) ELSE @]
    /\ Becomes(w, Idle)
    /\ UNCHANGED <<call, stale, containers, alb, faults>>

\* The process dies, or the UPDATE fails.
Crash(w) ==
    /\ wk[w].pc # "idle"
    /\ Fault
    /\ Becomes(w, Idle)
    /\ UNCHANGED <<row, call, stale, containers, alb>>

----------------------------------------------------------------------------
(* Time and the outside world. *)

LeaseExpires(g) ==
    /\ row[g].lease # None /\ ~row[g].expired
    /\ IF \E w \in Workers : wk[w].lease = row[g].lease THEN Fault ELSE UNCHANGED faults
    /\ row' = [row EXCEPT ![g].expired = TRUE]
    /\ UNCHANGED <<wk, call, stale, containers, alb>>

RetryTimeComes(g) ==
    /\ ~row[g].due
    /\ row' = [row EXCEPT ![g].due = TRUE]
    /\ UNCHANGED <<wk, call, stale, containers, alb, faults>>

\* The custom-domain worker forwards a hostname to the target group of a gateway it
\* found active, possibly some time ago; or removes that rule again.
CustomDomainRule(t) ==
    /\ \/ /\ t \notin pinned /\ tgs[t] # None
          /\ \E g \in Gateways : row[g].tg = t /\ row[g].prov \in {"completed", "deprovisioning"}
          /\ pinned' = pinned \cup {t}
       \/ t \in pinned /\ pinned' = pinned \ {t}
    /\ UNCHANGED <<row, wk, call, stale, containers, tgs, targets, rules, faults>>

ApiStep ==
    \E g \in Gateways :
        \/ Provision(g) \/ ContainerHealthy(g) \/ ContainerFails(g) \/ RegisterEndpoint(g)
        \/ \E p \in Ports : StartContainer(g, p)
        \/ ApiCrash(g) \/ Decommission(g) \/ ForceDecommission(g)

HandlerStep(w) ==
    \/ CreateGatewayTargetGroup(w) \/ RegisterGatewayTarget(w)
    \/ ReserveGatewayListenerRulePriority(w) \/ CreateGatewayHostRule(w)
    \/ GetGatewayTargetHealth(w) \/ TargetNotSettled(w) \/ DeleteGatewayHostRule(w)
    \/ DeregisterGatewayTarget(w) \/ DeleteGatewayTargetGroup(w) \/ RemoveContainer(w)
    \/ Write(w)

WorkerStep ==
    \/ \E w \in Workers :
          \/ HandlerStep(w) \/ CallFails(w) \/ Crash(w)
          \/ \E g \in Gateways : ClaimNextGatewayIngressJob(w, g)
    \/ ListStaleDraining \/ \E g \in Gateways : reconcileStaleDraining(g)

EnvStep ==
    \/ \E g \in Gateways : LeaseExpires(g) \/ RetryTimeComes(g)
    \/ \E t \in TgArns : CustomDomainRule(t)

Next == ApiStep \/ WorkerStep \/ EnvStep

Spec == Init /\ [][Next]_vars

\* The tickers of cmd/worker/main.go run for ever, a worker finishes what it starts,
\* the oldest due job is claimed first, retry times and orphaned leases run out, and
\* the load balancer does not keep a target in a transient state for ever.  Nothing
\* is assumed of API callers.
Fairness ==
    /\ \A w \in Workers : WF_vars(HandlerStep(w)) /\ SF_vars(GetGatewayTargetHealth(w))
    /\ \A g \in Gateways :
          /\ SF_vars(\E w \in Workers : ClaimNextGatewayIngressJob(w, g))
          /\ WF_vars(RetryTimeComes(g))
          /\ WF_vars((\A w \in Workers : wk[w].lease # row[g].lease) /\ LeaseExpires(g))
          /\ WF_vars(reconcileStaleDraining(g))
    /\ WF_vars(ListStaleDraining)

FairSpec == Spec /\ Fairness

----------------------------------------------------------------------------
(* Properties. *)

TypeOK ==
    /\ row \in [Gateways -> Row]
    /\ wk \in [Workers -> Job]
    /\ call \in [Gateways -> [pc: {"none", "starting", "waiting", "healthy"},
                              port: Ports \cup {None}]]
    /\ stale \subseteq Gateways
    /\ containers \in [Gateways -> Ports \cup {None}]
    /\ tgs \in [TgArns -> Gateways \cup {None}]
    /\ targets \subseteq TgArns \X Ports
    /\ rules \subseteq [arn: RuleArns, g: Gateways, tg: TgArns, prio: 1 .. MaxPriority]
    /\ pinned \subseteq TgArns
    /\ faults \in 0 .. MaxFaults

\* No handler finds missing what its stage needs ("target group ARN is missing",
\* "invalid Docker host port"): each stage records it in the UPDATE that enters the
\* next one, whatever deletes, overrides and other workers do meanwhile.
StagesRecorded ==
    \A g \in Gateways :
        /\ row[g].prov \in Stages \cup {"completed"} => row[g].port # None
        /\ row[g].tg # None => row[g].port # None
        /\ row[g].prov \in (Stages \ {"container_ready"}) \cup {"completed"} =>
              row[g].tg # None
        /\ row[g].prov \in {"waiting_for_target_health", "completed"} =>
              row[g].rule # None /\ row[g].prio # 0

\* Every rule a live gateway has on the listener uses the priority reserved for it,
\* and no two live gateways have reserved the same one, although reservation and
\* creation are two steps that crashes and other workers interrupt.
PrioritiesReserved ==
    /\ \A x \in rules : Live(x.g) => x.prio = row[x.g].prio
    /\ \A g, h \in Gateways :
          g # h /\ Live(g) /\ Live(h) /\ row[g].prio # 0 => row[g].prio # row[h].prio

\* The load balancer of a completed gateway is complete: its target group exists with
\* its port registered, and its rule forwards to it.
CompletedIsRouted ==
    \A g \in Gateways : row[g].prov = "completed" =>
        /\ tgs[row[g].tg] = g
        /\ <<row[g].tg, row[g].port>> \in targets
        /\ \E x \in rules : x.arn = row[g].rule /\ x.g = g /\ x.tg = row[g].tg

\* A gateway is only marked decommissioned when its recorded rule and target group
\* are gone, whatever was lost, repeated or raced on the way.
DecommissionReleases ==
    [][\A g \in Gateways :
          row[g].prov = "deprovisioning" /\ row'[g].prov = "deprovisioned" =>
              /\ row[g].tg # None => tgs[row[g].tg] = None
              /\ \A x \in rules : x.arn # row[g].rule]_vars

\* Traffic for a gateway's hostname never reaches the container of another gateway,
\* although Docker hands the port of a removed container out again: cleanup takes
\* the rule and the target away before the container.
RoutesToOwner ==
    \A x \in rules : \A t \in targets : \A h \in Gateways :
        t[1] = x.tg /\ containers[h] = t[2] => h = x.g

\* Each delete of a gateway takes the lease of its cleanup away and leaves the job
\* first in the queue, so a client that repeats it for ever holds everything up.
DeletesStop == <>[][\A g \in Gateways : ~Decommission(g)]_vars

\* A job ends, in success, failure or deletion, whether it exposes a gateway, cleans up
\* after one, or turns from the one into the other.
JobsEnd ==
    DeletesStop => \A g \in Gateways :
        LET busy == Live(g) /\ row[g].prov \in Stages \cup {"deprovisioning"}
        IN  busy ~> ~busy

\* The reconciler finishes gateways left draining before the cleanup queue existed.
StaleDrainEnds ==
    \A g \in Legacy :
        (Live(g) /\ row[g].status = "draining") ~>
            (~Live(g) \/ row[g].status # "draining" \/ row[g].prov = "deprovisioning")

----------------------------------------------------------------------------
(* What the documentation says of the code, where the code does otherwise. *)

\* "The request queues asynchronous cleanup": so a queued cleanup is not forgotten.
\* MarkContainerReady does not look at the status it overwrites.
CleanupStaysQueued ==
    [][\A g \in Gateways : row[g].prov = "deprovisioning" =>
          row'[g].prov \in {"deprovisioning", "deprovisioned", "failed"}]_vars

\* "The Worker removes the ALB listener rule, target registration, target group and
\* Docker container before finally marking the gateway as decommissioned": so a
\* soft-deleted gateway nobody works on has none of these.
NothingLeftBehind ==
    \A g \in Gateways :
        row[g].prov = "deprovisioned" /\ call[g] = NoCall /\ (\A w \in Workers : wk[w].g # g) =>
            /\ \A t \in TgArns : tgs[t] # g
            /\ \A x \in rules : x.g # g
            /\ containers[g] = None

\* "SKIP LOCKED prevents multiple workers from processing the same gateway."
OneWorkerPerGateway ==
    \A v, w \in Workers : v # w /\ wk[v].g # None => wk[v].g # wk[w].g

\* "gateway force-decommissioned": so the gateway is not active again afterwards.
\* ForceDecommission leaves the job in the queue.
ForcedStaysDown ==
    [][\A g \in Gateways : row[g].status = "decommissioned" => row'[g].status # "active"]_vars

============================================================================
