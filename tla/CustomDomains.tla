--------------------------- MODULE CustomDomains ---------------------------
(***************************************************************************)
(* Custom domains: the admin API that registers, verifies, activates and   *)
(* deletes a domain (internal/admin/service/custom_domain_service.go), the *)
(* custom_domains table used as a job queue with leases                    *)
(* (internal/storage/custom_domain_repo.go), the worker that drives a      *)
(* domain through ACM and the load balancer (cmd/worker/provisioner.go),   *)
(* and the AWS resources it creates and destroys.                          *)
(*                                                                         *)
(* A worker runs a handler as a sequence of steps: one per AWS call, one   *)
(* for the database read in the middle of handleAttachingCertificate, and  *)
(* one for the single UPDATE every path of every handler ends with.  Other *)
(* workers, API requests, lease expiry and crashes interleave between any  *)
(* two of them.                                                            *)
(***************************************************************************)
EXTENDS Naturals, FiniteSets

CONSTANTS Domains,      \* ids of rows of custom_domains
          Hosts,        \* hostnames
          Workers,      \* concurrently running Provisioners
          Clients,      \* concurrent API requests
          Tokens,       \* lease tokens (UUIDs)
          CertArns,     \* ACM certificate ARNs
          RuleArns,     \* ALB listener rule ARNs
          TargetGroups, \* target groups of the project's gateways
          None,         \* SQL NULL
          MaxAttempts,  \* the literal 5 of handleWaitingForDNS
          MaxFaults     \* bound: crashes, lease expiries and failing AWS calls

ASSUME NoneAssumption ==
    /\ None \notin Domains \cup Hosts \cup Tokens \cup CertArns
    /\ None \notin RuleArns \cup TargetGroups
    /\ CertArns \cap RuleArns = {}
ASSUME BoundAssumption == MaxAttempts \in Nat /\ MaxFaults \in Nat

VARIABLES row,      \* custom_domains, one record per id
          wk,       \* what each worker is doing
          req,      \* API requests that have read a row and not yet written it
          acm,      \* state of every ACM certificate
          attached, \* certificates attached to the HTTPS listener
          rules,    \* custom-domain host rules of the listener
          ingress,  \* target group of the project's active dedicated gateway
          faults    \* how many faults have happened

vars == <<row, wk, req, acm, attached, rules, ingress, faults>>
aws == <<acm, attached, rules>>

----------------------------------------------------------------------------
(* Rows and jobs. *)

InProgress == {"requesting_certificate", "waiting_for_validation_record",
               "waiting_for_dns", "attaching_certificate"}
Removal == {"deprovisioning", "deprovisioned", "deprovision_failed"}
Provs == InProgress \cup Removal \cup {"not_started", "completed", "failed"}

\* The columns a property or a guard looks at.  certificate_managed_by_elitegate
\* is not kept: every statement that sets certificate_arn sets it to true.
\* next_retry_at is kept as "due" (NULL or in the past), locked_at as "expired".
Row == [state: {"absent", "live", "deleted"}, host: Hosts \cup {None},
        status: {"pending_verification", "verified", "active"},
        routing: {"pending", "ready", "failed"}, prov: Provs,
        cert: CertArns \cup {None}, val: BOOLEAN, issued: BOOLEAN,
        rule: RuleArns \cup {None}, attempts: 0 .. MaxAttempts,
        lease: Tokens \cup {None}, expired: BOOLEAN, due: BOOLEAN]

NewRow(h) ==
    [state |-> "live", host |-> h, status |-> "pending_verification",
     routing |-> "pending", prov |-> "not_started", cert |-> None, val |-> FALSE,
     issued |-> FALSE, rule |-> None, attempts |-> 0, lease |-> None,
     expired |-> FALSE, due |-> TRUE]

AwsSteps == {"request", "describe", "attach", "ensure", "deleteRule", "detach",
             "deleteCert"}
Ops == {"advance", "poll", "retry", "fail", "complete", "deprovisioned",
        "deprovision_failed"}

\* A ProvisioningJob is the snapshot RETURNING gives to the claiming worker;
\* "got" is the ARN the last creating call returned, "op" the UPDATE to issue.
Job == [pc: AwsSteps \cup {"idle", "resolve", "write"}, d: Domains \cup {None},
        lease: Tokens \cup {None}, prov: Provs \cup {None}, host: Hosts \cup {None},
        cert: CertArns \cup {None}, rule: RuleArns \cup {None},
        attempts: 0 .. MaxAttempts, tg: TargetGroups \cup {None},
        got: CertArns \cup RuleArns \cup {None}, op: Ops \cup {None}]

Idle == [pc |-> "idle", d |-> None, lease |-> None, prov |-> None, host |-> None,
         cert |-> None, rule |-> None, attempts |-> 0, tg |-> None, got |-> None,
         op |-> None]

Request == [kind: {"verify", "routing", "enqueue", "retry"}, d: Domains,
            to: InProgress \cup {None}]
NoReq == [kind |-> "none", d |-> None, to |-> None]

\* Only handleWaitingForDNS reads the counter, and only to compare it with the
\* limit, so it may saturate there.
Bump(n) == IF n < MaxAttempts THEN n + 1 ELSE n

----------------------------------------------------------------------------
(* The UPDATE statements of the repository, as functions on a row. *)

\* The columns nearly every statement sets: the job goes back to the queue (or out
\* of it) and its lock is cleared.
Requeue(r, prov, attempts, due) ==
    [r EXCEPT !.prov = prov, !.attempts = attempts, !.due = due,
              !.lease = None, !.expired = FALSE]

AdvanceProvisioningState(r, j) ==
    LET to == CASE j.prov = "requesting_certificate" -> "waiting_for_validation_record"
                [] j.prov = "waiting_for_validation_record" -> "waiting_for_dns"
                [] OTHER -> "attaching_certificate"
    IN  [Requeue(r, to, r.attempts, j.prov # "waiting_for_validation_record") EXCEPT
            !.cert = IF j.prov = "requesting_certificate" THEN j.got ELSE @,
            !.val = @ \/ j.prov = "waiting_for_validation_record",
            !.issued = (j.prov = "waiting_for_dns")]

ScheduleProvisioningPoll(r) == Requeue(r, r.prov, r.attempts, FALSE)

ScheduleProvisioningRetry(r) == Requeue(r, r.prov, Bump(r.attempts), FALSE)

MarkProvisioningFailed(r) == Requeue(r, "failed", Bump(r.attempts), TRUE)

MarkProvisioningCompleted(r, rule) ==
    [Requeue(r, "completed", r.attempts, TRUE) EXCEPT
        !.status = "active", !.issued = TRUE, !.rule = rule]

MarkDeprovisioned(r) ==
    [Requeue(r, "deprovisioned", r.attempts, TRUE) EXCEPT !.state = "deleted"]

MarkDeprovisionFailed(r) == Requeue(r, "deprovision_failed", r.attempts, r.due)

EnqueueProvisioning(r) ==
    IF r.status = "verified" /\ r.routing = "ready" /\ r.prov \in {"not_started", "failed"}
    THEN Requeue(r, "requesting_certificate", 0, TRUE)
    ELSE r

ResetProvisioningForRetry(r, to) ==
    IF r.prov = "failed" THEN Requeue(r, to, 0, TRUE) ELSE r

EnqueueDeprovisioning(r) ==
    IF r.prov \notin {"deprovisioning", "deprovisioned"}
    THEN Requeue(r, "deprovisioning", r.attempts, TRUE)
    ELSE r

ResetDeprovisioningForRetry(r) == Requeue(r, "deprovisioning", 0, TRUE)

\* Mutant: the UPDATEs select the row by id alone.
LeaseHeld_ById(r, j) == r.state = "live"

\* The WHERE clause of every UPDATE a worker issues.
LeaseHeld(r, j) == r.state = "live" /\ r.lease = j.lease /\ r.prov = j.prov

\* The UPDATE the handler decided on.
WriteBack(r, j) ==
    CASE j.op = "advance" -> AdvanceProvisioningState(r, j)
      [] j.op = "poll" -> ScheduleProvisioningPoll(r)
      [] j.op = "retry" -> ScheduleProvisioningRetry(r)
      [] j.op = "fail" -> MarkProvisioningFailed(r)
      [] j.op = "complete" -> MarkProvisioningCompleted(r, j.got)
      [] j.op = "deprovisioned" -> MarkDeprovisioned(r)
      [] OTHER -> MarkDeprovisionFailed(r)

----------------------------------------------------------------------------
Init ==
    /\ row = [d \in Domains |-> [NewRow(None) EXCEPT !.state = "absent"]]
    /\ wk = [w \in Workers |-> Idle]
    /\ req = [c \in Clients |-> NoReq]
    /\ acm = [a \in CertArns |-> [st |-> "absent", d |-> None]]
    /\ attached = {}
    /\ rules = {}
    /\ ingress = None
    /\ faults = 0

(* The admin API. *)

Live(d) == row[d].state = "live"

\* The HostnameExists check is subsumed by the unique index Create relies on.
CreateCustomDomain(d, h) ==
    /\ row[d].state = "absent"
    /\ \A e \in Domains : Live(e) => row[e].host # h
    /\ row' = [row EXCEPT ![d] = NewRow(h)]
    /\ UNCHANGED <<wk, req, aws, ingress, faults>>

\* A request has loaded the row and goes on to its DNS lookup or its UPDATE.
Pend(c, kind, d, to) ==
    /\ req[c] = NoReq
    /\ req' = [req EXCEPT ![c] = [kind |-> kind, d |-> d, to |-> to]]
    /\ UNCHANGED <<row, wk, aws, ingress, faults>>

\* performRetry: where a failed job resumes, computed from the loaded row.
ResumeAt(r) ==
    CASE r.cert = None -> "requesting_certificate"
      [] r.cert # None /\ ~r.val -> "waiting_for_validation_record"
      [] r.cert # None /\ r.val /\ r.issued -> "attaching_certificate"
      [] OTHER -> "waiting_for_dns"

VerifyCustomDomain(c, d) ==
    /\ Live(d)
    /\ row[d].status \notin {"verified", "active"}
    /\ Pend(c, "verify", d, None)

CheckCustomDomainRouting(c, d) ==
    /\ Live(d)
    /\ row[d].status \in {"verified", "active"}
    /\ Pend(c, "routing", d, None)

\* ActivateCustomDomain past its early returns; RetryProvisioning's guards are
\* those of the branch that retries.
ActivateCustomDomain(c, d) ==
    /\ Live(d)
    /\ row[d].status = "verified"
    /\ row[d].routing = "ready"
    /\ row[d].prov \notin InProgress \cup {"completed"}
    /\ IF row[d].prov = "failed"
       THEN Pend(c, "retry", d, ResumeAt(row[d]))
       ELSE Pend(c, "enqueue", d, None)

\* The UPDATE of a pending request.  A verification that fails leaves the columns
\* modelled here alone; a routing check always records its outcome.
FinishRequest(c) ==
    /\ req[c] # NoReq
    /\ req' = [req EXCEPT ![c] = NoReq]
    /\ LET q == req[c]
           r == row[q.d]
           Set(new) == row' = [row EXCEPT ![q.d] = IF r.state = "live" THEN new ELSE r]
       IN  \/ q.kind = "verify" /\ Set([r EXCEPT !.status = "verified"])
           \/ q.kind = "verify" /\ UNCHANGED row
           \/ /\ q.kind = "routing"
              /\ \E s \in {"ready", "failed"} : Set([r EXCEPT !.routing = s])
           \/ q.kind = "enqueue" /\ Set(EnqueueProvisioning(r))
           \/ q.kind = "retry" /\ Set(ResetProvisioningForRetry(r, q.to))
    /\ UNCHANGED <<wk, aws, ingress, faults>>

DeleteCustomDomain(d) ==
    /\ Live(d)
    /\ row' = [row EXCEPT ![d] = EnqueueDeprovisioning(@)]
    /\ UNCHANGED <<wk, req, aws, ingress, faults>>

RetryDeprovisioning(d) ==
    /\ Live(d)
    /\ row[d].prov = "deprovision_failed"
    /\ row' = [row EXCEPT ![d] = ResetDeprovisioningForRetry(@)]
    /\ UNCHANGED <<wk, req, aws, ingress, faults>>

----------------------------------------------------------------------------
(* The worker. *)

Fault == faults < MaxFaults /\ faults' = faults + 1

\* uuid.New: a token nobody holds.  Likewise AWS never issues an ARN twice.  Which
\* unused value is taken makes no difference, so the choice is fixed.
AnyOf(S) == CHOOSE x \in S : TRUE
UnusedTokens == Tokens \ ({row[d].lease : d \in Domains} \cup {wk[w].lease : w \in Workers})
UnusedCerts ==
    {a \in CertArns : /\ acm[a].st = "absent"
                      /\ \A d \in Domains : row[d].cert # a
                      /\ \A w \in Workers : wk[w].cert # a /\ wk[w].got # a}
UnusedRules ==
    {a \in RuleArns : /\ \A x \in rules : x.arn # a
                      /\ \A d \in Domains : row[d].rule # a
                      /\ \A w \in Workers : wk[w].rule # a /\ wk[w].got # a}

\* The handler goes on to its next call, or has decided on the UPDATE to issue.
At(j, pc) == [j EXCEPT !.pc = pc]
Decided(j, op, got) == [j EXCEPT !.pc = "write", !.op = op, !.got = got]

\* Mutant: deprovisioning forgets the listener rule.
Dispatch_SkipsRule(j) ==
    CASE j.prov = "requesting_certificate" /\ j.cert = None -> At(j, "request")
      [] j.prov = "requesting_certificate" /\ j.cert # None -> Decided(j, "advance", j.cert)
      [] j.prov = "deprovisioning" /\ j.cert # None -> At(j, "detach")
      [] j.prov = "deprovisioning" /\ j.cert = None -> Decided(j, "deprovisioned", None)
      [] OTHER -> At(j, "describe")

\* The handler ProcessNextJob dispatches to, up to its first external call.  A
\* certificate ARN is always recorded once requesting_certificate is left (see
\* CertificateRecorded), so the "missing ARN" returns of the handlers are dead.
Dispatch(j) ==
    CASE j.prov = "requesting_certificate" /\ j.cert = None -> At(j, "request")
      [] j.prov = "requesting_certificate" /\ j.cert # None ->
            Decided(j, "advance", j.cert)
      [] j.prov = "deprovisioning" /\ j.rule # None -> At(j, "deleteRule")
      [] j.prov = "deprovisioning" /\ j.rule = None /\ j.cert # None -> At(j, "detach")
      [] j.prov = "deprovisioning" /\ j.rule = None /\ j.cert = None ->
            Decided(j, "deprovisioned", None)
      [] OTHER -> At(j, "describe")

\* Mutant: an expired lock is never taken over.
ClaimNextProvisioningJob_NoTakeover(w, d) ==
    /\ wk[w].pc = "idle"
    /\ Live(d)
    /\ row[d].prov \in InProgress \cup {"deprovisioning"}
    /\ row[d].due
    /\ row[d].lease = None
    /\ UnusedTokens # {}
    /\ LET t == AnyOf(UnusedTokens) IN
          /\ row' = [row EXCEPT ![d].lease = t]
          /\ wk' = [wk EXCEPT ![w] =
                Dispatch([Idle EXCEPT !.d = d, !.lease = t, !.prov = row[d].prov,
                                      !.host = row[d].host, !.cert = row[d].cert,
                                      !.rule = row[d].rule, !.attempts = row[d].attempts])]
    /\ UNCHANGED <<req, aws, ingress, faults>>

ClaimNextProvisioningJob(w, d) ==
    /\ wk[w].pc = "idle"
    /\ Live(d)
    /\ row[d].prov \in InProgress \cup {"deprovisioning"}
    /\ row[d].due
    /\ row[d].lease = None \/ row[d].expired
    /\ UnusedTokens # {}
    /\ LET t == AnyOf(UnusedTokens) IN
          /\ row' = [row EXCEPT ![d].lease = t, ![d].expired = FALSE]
          /\ wk' = [wk EXCEPT ![w] =
                Dispatch([Idle EXCEPT !.d = d, !.lease = t, !.prov = row[d].prov,
                                      !.host = row[d].host, !.cert = row[d].cert,
                                      !.rule = row[d].rule, !.attempts = row[d].attempts])]
    /\ UNCHANGED <<req, aws, ingress, faults>>

Decide(w, op) == wk' = [wk EXCEPT ![w] = Decided(wk[w], op, None)]

\* A call took effect: the handler goes on, or the answer was lost and the
\* timeout is classified as a transient error.
Goes(w, next) ==
    \/ wk' = [wk EXCEPT ![w] = next] /\ UNCHANGED faults
    \/ Decide(w, "retry") /\ Fault

\* Mutant: cleanup errors are logged and ignored.
AwsError_Ignored(w) ==
    /\ wk[w].pc \in AwsSteps
    /\ Fault
    /\ Decide(w, IF wk[w].prov = "deprovisioning" THEN "deprovisioned" ELSE "retry")
    /\ UNCHANGED <<row, req, aws, ingress>>

\* A call failed without effect: ClassifyAWSError says transient or terminal.
AwsError(w) ==
    /\ wk[w].pc \in AwsSteps
    /\ Fault
    /\ \/ Decide(w, "retry")
       \/ Decide(w, IF wk[w].prov = "deprovisioning" THEN "deprovision_failed" ELSE "fail")
    /\ UNCHANGED <<row, req, aws, ingress>>

\* RequestCertificate with the token derived from the row id: a certificate the
\* token already produced is returned again, until ACM forgets the token.
RequestCertificate(w) ==
    /\ wk[w].pc = "request"
    /\ \/ \E a \in CertArns :
             /\ acm[a].st # "absent" /\ acm[a].d = wk[w].d
             /\ Goes(w, Decided(wk[w], "advance", a))
             /\ UNCHANGED acm
       \/ LET a == AnyOf(UnusedCerts) IN
             /\ UnusedCerts # {}
             /\ acm' = [acm EXCEPT ![a] = [st |-> "REQUESTED", d |-> wk[w].d]]
             /\ \/ /\ \A b \in CertArns : acm[b].st # "absent" => acm[b].d # wk[w].d
                   /\ Goes(w, Decided(wk[w], "advance", a))
                \/ /\ \E b \in CertArns : acm[b].st # "absent" /\ acm[b].d = wk[w].d
                   /\ Fault
                   /\ wk' = [wk EXCEPT ![w] = Decided(wk[w], "advance", a)]
    /\ UNCHANGED <<row, req, attached, rules, ingress>>

\* DescribeCertificate and what the three handlers that poll make of its answer.  A
\* deleted certificate is a terminal "not found".  A status the switch does not list
\* counts as a fault.
handleWaitingForValidationRecord(w) ==
    /\ wk[w].pc = "describe" /\ wk[w].prov = "waiting_for_validation_record"
    /\ LET st == acm[wk[w].cert].st
       IN  \/ st \in {"absent", "FAILED"} /\ Decide(w, "fail")
           \/ st = "REQUESTED" /\ Decide(w, "poll")
           \/ st \in {"PENDING_VALIDATION", "ISSUED", "EXPIRED"} /\ Decide(w, "advance")
    /\ UNCHANGED <<row, req, aws, ingress, faults>>

handleWaitingForDNS(w) ==
    /\ wk[w].pc = "describe" /\ wk[w].prov = "waiting_for_dns"
    /\ LET st == acm[wk[w].cert].st
       IN  \/ st \in {"absent", "FAILED", "EXPIRED"} /\ Decide(w, "fail") /\ UNCHANGED faults
           \/ /\ st \in {"REQUESTED", "PENDING_VALIDATION"}
              /\ Decide(w, "poll") /\ UNCHANGED faults
           \/ st = "ISSUED" /\ Decide(w, "advance") /\ UNCHANGED faults
           \/ /\ st # "absent" /\ Fault
              /\ Decide(w, IF wk[w].attempts >= MaxAttempts THEN "fail" ELSE "retry")
    /\ UNCHANGED <<row, req, aws, ingress>>

ReverifyCertificate(w) ==
    /\ wk[w].pc = "describe" /\ wk[w].prov = "attaching_certificate"
    /\ LET st == acm[wk[w].cert].st
       IN  \/ st \in {"absent", "FAILED", "EXPIRED"} /\ Decide(w, "fail") /\ UNCHANGED faults
           \/ /\ st \in {"REQUESTED", "PENDING_VALIDATION"}
              /\ Decide(w, "poll") /\ UNCHANGED faults
           \/ /\ st = "ISSUED"
              /\ wk' = [wk EXCEPT ![w] = At(wk[w], "attach")] /\ UNCHANGED faults
           \/ st # "absent" /\ Fault /\ Decide(w, "retry")
    /\ UNCHANGED <<row, req, aws, ingress>>

\* Mutant: the answer of the listener is not looked at.
AttachCertificateToListener_Unchecked(w) ==
    /\ wk[w].pc = "attach"
    /\ \E A \in {attached, attached \cup {wk[w].cert}} : attached' = A
    /\ Goes(w, At(wk[w], "resolve"))
    /\ UNCHANGED <<row, req, acm, rules, ingress>>

AttachCertificateToListener(w) ==
    /\ wk[w].pc = "attach"
    /\ IF acm[wk[w].cert].st = "absent"
       THEN Decide(w, "retry") /\ UNCHANGED <<attached, faults>>
       ELSE /\ attached' = attached \cup {wk[w].cert}
            /\ Goes(w, At(wk[w], "resolve"))
    /\ UNCHANGED <<row, req, acm, rules, ingress>>

\* The read of the gateways table between two AWS calls: no ready gateway and a
\* failing query are both retried.
GetActiveProjectGatewayIngress(w) ==
    /\ wk[w].pc = "resolve"
    /\ \/ ingress = None /\ Decide(w, "retry") /\ UNCHANGED faults
       \/ /\ ingress # None
          /\ Goes(w, [wk[w] EXCEPT !.pc = "ensure", !.tg = ingress])
    /\ UNCHANGED <<row, req, aws, ingress>>

\* EnsureHostRule: reuse the host's rule, refuse one for another target group, or
\* create one.
EnsureHostRule(w) ==
    /\ wk[w].pc = "ensure"
    /\ \/ \E x \in rules :
             /\ x.host = wk[w].host
             /\ IF x.tg = wk[w].tg
                THEN Goes(w, Decided(wk[w], "complete", x.arn))
                ELSE Decide(w, "fail") /\ UNCHANGED faults
             /\ UNCHANGED rules
       \/ /\ \A x \in rules : x.host # wk[w].host
          /\ UnusedRules # {}
          /\ LET a == AnyOf(UnusedRules) IN
                /\ rules' = rules \cup {[arn |-> a, host |-> wk[w].host, tg |-> wk[w].tg]}
                /\ Goes(w, Decided(wk[w], "complete", a))
    /\ UNCHANGED <<row, req, acm, attached, ingress>>

\* Mutant: the certificate is not detached before it is deleted.
DeleteHostRule_NoDetach(w) ==
    /\ wk[w].pc = "deleteRule"
    /\ rules' = {x \in rules : x.arn # wk[w].rule}
    /\ Goes(w, IF wk[w].cert # None
               THEN At(wk[w], "deleteCert")
               ELSE Decided(wk[w], "deprovisioned", None))
    /\ UNCHANGED <<row, req, acm, attached, ingress>>

DeleteHostRule(w) ==
    /\ wk[w].pc = "deleteRule"
    /\ rules' = {x \in rules : x.arn # wk[w].rule}
    /\ Goes(w, IF wk[w].cert # None
               THEN At(wk[w], "detach")
               ELSE Decided(wk[w], "deprovisioned", None))
    /\ UNCHANGED <<row, req, acm, attached, ingress>>

DetachCertificateFromListener(w) ==
    /\ wk[w].pc = "detach"
    /\ attached' = attached \ {wk[w].cert}
    /\ Goes(w, At(wk[w], "deleteCert"))
    /\ UNCHANGED <<row, req, acm, rules, ingress>>

\* ACM refuses to delete a certificate that is in use; the worker retries.
DeleteCertificate(w) ==
    /\ wk[w].pc = "deleteCert"
    /\ IF wk[w].cert \in attached
       THEN Decide(w, "retry") /\ UNCHANGED <<acm, faults>>
       ELSE /\ acm' = [acm EXCEPT ![wk[w].cert].st = "absent"]
            /\ Goes(w, Decided(wk[w], "deprovisioned", None))
    /\ UNCHANGED <<row, req, attached, rules, ingress>>

\* The UPDATE that ends every handler: no row matches when the lease is stale.
Write(w) ==
    /\ wk[w].pc = "write"
    /\ LET j == wk[w]
       IN  row' = [row EXCEPT ![j.d] = IF LeaseHeld(@, j) THEN WriteBack(@, j) ELSE @]
    /\ wk' = [wk EXCEPT ![w] = Idle]
    /\ UNCHANGED <<req, aws, ingress, faults>>

\* The process dies, or the UPDATE itself fails: the lease stays until it expires.
Crash(w) ==
    /\ wk[w].pc # "idle"
    /\ Fault
    /\ wk' = [wk EXCEPT ![w] = Idle]
    /\ UNCHANGED <<row, req, aws, ingress>>

----------------------------------------------------------------------------
(* Time and the outside world. *)

\* Five minutes pass with the lease held.  It is a fault of its own only when the
\* holder is still at work.
LeaseExpires(d) ==
    /\ row[d].lease # None
    /\ ~row[d].expired
    /\ IF \E w \in Workers : wk[w].lease = row[d].lease THEN Fault ELSE UNCHANGED faults
    /\ row' = [row EXCEPT ![d].expired = TRUE]
    /\ UNCHANGED <<wk, req, aws, ingress>>

RetryTimeComes(d) ==
    /\ ~row[d].due
    /\ row' = [row EXCEPT ![d].due = TRUE]
    /\ UNCHANGED <<wk, req, aws, ingress, faults>>

\* ACM publishes the validation record, issues, gives up or invalidates.
AcmProgress(a) ==
    /\ \E to \in CASE acm[a].st = "REQUESTED" -> {"PENDING_VALIDATION", "FAILED"}
                   [] acm[a].st = "PENDING_VALIDATION" -> {"ISSUED", "FAILED", "EXPIRED"}
                   [] acm[a].st = "ISSUED" -> {"EXPIRED"}
                   [] OTHER -> {} :
          acm' = [acm EXCEPT ![a].st = to]
    /\ UNCHANGED <<row, wk, req, attached, rules, ingress, faults>>

\* A gateway of the project becomes ready, is replaced or goes away.
IngressChanges(g) ==
    /\ g # ingress
    /\ ingress' = g
    /\ UNCHANGED <<row, wk, req, aws, faults>>

ApiStep ==
    \/ \E d \in Domains, h \in Hosts : CreateCustomDomain(d, h)
    \/ \E d \in Domains : DeleteCustomDomain(d) \/ RetryDeprovisioning(d)
    \/ \E c \in Clients, d \in Domains :
          \/ VerifyCustomDomain(c, d) \/ CheckCustomDomainRouting(c, d)
          \/ ActivateCustomDomain(c, d)
    \/ \E c \in Clients : FinishRequest(c)

HandlerStep(w) ==
    \/ RequestCertificate(w) \/ handleWaitingForValidationRecord(w)
    \/ handleWaitingForDNS(w) \/ ReverifyCertificate(w)
    \/ AttachCertificateToListener(w) \/ GetActiveProjectGatewayIngress(w)
    \/ EnsureHostRule(w) \/ DeleteHostRule(w) \/ DetachCertificateFromListener(w)
    \/ DeleteCertificate(w) \/ Write(w) \/ AwsError(w) \/ Crash(w)

WorkerStep == \E w \in Workers :
    HandlerStep(w) \/ \E d \in Domains : ClaimNextProvisioningJob(w, d)

EnvStep ==
    \/ \E d \in Domains : LeaseExpires(d) \/ RetryTimeComes(d)
    \/ \E a \in CertArns : AcmProgress(a)
    \/ \E g \in TargetGroups \cup {None} : IngressChanges(g)

Next == ApiStep \/ WorkerStep \/ EnvStep

Spec == Init /\ [][Next]_vars

\* Workers poll for ever (the 5 s ticker of cmd/worker/main.go) and finish what
\* they start, retry times and orphaned leases run out, and ACM settles every
\* request (it gives up after 72 hours).  Nothing is assumed of API callers or of
\* the gateway.
WorkerProgress(w) ==
    /\ \/ RequestCertificate(w) \/ handleWaitingForValidationRecord(w)
       \/ handleWaitingForDNS(w) \/ ReverifyCertificate(w)
       \/ AttachCertificateToListener(w) \/ GetActiveProjectGatewayIngress(w)
       \/ EnsureHostRule(w) \/ DeleteHostRule(w) \/ DetachCertificateFromListener(w)
       \/ DeleteCertificate(w) \/ Write(w)

Fairness ==
    /\ \A w \in Workers : WF_vars(WorkerProgress(w))
    /\ \A d \in Domains :
          /\ WF_vars(\E w \in Workers : ClaimNextProvisioningJob(w, d))
          /\ WF_vars(RetryTimeComes(d))
          /\ WF_vars((\A w \in Workers : wk[w].lease # row[d].lease) /\ LeaseExpires(d))
    /\ \A a \in CertArns :
          WF_vars(acm[a].st \in {"REQUESTED", "PENDING_VALIDATION"} /\ AcmProgress(a))

FairSpec == Spec /\ Fairness

----------------------------------------------------------------------------
(* Properties. *)

TypeOK ==
    /\ row \in [Domains -> Row]
    /\ wk \in [Workers -> Job]
    /\ req \in [Clients -> Request \cup {NoReq}]
    /\ acm \in [CertArns -> [st: {"absent", "REQUESTED", "PENDING_VALIDATION", "ISSUED",
                                  "FAILED", "EXPIRED"}, d: Domains \cup {None}]]
    /\ attached \subseteq CertArns
    /\ rules \subseteq [arn: RuleArns, host: Hosts, tg: TargetGroups]
    /\ ingress \in TargetGroups \cup {None}
    /\ faults \in 0 .. MaxFaults

\* A worker whose lease is still the row's lease acts on a snapshot that is still
\* true: no request, other worker or reset changed the row under it without
\* taking the lease away.
SnapshotCurrent ==
    \A w \in Workers : \A d \in Domains :
        wk[w].pc # "idle" /\ wk[w].d = d /\ row[d].lease = wk[w].lease =>
            /\ row[d].state = "live" /\ row[d].prov = wk[w].prov
            /\ row[d].cert = wk[w].cert /\ row[d].rule = wk[w].rule

\* The handlers past requesting_certificate never find the certificate ARN
\* missing: the row records it in the same UPDATE that leaves that state.
CertificateRecorded ==
    \A d \in Domains :
        row[d].prov \in (InProgress \ {"requesting_certificate"}) \cup {"completed"} =>
            row[d].cert # None

\* A domain shown as completed is really served: its certificate exists and is
\* attached to the listener, and its rule is on the listener for its hostname,
\* whatever stale workers of this or of an earlier row of the hostname still do.
CompletedIsServed ==
    \A d \in Domains : row[d].prov = "completed" =>
        /\ acm[row[d].cert].st # "absent"
        /\ row[d].cert \in attached
        /\ \E x \in rules : x.arn = row[d].rule /\ x.host = row[d].host

\* When a domain is soft-deleted, nothing it recorded is left in AWS, although
\* every deleting call may be repeated, lost or raced by another worker.
RecordedResourcesReleased ==
    \A d \in Domains : row[d].state = "deleted" =>
        /\ row[d].cert # None => acm[row[d].cert].st = "absent" /\ row[d].cert \notin attached
        /\ \A x \in rules : x.arn # row[d].rule

\* Deletion wins every race: once deprovisioning is queued no worker that still
\* holds an older job brings the domain back.
DeletionIsFinal ==
    [][\A d \in Domains : row[d].prov \in Removal => row'[d].prov \in Removal]_vars

\* A deletion comes to an end: the row is soft-deleted, or the failure is recorded
\* for RetryDeprovisioning.
DeprovisioningEnds ==
    \A d \in Domains :
        (row[d].prov = "deprovisioning") ~> (row[d].prov # "deprovisioning")

\* No phase of provisioning lasts: the certificate of an activated domain is issued or
\* refused in the end, and attaching it waits for nothing but a ready gateway of the
\* project, although workers crash with the lease in their hands.
ProvisioningEnds ==
    \A d \in Domains :
        /\ (row[d].prov \in InProgress \ {"attaching_certificate"}) ~>
               (row[d].prov \in Removal \cup {"attaching_certificate", "failed"})
        /\ <>[](ingress # None) =>
               (row[d].prov = "attaching_certificate") ~>
                   (row[d].prov \in Removal \cup {"completed", "failed"})

\* No two rows record the same certificate or the same listener rule.
ResourcesNotShared ==
    \A d, e \in Domains : d # e =>
        /\ row[d].cert # None => row[d].cert # row[e].cert
        /\ row[d].rule # None => row[d].rule # row[e].rule

----------------------------------------------------------------------------
(* What the documentation says of the code, where the code does otherwise. *)

\* "Make verification idempotent. Calling the endpoint again after a successful
\* verification returns the existing domain": so no verification takes an active
\* domain out of service.  VerifyCustomDomain reads the status before the DNS
\* lookup and MarkVerified does not look at it again.
VerificationKeepsActive ==
    [][\A d \in Domains : row[d].status = "active" => row'[d].status = "active"]_vars

\* "DeleteCustomDomain initiates asynchronous custom domain deprovisioning and
\* cleanup": so once the row is soft-deleted and no worker is busy with it, none
\* of its certificates is left in ACM.
NothingLeftBehind ==
    \A d \in Domains :
        row[d].state = "deleted" /\ (\A w \in Workers : wk[w].d # d) =>
            \A a \in CertArns : acm[a].d = d => acm[a].st = "absent"

\* "RetryProvisioning safely restarts custom domain provisioning after a terminal
\* or transient failure": so a retried job does not resume with a certificate that
\* ACM has given up for good.
RetryResumesAlive ==
    [][\A d \in Domains :
          row[d].prov = "failed" /\ row'[d].prov \in InProgress /\ row[d].cert # None =>
              acm[row[d].cert].st \notin {"FAILED", "EXPIRED"}]_vars

\* What DeleteCustomDomain answers: the UPDATE and the lookup after it both look
\* for a row that is not soft-deleted.
DeleteAnswer(r) == IF r.state = "live" THEN "accepted" ELSE "not_found"

\* "If the domain is already deprovisioned or soft-deleted, it idempotently returns
\* success."
DeleteIsIdempotent ==
    \A d \in Domains : row[d].state = "deleted" => DeleteAnswer(row[d]) = "accepted"

=============================================================================
