------------------------ MODULE CustomDomainsProofs -------------------------
(***************************************************************************)
(* Proofs about CustomDomains, for any number of domains, hostnames,       *)
(* workers and concurrent requests and any number of faults.               *)
(*                                                                         *)
(* The invariant comes in layers.  RowInv speaks of rows and requests      *)
(* alone.  JobInv says what a worker's job still guarantees about the row  *)
(* it was claimed from, with and without the lease.  RowAws and            *)
(* WorkerAws tie the rows and the jobs to the certificates and rules that  *)
(* exist.                                                                  *)
(***************************************************************************)
EXTENDS CustomDomains, TLAPS

Busy(w) == wk[w].pc # "idle"

\* The worker holds the lease of the row it works on.
Holds(w) == Busy(w) /\ row[wk[w].d].lease = wk[w].lease

\* Rows and requests.
RowInv ==
    /\ \A d \in Domains :
          /\ row[d].state # "live" => row[d].lease = None
          /\ row[d].state = "absent" => /\ row[d].prov = "not_started"
                                        /\ row[d].cert = None /\ row[d].rule = None
          /\ row[d].state = "deleted" => row[d].prov = "deprovisioned"
          /\ row[d].state # "absent" => row[d].host # None
    /\ \A d, e \in Domains :
          row[d].state = "live" /\ row[e].state = "live" /\ row[d].host = row[e].host => d = e
    /\ \A c \in Clients : req[c] # NoReq =>
          /\ row[req[c].d].state # "absent"
          /\ req[c].kind = "retry" => req[c].to \in InProgress
          /\ req[c].kind = "retry" /\ req[c].to # "requesting_certificate" =>
                row[req[c].d].cert # None
    /\ CertificateRecorded

\* Where in which handler a busy worker can be.
PcInv(j) ==
    /\ j.d \in Domains /\ j.lease \in Tokens
    /\ j.prov \in InProgress \cup {"deprovisioning"}
    /\ j.pc = "request" => j.prov = "requesting_certificate" /\ j.cert = None
    /\ j.pc = "describe" => j.prov \in InProgress \ {"requesting_certificate"}
    /\ j.pc \in {"attach", "resolve", "ensure"} => j.prov = "attaching_certificate"
    /\ j.pc = "ensure" => j.tg # None
    /\ j.pc \in {"deleteRule", "detach", "deleteCert"} => j.prov = "deprovisioning"
    /\ j.pc = "deleteRule" => j.rule # None
    /\ j.pc \in {"describe", "attach", "resolve", "ensure", "detach", "deleteCert"} =>
          j.cert # None
    /\ j.pc = "write" =>
          /\ j.op \in Ops
          /\ j.op = "advance" => j.prov \in InProgress \ {"attaching_certificate"}
          /\ j.op = "advance" /\ j.prov = "requesting_certificate" => j.got \in CertArns
          /\ j.op = "complete" => j.prov = "attaching_certificate" /\ j.got \in RuleArns
          /\ j.op \in {"fail", "poll"} => j.prov \in InProgress
          /\ j.op \in {"deprovisioned", "deprovision_failed"} => j.prov = "deprovisioning"

\* Jobs and the rows they were claimed from.
JobInv ==
    /\ \A w \in Workers : Busy(w) =>
          /\ PcInv(wk[w])
          /\ row[wk[w].d].state # "absent" /\ row[wk[w].d].host = wk[w].host
          /\ wk[w].prov = "deprovisioning" =>
                /\ row[wk[w].d].prov \in Removal
                /\ row[wk[w].d].cert = wk[w].cert /\ row[wk[w].d].rule = wk[w].rule
    /\ \A v, w \in Workers : Busy(v) /\ Busy(w) /\ wk[v].lease = wk[w].lease => v = w
    /\ \A w \in Workers, d \in Domains :
          Busy(w) /\ row[d].lease = wk[w].lease => wk[w].d = d
    /\ SnapshotCurrent

\* What a busy worker's job knows of the certificates m and the rules R, with or
\* without the lease: nobody can undo a deletion.
JobAws(j, m, R) ==
    /\ j.cert # None => m[j.cert].d = j.d
    /\ j.got \in CertArns => m[j.got].d = j.d
    /\ j.pc \in {"detach", "deleteCert"} => \A x \in R : x.arn # j.rule
    /\ j.pc = "write" /\ j.op = "deprovisioned" =>
          /\ \A x \in R : x.arn # j.rule
          /\ j.cert # None => m[j.cert].st = "absent"

\* What it knows of the attached certificates A and the rules R as long as it
\* holds the lease: nobody else can take them away.
HeldAws(j, A, R) ==
    /\ j.pc \in {"resolve", "ensure"} => j.cert \in A
    /\ j.pc = "write" /\ j.op = "complete" =>
          j.cert \in A /\ \E x \in R : x.arn = j.got /\ x.host = j.host

\* What the rows record is what exists.
RowAws ==
    /\ \A a \in attached : acm[a].st # "absent"
    /\ \A x, y \in rules : x.arn = y.arn => x = y
    /\ \A d \in Domains :
          /\ row[d].cert # None => acm[row[d].cert].d = d
          /\ \A x \in rules : x.arn = row[d].rule => x.host = row[d].host
          /\ row[d].state = "deleted" =>
                /\ \A x \in rules : x.arn # row[d].rule
                /\ row[d].cert # None => acm[row[d].cert].st = "absent"
    /\ \A d, e \in Domains : row[d].rule # None /\ row[d].rule = row[e].rule => d = e
    /\ CompletedIsServed

WorkerAws ==
    /\ \A w \in Workers : Busy(w) => JobAws(wk[w], acm, rules)
    /\ \A w \in Workers : Holds(w) => HeldAws(wk[w], attached, rules)

IInv == TypeOK /\ RowInv /\ JobInv /\ RowAws /\ WorkerAws

----------------------------------------------------------------------------
(* What the UPDATE statements do to the columns the invariant looks at. *)

\* n records what r records.
Kept(r, n) ==
    /\ n \in Row
    /\ n.state = r.state /\ n.host = r.host /\ n.cert = r.cert /\ n.rule = r.rule

\* The statuses the UPDATEs write are provisioning statuses.
LEMMA StatusNames ==
    /\ InProgress \subseteq Provs /\ Removal \subseteq Provs
    /\ "failed" \in Provs /\ "completed" \in Provs
    /\ "requesting_certificate" \in Provs /\ "deprovisioning" \in Provs
    /\ "deprovisioned" \in Provs /\ "deprovision_failed" \in Provs
BY Zenon DEF Provs, InProgress, Removal

\* The attempt counter stays in its range when it is reset or bumped.
LEMMA Counters ==
    /\ 0 \in 0 .. MaxAttempts /\ TRUE \in BOOLEAN /\ FALSE \in BOOLEAN
    /\ \A n \in 0 .. MaxAttempts : Bump(n) \in 0 .. MaxAttempts
BY BoundAssumption DEF Bump

\* Requeueing a job keeps what the row records and clears its lease.
LEMMA RequeueFields ==
    ASSUME NEW r \in Row, NEW p \in Provs, NEW n \in 0 .. MaxAttempts, NEW b \in BOOLEAN
    PROVE  /\ Kept(r, Requeue(r, p, n, b))
           /\ Requeue(r, p, n, b).lease = None /\ Requeue(r, p, n, b).prov = p
<1>1. Requeue(r, p, n, b) \in Row
  BY Zenon DEF Requeue, Row
<1>2. /\ Requeue(r, p, n, b).state = r.state /\ Requeue(r, p, n, b).host = r.host
      /\ Requeue(r, p, n, b).cert = r.cert /\ Requeue(r, p, n, b).rule = r.rule
      /\ Requeue(r, p, n, b).lease = None /\ Requeue(r, p, n, b).prov = p
  BY Zenon DEF Requeue, Row
<1>. QED
  BY Zenon, <1>1, <1>2 DEF Kept

\* The same for the two literal values of due.
LEMMA RequeueNow ==
    ASSUME NEW r \in Row, NEW p \in Provs, NEW n \in 0 .. MaxAttempts
    PROVE  /\ Kept(r, Requeue(r, p, n, TRUE)) /\ Kept(r, Requeue(r, p, n, FALSE))
           /\ Requeue(r, p, n, TRUE).lease = None /\ Requeue(r, p, n, TRUE).prov = p
           /\ Requeue(r, p, n, FALSE).lease = None /\ Requeue(r, p, n, FALSE).prov = p
<1>1. TRUE \in BOOLEAN /\ FALSE \in BOOLEAN
  BY Zenon
<1>2. /\ Kept(r, Requeue(r, p, n, TRUE)) 
      /\ Requeue(r, p, n, TRUE).lease = None /\ Requeue(r, p, n, TRUE).prov = p
  BY <1>1, RequeueFields, Zenon
<1>3. /\ Kept(r, Requeue(r, p, n, FALSE)) 
      /\ Requeue(r, p, n, FALSE).lease = None /\ Requeue(r, p, n, FALSE).prov = p
  BY <1>1, RequeueFields, Zenon
<1>. QED
  BY <1>2, <1>3, Zenon

\* The columns a requeueing UPDATE copies have their types.
LEMMA ColumnTypes ==
    ASSUME NEW r \in Row
    PROVE  /\ r.prov \in Provs /\ r.attempts \in 0 .. MaxAttempts /\ r.due \in BOOLEAN
           /\ Bump(r.attempts) \in 0 .. MaxAttempts
BY Zenon, Counters DEF Row

\* What each requeueing UPDATE of the repository leaves in the row.
LEMMA WriteFields ==
    ASSUME NEW r \in Row, NEW to \in InProgress
    PROVE  /\ Kept(r, ScheduleProvisioningPoll(r))
           /\ ScheduleProvisioningPoll(r).lease = None
           /\ ScheduleProvisioningPoll(r).prov = r.prov
           /\ Kept(r, ScheduleProvisioningRetry(r))
           /\ ScheduleProvisioningRetry(r).lease = None
           /\ ScheduleProvisioningRetry(r).prov = r.prov
           /\ Kept(r, MarkProvisioningFailed(r))
           /\ MarkProvisioningFailed(r).lease = None
           /\ MarkProvisioningFailed(r).prov = "failed"
           /\ Kept(r, MarkDeprovisionFailed(r))
           /\ MarkDeprovisionFailed(r).lease = None
           /\ MarkDeprovisionFailed(r).prov = "deprovision_failed"
           /\ Kept(r, ResetDeprovisioningForRetry(r))
           /\ ResetDeprovisioningForRetry(r).lease = None
           /\ ResetDeprovisioningForRetry(r).prov = "deprovisioning"
           /\ \/ EnqueueDeprovisioning(r) = r
              \/ /\ Kept(r, EnqueueDeprovisioning(r))
                 /\ EnqueueDeprovisioning(r).lease = None
                 /\ EnqueueDeprovisioning(r).prov = "deprovisioning"
                 /\ r.prov # "deprovisioned"
           /\ \/ EnqueueProvisioning(r) = r
              \/ /\ Kept(r, EnqueueProvisioning(r))
                 /\ EnqueueProvisioning(r).lease = None
                 /\ EnqueueProvisioning(r).prov = "requesting_certificate"
                 /\ r.prov \in {"not_started", "failed"}
           /\ \/ ResetProvisioningForRetry(r, to) = r
              \/ /\ Kept(r, ResetProvisioningForRetry(r, to))
                 /\ ResetProvisioningForRetry(r, to).lease = None
                 /\ ResetProvisioningForRetry(r, to).prov = to
                 /\ r.prov = "failed"
<1>1. r.prov \in Provs
  BY Zenon, ColumnTypes
<1>2. r.attempts \in 0 .. MaxAttempts
  BY Zenon, ColumnTypes
<1>3. Bump(r.attempts) \in 0 .. MaxAttempts
  BY Zenon, ColumnTypes
<1>4. "failed" \in Provs
  BY Zenon, StatusNames
<1>5. "deprovision_failed" \in Provs
  BY Zenon, StatusNames
<1>6. r.due \in BOOLEAN
  BY Zenon, ColumnTypes
<1>7. "deprovisioning" \in Provs
  BY Zenon, StatusNames
<1>8. 0 \in 0 .. MaxAttempts
  BY Zenon, Counters
<1>9. "requesting_certificate" \in Provs
  BY Zenon, StatusNames
<1>10. to \in Provs
  BY Zenon, StatusNames
<1>11. /\ Kept(r, ScheduleProvisioningPoll(r))
      /\ ScheduleProvisioningPoll(r).lease = None
      /\ ScheduleProvisioningPoll(r).prov = r.prov
  BY <1>1, <1>2, RequeueNow, Zenon DEF ScheduleProvisioningPoll
<1>12. /\ Kept(r, ScheduleProvisioningRetry(r))
      /\ ScheduleProvisioningRetry(r).lease = None
      /\ ScheduleProvisioningRetry(r).prov = r.prov
  BY <1>1, <1>3, RequeueNow, Zenon DEF ScheduleProvisioningRetry
<1>13. /\ Kept(r, MarkProvisioningFailed(r))
      /\ MarkProvisioningFailed(r).lease = None
      /\ MarkProvisioningFailed(r).prov = "failed"
  BY <1>4, <1>3, RequeueNow, Zenon DEF MarkProvisioningFailed
<1>14. /\ Kept(r, MarkDeprovisionFailed(r))
      /\ MarkDeprovisionFailed(r).lease = None
      /\ MarkDeprovisionFailed(r).prov = "deprovision_failed"
  BY <1>5, <1>2, <1>6, RequeueFields, ZenonT(40) DEF MarkDeprovisionFailed
<1>15. /\ Kept(r, ResetDeprovisioningForRetry(r))
      /\ ResetDeprovisioningForRetry(r).lease = None
      /\ ResetDeprovisioningForRetry(r).prov = "deprovisioning"
  BY <1>7, <1>8, RequeueNow, Zenon DEF ResetDeprovisioningForRetry
<1>16. \/ EnqueueDeprovisioning(r) = r
      \/ /\ Kept(r, EnqueueDeprovisioning(r))
         /\ EnqueueDeprovisioning(r).lease = None
         /\ EnqueueDeprovisioning(r).prov = "deprovisioning"
         /\ r.prov # "deprovisioned"
  BY <1>7, <1>2, RequeueNow, Zenon DEF EnqueueDeprovisioning
<1>17. \/ EnqueueProvisioning(r) = r
      \/ /\ Kept(r, EnqueueProvisioning(r))
         /\ EnqueueProvisioning(r).lease = None
         /\ EnqueueProvisioning(r).prov = "requesting_certificate"
         /\ r.prov \in {"not_started", "failed"}
  BY <1>9, <1>8, RequeueNow, Zenon DEF EnqueueProvisioning
<1>18. \/ ResetProvisioningForRetry(r, to) = r
      \/ /\ Kept(r, ResetProvisioningForRetry(r, to))
         /\ ResetProvisioningForRetry(r, to).lease = None
         /\ ResetProvisioningForRetry(r, to).prov = to
         /\ r.prov = "failed"
  BY <1>10, <1>8, RequeueNow, Zenon DEF ResetProvisioningForRetry
<1>. QED
  BY Zenon, <1>11, <1>12, <1>13, <1>14, <1>15, <1>16, <1>17, <1>18

SetColumns(u, c, v, i) == [u EXCEPT !.cert = c, !.val = v, !.issued = i]

\* Setting the certificate columns changes nothing else.
LEMMA SetColumnsFields ==
    ASSUME NEW u \in Row, NEW c \in CertArns \cup {None}, NEW v \in BOOLEAN, NEW i \in BOOLEAN
    PROVE  /\ SetColumns(u, c, v, i) \in Row
           /\ SetColumns(u, c, v, i).state = u.state /\ SetColumns(u, c, v, i).host = u.host
           /\ SetColumns(u, c, v, i).rule = u.rule /\ SetColumns(u, c, v, i).lease = u.lease
           /\ SetColumns(u, c, v, i).prov = u.prov /\ SetColumns(u, c, v, i).cert = c
BY ZenonT(60) DEF SetColumns, Row

\* AdvanceProvisioningState moves an in-progress row to the next state, records a
\* certificate only when it leaves requesting_certificate, and clears the lease.
LEMMA AdvanceFields ==
    ASSUME NEW r \in Row, NEW j \in Job,
           j.prov \in InProgress \ {"attaching_certificate"},
           j.prov = "requesting_certificate" => j.got \in CertArns
    PROVE  LET n == AdvanceProvisioningState(r, j)
           IN  /\ n \in Row /\ n.state = r.state /\ n.host = r.host /\ n.rule = r.rule
               /\ n.lease = None
               /\ n.prov \in InProgress \ {"requesting_certificate"}
               /\ n.cert = IF j.prov = "requesting_certificate" THEN j.got ELSE r.cert
<1>. DEFINE p == CASE j.prov = "requesting_certificate" -> "waiting_for_validation_record"
                   [] j.prov = "waiting_for_validation_record" -> "waiting_for_dns"
                   [] OTHER -> "attaching_certificate"
            b == (j.prov # "waiting_for_validation_record")
            u == Requeue(r, p, r.attempts, b)
            c == IF j.prov = "requesting_certificate" THEN j.got ELSE u.cert
            v == u.val \/ j.prov = "waiting_for_validation_record"
            i == (j.prov = "waiting_for_dns")
            n == AdvanceProvisioningState(r, j)
<1>1. p \in InProgress \ {"requesting_certificate"} /\ p \in Provs
  BY Zenon DEF InProgress, Provs
<1>2. Kept(r, u) /\ u.lease = None /\ u.prov = p
  <2>1. b \in BOOLEAN
    BY Zenon
  <2>2. r.attempts \in 0 .. MaxAttempts
    BY Zenon DEF Row
  <2>3. p \in Provs
    BY Zenon, <1>1
  <2>. HIDE DEF p, b
  <2>4. CASE b = TRUE
    BY <2>2, <2>3, <2>4, RequeueNow, Zenon
  <2>5. CASE b = FALSE
    BY <2>2, <2>3, <2>5, RequeueNow, Zenon
  <2>. QED
    BY <2>1, <2>4, <2>5, Zenon
<1>3. n = [u EXCEPT !.cert = c, !.val = v, !.issued = i]
  BY Zenon DEF AdvanceProvisioningState
<1>4. v \in BOOLEAN
  BY Zenon
<1>9. i \in BOOLEAN
  BY Zenon
<1>. HIDE DEF p, b, u, n
<1>10. c = IF j.prov = "requesting_certificate" THEN j.got ELSE r.cert
  BY Zenon, <1>2 DEF Kept, Row
<1>5. c \in CertArns \cup {None}
  BY Zenon, <1>10 DEF Row
<1>. HIDE DEF c
<1>6. u \in Row
  BY Zenon, <1>2 DEF Kept
<1>7. /\ n \in Row /\ n.state = u.state /\ n.host = u.host /\ n.rule = u.rule
      /\ n.lease = u.lease /\ n.prov = u.prov /\ n.cert = c
  <2>. DEFINE m == SetColumns(u, c, v, i)
  <2>1. m \in Row
    BY <1>4, <1>9, <1>5, <1>6, SetColumnsFields, Zenon
  <2>3. /\ m.state = u.state /\ m.host = u.host /\ m.rule = u.rule
        /\ m.lease = u.lease /\ m.prov = u.prov /\ m.cert = c
    BY Zenon, <1>6 DEF SetColumns, Row
  <2>2. n = m
    BY Zenon, <1>3 DEF SetColumns
  <2>. HIDE DEF m
  <2>. QED
    BY Zenon, <2>1, <2>2, <2>3
<1>. QED
  BY Zenon, <1>1, <1>2, <1>10, <1>7 DEF Kept, n

\* MarkProvisioningCompleted records the rule and clears the lease.
LEMMA CompletedFields ==
    ASSUME NEW r \in Row, NEW a \in RuleArns
    PROVE  LET n == MarkProvisioningCompleted(r, a)
           IN  /\ n \in Row /\ n.state = r.state /\ n.host = r.host /\ n.cert = r.cert
               /\ n.lease = None /\ n.prov = "completed" /\ n.rule = a
<1>. DEFINE u == Requeue(r, "completed", r.attempts, TRUE)
            n == MarkProvisioningCompleted(r, a)
<1>1. Kept(r, u) /\ u.lease = None /\ u.prov = "completed"
  <2>1. "completed" \in Provs /\ "deprovisioned" \in Provs /\ r.attempts \in 0 .. MaxAttempts
    BY Zenon, ColumnTypes, StatusNames
  <2>2. QED BY <2>1, RequeueNow, Zenon
<1>2. n = [u EXCEPT !.status = "active", !.issued = TRUE, !.rule = a]
  BY Zenon DEF MarkProvisioningCompleted
<1>. HIDE DEF u, n
<1>3. u \in Row
  BY Zenon, <1>1 DEF Kept
<1>4. n \in Row
  BY <1>2, <1>3, Zenon DEF Row
<1>5. /\ n.state = u.state /\ n.host = u.host /\ n.cert = u.cert /\ n.lease = u.lease
      /\ n.prov = u.prov /\ n.rule = a
  BY Zenon, <1>2, <1>3 DEF Row
<1>. QED
  BY Zenon, <1>1, <1>4, <1>5 DEF Kept, n

\* MarkDeprovisioned soft-deletes the row and keeps what it recorded.
LEMMA DeprovisionedFields ==
    ASSUME NEW r \in Row
    PROVE  LET n == MarkDeprovisioned(r)
           IN  /\ n \in Row /\ n.state = "deleted" /\ n.host = r.host /\ n.cert = r.cert
               /\ n.rule = r.rule /\ n.lease = None /\ n.prov = "deprovisioned"
<1>. DEFINE u == Requeue(r, "deprovisioned", r.attempts, TRUE)
            n == MarkDeprovisioned(r)
<1>1. Kept(r, u) /\ u.lease = None /\ u.prov = "deprovisioned"
  <2>1. "completed" \in Provs /\ "deprovisioned" \in Provs /\ r.attempts \in 0 .. MaxAttempts
    BY Zenon, ColumnTypes, StatusNames
  <2>2. QED BY <2>1, RequeueNow, Zenon
<1>2. n = [u EXCEPT !.state = "deleted"]
  BY Zenon DEF MarkDeprovisioned
<1>. HIDE DEF u, n
<1>3. u \in Row
  BY Zenon, <1>1 DEF Kept
<1>4. n \in Row
  BY Zenon, <1>2, <1>3 DEF Row
<1>5. /\ n.state = "deleted" /\ n.host = u.host /\ n.cert = u.cert /\ n.lease = u.lease
      /\ n.prov = u.prov /\ n.rule = u.rule
  BY Zenon, <1>2, <1>3 DEF Row
<1>. QED
  BY Zenon, <1>1, <1>4, <1>5 DEF Kept, n

----------------------------------------------------------------------------
(* Steps that change no certificate or rule and only requeue, fail or cancel jobs. *)

\* r becomes n: nothing recorded is lost, the lease is kept only with the status, and
\* removal is not undone.
Moves(r, n) ==
    /\ Kept(r, n)
    /\ n.lease = None \/ (n.lease = r.lease /\ n.prov = r.prov)
    /\ \/ n.prov = r.prov
       \/ /\ r.state = "live" /\ n.prov # "completed"
          /\ r.prov \in Removal => n.prov \in Removal
          /\ n.prov \in InProgress \ {"requesting_certificate"} => r.cert # None

Calm ==
    /\ row' \in [Domains -> Row] /\ \A d \in Domains : Moves(row[d], row'[d])
    /\ wk' \in [Workers -> Job] /\ \A w \in Workers : wk'[w] = wk[w] \/ wk'[w] = Idle
    /\ req' \in [Clients -> Request \cup {NoReq}]
    /\ \A c \in Clients : req'[c] = req[c] \/ req'[c] = NoReq
    /\ UNCHANGED <<acm, attached, rules>>
    /\ ingress' \in TargetGroups \cup {None} /\ faults' \in 0 .. MaxFaults

\* An idle worker has no job and no lease.
LEMMA IdleFields == Idle \in Job /\ Idle.pc = "idle" /\ Idle.lease = None
BY Zenon, Counters DEF Idle, Job

\* A calm step preserves the invariant: the lease is cleared whenever the status of
\* a claimed row changes, so no worker is left with a stale snapshot and a lease.
LEMMA CalmPreserves == ASSUME IInv, Calm PROVE IInv'
<1>. USE DEF IInv
<1>1. TypeOK'
  BY Zenon DEF TypeOK, Calm
<1>2. /\ \A d \in Domains :
            /\ row'[d].state = row[d].state /\ row'[d].host = row[d].host
            /\ row'[d].cert = row[d].cert /\ row'[d].rule = row[d].rule
            /\ row'[d].lease = None \/ (row'[d].lease = row[d].lease /\ row'[d].prov = row[d].prov)
            /\ \/ row'[d].prov = row[d].prov
               \/ /\ row[d].state = "live" /\ row'[d].prov # "completed"
                  /\ row[d].prov \in Removal => row'[d].prov \in Removal
                  /\ row'[d].prov \in InProgress \ {"requesting_certificate"} =>
                        row[d].cert # None
      /\ \A w \in Workers : Busy(w)' => Busy(w) /\ wk'[w] = wk[w]
      /\ \A c \in Clients : req'[c] # NoReq => req'[c] = req[c]
      /\ \A c \in Clients : req[c] # NoReq => req[c].d \in Domains
  BY Zenon, IdleFields DEF Calm, Moves, Kept, Busy, TypeOK, Request
<1>3. RowInv'
  <2>1. CertificateRecorded'
    BY Zenon, <1>2 DEF RowInv, CertificateRecorded
  <2>. QED
    BY <1>2, <2>1 DEF RowInv
<1>4. \A w \in Workers : Busy(w) => wk[w].d \in Domains /\ wk[w].lease \in Tokens
  BY Zenon DEF JobInv, PcInv
<1>5. \A w \in Workers : Holds(w)' => Holds(w) /\ wk'[w] = wk[w] /\ row'[wk[w].d].prov = row[wk[w].d].prov
  BY <1>2, <1>4, NoneAssumption DEF Holds
<1>6. JobInv'
  <2>1. SnapshotCurrent'
    BY <1>2, <1>4, NoneAssumption DEF SnapshotCurrent, Busy, JobInv
  <2>2. \A w \in Workers : Busy(w)' => PcInv(wk'[w])
    BY Zenon, <1>2 DEF JobInv
  <2>3. \A w \in Workers, d \in Domains :
            Busy(w)' /\ row'[d].lease = wk'[w].lease => wk'[w].d = d
    BY <1>2, <1>4, NoneAssumption DEF JobInv
  <2>4. \A v, w \in Workers : Busy(v)' /\ Busy(w)' /\ wk'[v].lease = wk'[w].lease => v = w
    BY <1>2 DEF JobInv
  <2>5. \A w \in Workers : Busy(w)' =>
          /\ row'[wk'[w].d].state # "absent" /\ row'[wk'[w].d].host = wk'[w].host
          /\ wk'[w].prov = "deprovisioning" =>
                /\ row'[wk'[w].d].prov \in Removal
                /\ row'[wk'[w].d].cert = wk'[w].cert /\ row'[wk'[w].d].rule = wk'[w].rule
    BY <1>2, <1>4 DEF JobInv
  <2>. QED
    BY ZenonT(40), <2>1, <2>2, <2>3, <2>4, <2>5 DEF JobInv
<1>7. RowAws'
  <2>. acm' = acm /\ attached' = attached /\ rules' = rules
    BY Zenon DEF Calm
  <2>1. CompletedIsServed'
    BY <1>2 DEF RowAws, CompletedIsServed
  <2>. QED
    BY <1>2, <2>1 DEF RowAws
<1>8. WorkerAws'
  BY Zenon, <1>2, <1>5 DEF WorkerAws, Calm
<1>. QED
  BY Zenon, <1>1, <1>3, <1>6, <1>7, <1>8

\* Leaving a row alone is a calm move.
LEMMA MovesSame == ASSUME NEW r \in Row PROVE Moves(r, r)
BY Zenon DEF Moves, Kept

\* So is an UPDATE of one row that is calm on that row.
LEMMA OneRowMoves ==
    ASSUME TypeOK, NEW d \in Domains, NEW n, Moves(row[d], n), row' = [row EXCEPT ![d] = n]
    PROVE  row' \in [Domains -> Row] /\ \A e \in Domains : Moves(row[e], row'[e])
<1>1. n \in Row
  BY Zenon DEF Moves, Kept
<1>2. \A e \in Domains : row[e] \in Row /\ row'[e] = IF e = d THEN n ELSE row[e]
  BY Zenon DEF TypeOK
<1>. QED
  BY Zenon, <1>1, <1>2, MovesSame DEF TypeOK

\* So is a step that writes no row.
LEMMA NoRowMoves ==
    ASSUME TypeOK, UNCHANGED row
    PROVE  row' \in [Domains -> Row] /\ \A e \in Domains : Moves(row[e], row'[e])
BY Zenon, MovesSame DEF TypeOK

\* MarkVerified, UpdateRoutingStatus and the passing of time are calm.
LEMMA SmallUpdates ==
    ASSUME NEW r \in Row, NEW s \in {"ready", "failed"}
    PROVE  /\ Moves(r, [r EXCEPT !.status = "verified"])
           /\ Moves(r, [r EXCEPT !.routing = s])
           /\ Moves(r, [r EXCEPT !.expired = TRUE])
           /\ Moves(r, [r EXCEPT !.due = TRUE])
<1>1. Moves(r, [r EXCEPT !.status = "verified"])
  BY Zenon DEF Moves, Kept, Row
<1>2. Moves(r, [r EXCEPT !.routing = s])
  BY Zenon DEF Moves, Kept, Row
<1>3. Moves(r, [r EXCEPT !.expired = TRUE])
  BY Zenon DEF Moves, Kept, Row
<1>4. Moves(r, [r EXCEPT !.due = TRUE])
  BY Zenon DEF Moves, Kept, Row
<1>. QED
  BY Zenon, <1>1, <1>2, <1>3, <1>4

\* A request that ends leaves the others alone.
LEMMA RequestGone ==
    ASSUME TypeOK, NEW c \in Clients, req' = [req EXCEPT ![c] = NoReq]
    PROVE  /\ req' \in [Clients -> Request \cup {NoReq}]
           /\ \A b \in Clients : req'[b] = req[b] \/ req'[b] = NoReq
BY Zenon DEF TypeOK

\* A worker that ends its job leaves the others alone.
LEMMA WorkerGone ==
    ASSUME TypeOK, NEW w \in Workers, wk' = [wk EXCEPT ![w] = Idle]
    PROVE  /\ wk' \in [Workers -> Job]
           /\ \A v \in Workers : wk'[v] = wk[v] \/ wk'[v] = Idle
BY Zenon, IdleFields DEF TypeOK

\* The fault counter stays within its bound.
LEMMA FaultCounted == ASSUME TypeOK, Fault \/ UNCHANGED faults PROVE faults' \in 0 .. MaxFaults
BY BoundAssumption DEF TypeOK, Fault

\* DeleteCustomDomain and RetryDeprovisioning are calm.
LEMMA DeleteCalm ==
    ASSUME IInv, NEW d \in Domains, DeleteCustomDomain(d) \/ RetryDeprovisioning(d)
    PROVE  Calm
<1>1. row[d] \in Row /\ row[d].state = "live" /\ TypeOK /\ "requesting_certificate" \in InProgress
  BY ZenonT(40) DEF IInv, TypeOK, DeleteCustomDomain, RetryDeprovisioning, Live, InProgress
<1>2. Moves(row[d], EnqueueDeprovisioning(row[d])) /\ Moves(row[d], ResetDeprovisioningForRetry(row[d]))
  BY <1>1, WriteFields, MovesSame DEF Moves, Removal, InProgress
<1>3. \/ row' = [row EXCEPT ![d] = EnqueueDeprovisioning(row[d])]
      \/ row' = [row EXCEPT ![d] = ResetDeprovisioningForRetry(row[d])]
  BY Zenon DEF DeleteCustomDomain, RetryDeprovisioning
<1>4. row' \in [Domains -> Row] /\ \A e \in Domains : Moves(row[e], row'[e])
  BY ZenonT(40), <1>1, <1>2, <1>3, OneRowMoves
<1>. QED
  BY Zenon, <1>1, <1>4 DEF Calm, TypeOK, DeleteCustomDomain, RetryDeprovisioning, aws

\* The UPDATE of a pending API request is calm, however old the row it read.
LEMMA FinishCalm == ASSUME IInv, NEW c \in Clients, FinishRequest(c) PROVE Calm
<1>. DEFINE q == req[c]
            r == row[q.d]
            Set(new) == row' = [row EXCEPT ![q.d] = IF r.state = "live" THEN new ELSE r]
<1>1. TypeOK /\ q \in Request /\ q.d \in Domains /\ r \in Row
  BY Zenon DEF IInv, TypeOK, FinishRequest, Request
<1>2. ASSUME NEW new, Moves(r, new), Set(new)
      PROVE  row' \in [Domains -> Row] /\ \A e \in Domains : Moves(row[e], row'[e])
  <2>1. CASE r.state = "live"
    BY <1>1, <1>2, <2>1, OneRowMoves, Zenon
  <2>2. CASE r.state # "live"
    BY <1>1, <1>2, <2>2, OneRowMoves, MovesSame, ZenonT(60)
  <2>. QED
    BY Zenon, <2>1, <2>2
<1>3. r.state = "live" => Moves(r, EnqueueProvisioning(r))
  <2>1. "requesting_certificate" \in InProgress
    BY ZenonT(40) DEF InProgress
  <2>. QED
    BY <1>1, <2>1, WriteFields, MovesSame DEF Moves, Removal
<1>4. r.state = "live" /\ q.kind = "retry" => Moves(r, ResetProvisioningForRetry(r, q.to))
  <2>. SUFFICES ASSUME r.state = "live", q.kind = "retry"
                PROVE  Moves(r, ResetProvisioningForRetry(r, q.to))
    BY Zenon
  <2>1. q.to \in InProgress /\ (q.to # "requesting_certificate" => r.cert # None)
    BY ZenonT(40) DEF IInv, RowInv, FinishRequest
  <2>. QED
    BY <1>1, <2>1, WriteFields, MovesSame DEF Moves, Removal, InProgress
<1>5. row' \in [Domains -> Row] /\ \A e \in Domains : Moves(row[e], row'[e])
  <2>1. CASE UNCHANGED row
    BY Zenon, <1>1, <2>1, NoRowMoves
  <2>2. CASE Set([r EXCEPT !.status = "verified"])
    BY <1>1, <1>2, <2>2, SmallUpdates, Zenon
  <2>3. CASE \E s \in {"ready", "failed"} : Set([r EXCEPT !.routing = s])
    BY <1>1, <1>2, <2>3, SmallUpdates, Zenon
  <2>4. CASE Set(EnqueueProvisioning(r))
    <3>1. CASE r.state = "live"
      BY <1>2, <1>3, <2>4, <3>1, Zenon
    <3>2. CASE r.state # "live"
      BY Zenon, <1>1, <1>2, <2>4, <3>2, OneRowMoves, MovesSame
    <3>. QED
      BY Zenon, <3>1, <3>2
  <2>5. CASE q.kind = "retry" /\ Set(ResetProvisioningForRetry(r, q.to))
    <3>1. CASE r.state = "live"
      BY <1>2, <1>4, <2>5, <3>1, Zenon
    <3>2. CASE r.state # "live"
      BY ZenonT(40), <1>1, <1>2, <2>5, <3>2, OneRowMoves, MovesSame
    <3>. QED
      BY Zenon, <3>1, <3>2
  <2>. QED
    BY Zenon, <2>1, <2>2, <2>3, <2>4, <2>5 DEF FinishRequest
<1>6. req' = [req EXCEPT ![c] = NoReq]
  BY Zenon DEF FinishRequest
<1>. QED
  BY ZenonT(40), <1>1, <1>5, <1>6, RequestGone DEF Calm, TypeOK, FinishRequest, aws

\* Lease expiry and the end of a retry delay are calm.
LEMMA TimeCalm ==
    ASSUME IInv, NEW d \in Domains, LeaseExpires(d) \/ RetryTimeComes(d)
    PROVE  Calm
<1>1. TypeOK /\ row[d] \in Row /\ "ready" \in {"ready", "failed"}
  BY Zenon DEF IInv, TypeOK
<1>2. \/ row' = [row EXCEPT ![d] = [row[d] EXCEPT !.expired = TRUE]]
      \/ row' = [row EXCEPT ![d] = [row[d] EXCEPT !.due = TRUE]]
  BY Zenon DEF LeaseExpires, RetryTimeComes
<1>3. row' \in [Domains -> Row] /\ \A e \in Domains : Moves(row[e], row'[e])
  BY <1>1, <1>2, SmallUpdates, OneRowMoves, Zenon
<1>4. faults' \in 0 .. MaxFaults
  BY Zenon, <1>1, FaultCounted DEF LeaseExpires, RetryTimeComes
<1>. QED
  BY Zenon, <1>1, <1>3, <1>4 DEF Calm, TypeOK, LeaseExpires, RetryTimeComes, aws

\* A crash is calm.
LEMMA CrashCalm == ASSUME IInv, NEW w \in Workers, Crash(w) PROVE Calm
<1>1. TypeOK
  BY Zenon DEF IInv
<1>. QED
  BY <1>1, NoRowMoves, WorkerGone, FaultCounted, Zenon DEF Calm, TypeOK, Crash, aws

\* A change of the project's gateway is calm.
LEMMA IngressCalm ==
    ASSUME IInv, NEW g \in TargetGroups \cup {None}, IngressChanges(g)
    PROVE  Calm
<1>1. TypeOK
  BY Zenon DEF IInv
<1>. QED
  BY Zenon, <1>1, NoRowMoves DEF Calm, TypeOK, IngressChanges, aws

----------------------------------------------------------------------------
(* The UPDATEs that end a handler. *)

\* An UPDATE under a lost lease, and every UPDATE that polls, retries or fails, is
\* calm.
LEMMA StaleWriteCalm ==
    ASSUME IInv, NEW w \in Workers, Write(w),
           \/ ~ LeaseHeld(row[wk[w].d], wk[w])
           \/ wk[w].op \in {"poll", "retry", "fail", "deprovision_failed"}
    PROVE  Calm
<1>. DEFINE j == wk[w]
            r == row[j.d]
<1>1. TypeOK /\ j.d \in Domains /\ r \in Row /\ j.op \in Ops /\ "waiting_for_dns" \in InProgress
  BY Zenon DEF IInv, JobInv, PcInv, Busy, Write, TypeOK, InProgress
<1>2. row' = [row EXCEPT ![j.d] = IF LeaseHeld(r, j) THEN WriteBack(r, j) ELSE r]
  BY Zenon DEF Write
<1>3. row' \in [Domains -> Row] /\ \A e \in Domains : Moves(row[e], row'[e])
  <2>1. CASE ~ LeaseHeld(r, j)
    BY <1>1, <1>2, <2>1, MovesSame, OneRowMoves, Zenon
  <2>2. CASE LeaseHeld(r, j) /\ j.op \in {"poll", "retry", "fail", "deprovision_failed"}
    <3>1. r.state = "live" /\ r.prov = j.prov
      BY ZenonT(40), <2>2 DEF LeaseHeld
    <3>2. j.op = "fail" => j.prov \in InProgress
      BY ZenonT(40) DEF IInv, JobInv, PcInv, Busy, Write
    <3>3. Moves(r, WriteBack(r, j))
      <4>1. CASE j.op = "poll"
        BY <1>1, <3>1, <4>1, WriteFields DEF WriteBack, Moves
      <4>2. CASE j.op = "retry"
        BY <1>1, <3>1, <4>2, WriteFields DEF WriteBack, Moves
      <4>3. CASE j.op = "fail"
        BY <1>1, <3>1, <3>2, <4>3, WriteFields DEF WriteBack, Moves, InProgress, Removal
      <4>4. CASE j.op = "deprovision_failed"
        BY <1>1, <3>1, <4>4, WriteFields DEF WriteBack, Moves, InProgress, Removal
      <4>. QED
        BY Zenon, <2>2, <4>1, <4>2, <4>3, <4>4
    <3>. QED
      BY <1>1, <1>2, <2>2, <3>3, OneRowMoves, Zenon
  <2>. QED
    BY Zenon, <2>1, <2>2
<1>4. wk' = [wk EXCEPT ![w] = Idle]
  BY Zenon DEF Write
<1>. QED
  BY <1>1, <1>3, <1>4, WorkerGone, ZenonT(60) DEF Calm, TypeOK, Write, aws

----------------------------------------------------------------------------
(* The UPDATEs that move a row on, the requests that create or requeue one, and the
   progress of ACM. *)

\* What the three other UPDATEs have in common: the row leaves an in-progress
\* state for a later one, or is removed for good.
Progress(w, n) ==
    /\ Busy(w) /\ LeaseHeld(row[wk[w].d], wk[w])
    /\ row' = [row EXCEPT ![wk[w].d] = n] /\ n \in Row
    /\ wk' = [wk EXCEPT ![w] = Idle]
    /\ UNCHANGED <<req, acm, attached, rules, ingress, faults>>
    /\ n.host = row[wk[w].d].host /\ n.lease = None
    /\ \/ /\ wk[w].prov \in InProgress /\ n.state = "live"
          /\ n.prov \in (InProgress \ {"requesting_certificate"}) \cup {"completed"}
          /\ n.cert # None
       \/ /\ wk[w].prov = "deprovisioning" /\ n.state = "deleted"
          /\ n.prov = "deprovisioned"
          /\ n.cert = row[wk[w].d].cert /\ n.rule = row[wk[w].d].rule

\* What an UPDATE that moves a row on does to the rows and to the other workers.
LEMMA ProgressFields ==
    ASSUME IInv, NEW w \in Workers, NEW n, Progress(w, n)
    PROVE  /\ wk[w].d \in Domains
           /\ \A d \in Domains : row'[d] = IF d = wk[w].d THEN n ELSE row[d]
           /\ \A v \in Workers : Busy(v)' => Busy(v) /\ v # w /\ wk'[v] = wk[v]
           /\ \A v \in Workers : Busy(v) => wk[v].d \in Domains /\ wk[v].lease \in Tokens
           /\ \A v \in Workers : Holds(v)' => Holds(v) /\ v # w /\ wk[v].d # wk[w].d
           /\ row[wk[w].d].state = "live" /\ row[wk[w].d].prov = wk[w].prov
<1>1. wk[w].d \in Domains /\ row[wk[w].d].state = "live" /\ row[wk[w].d].prov = wk[w].prov
  BY Zenon DEF IInv, JobInv, PcInv, Progress, LeaseHeld
<1>2. \A d \in Domains : row'[d] = IF d = wk[w].d THEN n ELSE row[d]
  BY Zenon, <1>1 DEF IInv, TypeOK, Progress
<1>3. \A v \in Workers : Busy(v)' => Busy(v) /\ v # w /\ wk'[v] = wk[v]
  BY Zenon, IdleFields DEF IInv, TypeOK, Progress, Busy
<1>4. \A v \in Workers : Busy(v) => wk[v].d \in Domains /\ wk[v].lease \in Tokens
  BY Zenon DEF IInv, JobInv, PcInv
<1>5. \A v \in Workers : Holds(v)' => Holds(v) /\ v # w /\ wk[v].d # wk[w].d
  BY <1>1, <1>2, <1>3, <1>4, NoneAssumption DEF Holds, Progress
<1>. QED
  BY ZenonT(40), <1>1, <1>2, <1>3, <1>4, <1>5

\* It preserves the parts of the invariant that do not speak of AWS.
LEMMA ProgressJobs ==
    ASSUME IInv, NEW w \in Workers, NEW n, Progress(w, n)
    PROVE  TypeOK' /\ RowInv' /\ JobInv'
<1>. DEFINE d0 == wk[w].d
<1>4. /\ d0 \in Domains /\ row[d0].state = "live" /\ row[d0].prov = wk[w].prov
      /\ \A d \in Domains : row'[d] = IF d = d0 THEN n ELSE row[d]
  BY ProgressFields
<1>5. /\ \A v \in Workers : Busy(v)' => Busy(v) /\ v # w /\ wk'[v] = wk[v]
      /\ \A v \in Workers : Busy(v) => wk[v].d \in Domains /\ wk[v].lease \in Tokens
  BY Zenon, ProgressFields
<1>6. /\ n.host = row[d0].host /\ n.lease = None
      /\ \/ /\ row[d0].prov \in InProgress /\ n.state = "live"
            /\ n.prov \in (InProgress \ {"requesting_certificate"}) \cup {"completed"}
            /\ n.cert # None
         \/ /\ row[d0].prov = "deprovisioning" /\ n.state = "deleted"
            /\ n.prov = "deprovisioned" /\ n.cert = row[d0].cert /\ n.rule = row[d0].rule
  BY Zenon, <1>4 DEF Progress
<1>. HIDE DEF d0
<1>1. TypeOK'
  BY <1>4, IdleFields, Zenon DEF IInv, TypeOK, Progress
<1>2. RowInv'
  <2>1. CertificateRecorded'
    BY <1>4, <1>6 DEF IInv, RowInv, CertificateRecorded, InProgress
  <2>2. req' = req /\ \A c \in Clients : req[c] # NoReq => req[c].d \in Domains
    BY Zenon DEF IInv, TypeOK, Request, Progress
  <2>3. \A d \in Domains :
          /\ row'[d].state # "live" => row'[d].lease = None
          /\ row'[d].state = "absent" => /\ row'[d].prov = "not_started"
                                         /\ row'[d].cert = None /\ row'[d].rule = None
          /\ row'[d].state = "deleted" => row'[d].prov = "deprovisioned"
          /\ row'[d].state # "absent" => row'[d].host # None
    BY <1>4, <1>6 DEF IInv, RowInv
  <2>4. \A d, e \in Domains :
          row'[d].state = "live" /\ row'[e].state = "live" /\ row'[d].host = row'[e].host => d = e
    BY <1>4, <1>6 DEF IInv, RowInv
  <2>5. \A c \in Clients : req'[c] # NoReq =>
          /\ row'[req'[c].d].state # "absent"
          /\ req'[c].kind = "retry" => req'[c].to \in InProgress
          /\ req'[c].kind = "retry" /\ req'[c].to # "requesting_certificate" =>
                row'[req'[c].d].cert # None
    BY <1>4, <1>6, <2>2 DEF IInv, RowInv
  <2>. QED
    BY Zenon, <2>1, <2>3, <2>4, <2>5 DEF RowInv
<1>3. JobInv'
  <2>1. SnapshotCurrent'
    BY <1>4, <1>5, <1>6, NoneAssumption DEF IInv, SnapshotCurrent, Busy, JobInv
  <2>2. \A v \in Workers : Busy(v)' => PcInv(wk'[v])
    BY Zenon, <1>5 DEF IInv, JobInv
  <2>3. \A v \in Workers, d \in Domains :
            Busy(v)' /\ row'[d].lease = wk'[v].lease => wk'[v].d = d
    BY <1>4, <1>5, <1>6, NoneAssumption DEF IInv, JobInv
  <2>4. \A u, v \in Workers : Busy(u)' /\ Busy(v)' /\ wk'[u].lease = wk'[v].lease => u = v
    BY ZenonT(40), <1>5 DEF IInv, JobInv
  <2>5. \A v \in Workers : Busy(v)' =>
          /\ row'[wk'[v].d].state # "absent" /\ row'[wk'[v].d].host = wk'[v].host
          /\ wk'[v].prov = "deprovisioning" =>
                /\ row'[wk'[v].d].prov \in Removal
                /\ row'[wk'[v].d].cert = wk'[v].cert /\ row'[wk'[v].d].rule = wk'[v].rule
    BY <1>4, <1>5, <1>6 DEF IInv, JobInv, InProgress, Removal
  <2>. QED
    BY ZenonT(40), <2>1, <2>2, <2>3, <2>4, <2>5 DEF JobInv
<1>. QED
  BY Zenon, <1>1, <1>2, <1>3

\* What the workers know is not touched by a row that moves on, except for the
\* worker that moved it, which is done.
LEMMA ProgressWorkers ==
    ASSUME IInv, NEW w \in Workers, NEW n, Progress(w, n)
    PROVE  WorkerAws'
<1>1. \A v \in Workers : Busy(v)' => Busy(v) /\ wk'[v] = wk[v]
  BY Zenon, ProgressFields
<1>2. \A v \in Workers : Holds(v)' => Holds(v) /\ wk'[v] = wk[v]
  BY Zenon, ProgressFields DEF Holds
<1>3. acm' = acm /\ attached' = attached /\ rules' = rules
  BY Zenon DEF Progress
<1>. QED
  BY Zenon, <1>1, <1>2, <1>3 DEF IInv, WorkerAws

\* AdvanceProvisioningState preserves the invariant.
LEMMA AdvanceWrites ==
    ASSUME IInv, NEW w \in Workers, Write(w), LeaseHeld(row[wk[w].d], wk[w]),
           wk[w].op = "advance"
    PROVE  IInv'
<1>. DEFINE j == wk[w]
            d0 == j.d
            r == row[d0]
            n == AdvanceProvisioningState(r, j)
<1>1. /\ Busy(w) /\ d0 \in Domains /\ r \in Row /\ j \in Job
      /\ j.prov \in InProgress \ {"attaching_certificate"}
      /\ j.prov = "requesting_certificate" => j.got \in CertArns
  BY ZenonT(40) DEF IInv, TypeOK, JobInv, PcInv, Busy, Write
<1>2. /\ n \in Row /\ n.state = r.state /\ n.host = r.host /\ n.rule = r.rule
      /\ n.lease = None /\ n.prov \in InProgress \ {"requesting_certificate"}
      /\ n.cert = IF j.prov = "requesting_certificate" THEN j.got ELSE r.cert
  BY Zenon, <1>1, AdvanceFields
<1>3. r.state = "live" /\ r.prov = j.prov
  BY ZenonT(40) DEF LeaseHeld
<1>4. n.cert # None /\ acm[n.cert].d = d0
  <2>1. CASE j.prov = "requesting_certificate"
    BY <1>1, <1>2, <2>1, NoneAssumption, Zenon DEF IInv, WorkerAws, JobAws
  <2>2. CASE j.prov # "requesting_certificate"
    BY <1>1, <1>2, <1>3, <2>2, Zenon DEF IInv, RowInv, CertificateRecorded, RowAws
  <2>. QED
    BY Zenon, <2>1, <2>2
<1>5. row' = [row EXCEPT ![d0] = n]
  BY Zenon DEF Write, WriteBack
<1>6. Progress(w, n)
  BY <1>1, <1>2, <1>3, <1>4, <1>5, Zenon DEF Progress, Write, aws
<1>7. \A d \in Domains : row'[d] = IF d = d0 THEN n ELSE row[d]
  BY <1>6, ProgressFields, ZenonT(60)
<1>8. acm' = acm /\ attached' = attached /\ rules' = rules
  BY Zenon DEF Write, aws
<1>9. n.prov # "completed" /\ n.state # "deleted" /\ n.host = r.host /\ n.rule = r.rule
  BY Zenon, <1>2, <1>3 DEF InProgress
<1>. HIDE DEF n
<1>10. RowAws'
  <2>1. CompletedIsServed'
    BY <1>7, <1>8, <1>9 DEF IInv, RowAws, CompletedIsServed
  <2>2. \A d, e \in Domains : row'[d].rule # None /\ row'[d].rule = row'[e].rule => d = e
    BY <1>7, <1>9 DEF IInv, RowAws
  <2>3. \A d \in Domains :
          /\ row'[d].cert # None => acm'[row'[d].cert].d = d
          /\ \A x \in rules' : x.arn = row'[d].rule => x.host = row'[d].host
          /\ row'[d].state = "deleted" =>
                /\ \A x \in rules' : x.arn # row'[d].rule
                /\ row'[d].cert # None => acm'[row'[d].cert].st = "absent"
    BY <1>4, <1>7, <1>8, <1>9 DEF IInv, RowAws
  <2>. QED
    BY <1>8, <2>1, <2>2, <2>3, Zenon DEF IInv, RowAws
<1>. QED
  BY ZenonT(40), <1>6, <1>10, ProgressJobs, ProgressWorkers DEF IInv

\* MarkProvisioningCompleted preserves the invariant: the rule it records belongs to
\* no other row, because live hostnames are unique and deleted rows have no rule.
LEMMA CompleteWrites ==
    ASSUME IInv, NEW w \in Workers, Write(w), LeaseHeld(row[wk[w].d], wk[w]),
           wk[w].op = "complete"
    PROVE  IInv'
<1>. DEFINE j == wk[w]
            d0 == j.d
            r == row[d0]
            n == MarkProvisioningCompleted(r, j.got)
<1>1. /\ Busy(w) /\ d0 \in Domains /\ r \in Row
      /\ j.prov = "attaching_certificate" /\ j.got \in RuleArns
  BY Zenon DEF IInv, TypeOK, JobInv, PcInv, Busy, Write
<1>2. /\ n \in Row /\ n.state = r.state /\ n.host = r.host /\ n.cert = r.cert
      /\ n.lease = None /\ n.prov = "completed" /\ n.rule = j.got
  BY <1>1, CompletedFields, Zenon
<1>3. r.state = "live" /\ r.prov = j.prov /\ Holds(w)
  BY Zenon, <1>1 DEF LeaseHeld, Holds
<1>4. r.cert = j.cert /\ r.host = j.host /\ r.cert # None
  BY ZenonT(40), <1>1, <1>3, Zenon DEF IInv, JobInv, SnapshotCurrent, Busy, Holds, RowInv, CertificateRecorded, InProgress
<1>5. j.cert \in attached /\ \E x \in rules : x.arn = j.got /\ x.host = j.host
  BY <1>3, Zenon DEF IInv, WorkerAws, HeldAws, Write
<1>6. row' = [row EXCEPT ![d0] = n]
  BY Zenon DEF Write, WriteBack
<1>7. Progress(w, n)
  BY <1>1, <1>2, <1>3, <1>4, <1>6, Zenon DEF Progress, Write, aws, InProgress
<1>8. \A d \in Domains : row'[d] = IF d = d0 THEN n ELSE row[d]
  BY <1>7, ProgressFields, ZenonT(60)
<1>9. acm' = acm /\ attached' = attached /\ rules' = rules
  BY Zenon DEF Write, aws
<1>10. \A x \in rules : x.arn = j.got => x.host = r.host
  BY <1>4, <1>5 DEF IInv, RowAws
<1>. HIDE DEF n
<1>11. ASSUME NEW e \in Domains, row[e].rule = j.got PROVE e = d0
  <2>1. row[e].state # "absent"
    BY Zenon, <1>1, <1>11, NoneAssumption DEF IInv, RowInv
  <2>2. row[e].state # "deleted"
    BY Zenon, <1>5, <1>11 DEF IInv, RowAws
  <2>3. row[e].state = "live"
    BY Zenon, <2>1, <2>2 DEF IInv, TypeOK, Row
  <2>4. row[e].host = r.host
    BY <1>4, <1>5, <1>11 DEF IInv, RowAws
  <2>. QED
    BY ZenonT(40), <1>1, <1>3, <2>3, <2>4 DEF IInv, RowInv
<1>12. RowAws'
  <2>1. CompletedIsServed'
    BY <1>2, <1>4, <1>5, <1>8, <1>9 DEF IInv, RowAws, CompletedIsServed
  <2>2. \A d, e \in Domains : row'[d].rule # None /\ row'[d].rule = row'[e].rule => d = e
    BY <1>2, <1>8, <1>11 DEF IInv, RowAws
  <2>3. \A d \in Domains :
          /\ row'[d].cert # None => acm'[row'[d].cert].d = d
          /\ \A x \in rules' : x.arn = row'[d].rule => x.host = row'[d].host
          /\ row'[d].state = "deleted" =>
                /\ \A x \in rules' : x.arn # row'[d].rule
                /\ row'[d].cert # None => acm'[row'[d].cert].st = "absent"
    BY <1>2, <1>3, <1>8, <1>9, <1>10 DEF IInv, RowAws
  <2>. QED
    BY ZenonT(40), <1>9, <2>1, <2>2, <2>3 DEF IInv, RowAws
<1>. QED
  BY Zenon, <1>7, <1>12, ProgressJobs, ProgressWorkers DEF IInv

\* MarkDeprovisioned preserves the invariant: the job deleted what the row records.
LEMMA DeprovisionedWrites ==
    ASSUME IInv, NEW w \in Workers, Write(w), LeaseHeld(row[wk[w].d], wk[w]),
           wk[w].op = "deprovisioned"
    PROVE  IInv'
<1>. DEFINE j == wk[w]
            d0 == j.d
            r == row[d0]
            n == MarkDeprovisioned(r)
<1>1. Busy(w) /\ d0 \in Domains /\ r \in Row /\ j.prov = "deprovisioning"
  BY Zenon DEF IInv, TypeOK, JobInv, PcInv, Busy, Write
<1>2. /\ n \in Row /\ n.state = "deleted" /\ n.host = r.host /\ n.cert = r.cert
      /\ n.rule = r.rule /\ n.lease = None /\ n.prov = "deprovisioned"
  BY <1>1, DeprovisionedFields, Zenon
<1>3. r.cert = j.cert /\ r.rule = j.rule
  BY Zenon, <1>1 DEF IInv, JobInv
<1>4. (\A x \in rules : x.arn # j.rule) /\ (j.cert # None => acm[j.cert].st = "absent")
  BY <1>1, Zenon DEF IInv, WorkerAws, JobAws, Write
<1>5. row' = [row EXCEPT ![d0] = n]
  BY Zenon DEF Write, WriteBack
<1>6. Progress(w, n)
  BY <1>1, <1>2, <1>5, Zenon DEF Progress, Write, aws
<1>7. \A d \in Domains : row'[d] = IF d = d0 THEN n ELSE row[d]
  BY <1>6, ProgressFields, ZenonT(60)
<1>8. acm' = acm /\ attached' = attached /\ rules' = rules
  BY Zenon DEF Write, aws
<1>. HIDE DEF n
<1>9. RowAws'
  <2>1. CompletedIsServed'
    BY <1>2, <1>7, <1>8 DEF IInv, RowAws, CompletedIsServed
  <2>2. \A d, e \in Domains : row'[d].rule # None /\ row'[d].rule = row'[e].rule => d = e
    BY <1>2, <1>7 DEF IInv, RowAws
  <2>3. \A d \in Domains :
          /\ row'[d].cert # None => acm'[row'[d].cert].d = d
          /\ \A x \in rules' : x.arn = row'[d].rule => x.host = row'[d].host
          /\ row'[d].state = "deleted" =>
                /\ \A x \in rules' : x.arn # row'[d].rule
                /\ row'[d].cert # None => acm'[row'[d].cert].st = "absent"
    BY <1>2, <1>3, <1>4, <1>7, <1>8 DEF IInv, RowAws
  <2>. QED
    BY <1>8, <2>1, <2>2, <2>3, Zenon DEF IInv, RowAws
<1>. QED
  BY Zenon, <1>6, <1>9, ProgressJobs, ProgressWorkers DEF IInv

----------------------------------------------------------------------------
(* New rows, new requests, and ACM. *)

\* CreateCustomDomain preserves the invariant.
LEMMA CreatePreserves ==
    ASSUME IInv, NEW d \in Domains, NEW h \in Hosts, CreateCustomDomain(d, h)
    PROVE  IInv'
<1>. DEFINE n == NewRow(h)
<1>1. /\ n \in Row /\ n.state = "live" /\ n.host = h /\ n.prov = "not_started"
      /\ n.cert = None /\ n.rule = None /\ n.lease = None
  BY Zenon, Counters DEF NewRow, Row, Provs
<1>2. /\ row[d].state = "absent" /\ row' = [row EXCEPT ![d] = n]
      /\ \A e \in Domains : row[e].state = "live" => row[e].host # h
      /\ UNCHANGED <<wk, req, acm, attached, rules, ingress, faults>>
  BY Zenon DEF CreateCustomDomain, Live, aws
<1>. HIDE DEF n
<1>3. \A e \in Domains : row'[e] = IF e = d THEN n ELSE row[e]
  BY Zenon, <1>2 DEF IInv, TypeOK
<1>4. TypeOK'
  BY ZenonT(40), <1>1, <1>2 DEF IInv, TypeOK
<1>5. \A w \in Workers : Busy(w) => wk[w].d \in Domains /\ wk[w].d # d /\ wk[w].lease \in Tokens
  BY Zenon, <1>2 DEF IInv, JobInv, PcInv
<1>6. \A c \in Clients : req[c] # NoReq => req[c].d \in Domains /\ req[c].d # d
  BY <1>2, Zenon DEF IInv, RowInv, TypeOK, Request
<1>7. RowInv'
  <2>1. CertificateRecorded'
    BY ZenonT(40), <1>1, <1>3 DEF IInv, RowInv, CertificateRecorded, InProgress
  <2>2. \A e \in Domains :
          /\ row'[e].state # "live" => row'[e].lease = None
          /\ row'[e].state = "absent" => /\ row'[e].prov = "not_started"
                                         /\ row'[e].cert = None /\ row'[e].rule = None
          /\ row'[e].state = "deleted" => row'[e].prov = "deprovisioned"
          /\ row'[e].state # "absent" => row'[e].host # None
    BY <1>1, <1>3, NoneAssumption DEF IInv, RowInv
  <2>3. \A e, f \in Domains :
          row'[e].state = "live" /\ row'[f].state = "live" /\ row'[e].host = row'[f].host => e = f
    BY <1>1, <1>2, <1>3 DEF IInv, RowInv
  <2>. QED
    BY <1>2, <1>3, <1>6, <2>1, <2>2, <2>3 DEF IInv, RowInv
<1>8. JobInv'
  <2>1. JobInv /\ SnapshotCurrent
    BY Zenon DEF IInv, JobInv
  <2>2. \A w \in Workers : wk'[w] = wk[w] /\ (Busy(w)' <=> Busy(w))
    BY Zenon, <1>2 DEF Busy
  <2>3. \A w \in Workers : Busy(w) => row'[wk[w].d] = row[wk[w].d]
    BY Zenon, <1>3, <1>5
  <2>4. SnapshotCurrent'
    BY <2>1, <2>2, <2>3 DEF SnapshotCurrent, Busy
  <2>5. \A w \in Workers, e \in Domains :
          Busy(w)' /\ row'[e].lease = wk'[w].lease => wk'[w].d = e
    <3>1. \A w \in Workers, e \in Domains : Busy(w) /\ row[e].lease = wk[w].lease => wk[w].d = e
      BY Zenon, <2>1 DEF JobInv
    <3>2. \A w \in Workers : Busy(w) => row'[d].lease # wk[w].lease
      BY Zenon, <1>1, <1>3, <1>5, NoneAssumption
    <3>3. \A e \in Domains : e = d \/ row'[e] = row[e]
      BY Zenon, <1>3
    <3>. QED
      BY <2>2, <3>1, <3>2, <3>3
  <2>6. \A w \in Workers : Busy(w)' =>
          /\ PcInv(wk'[w])
          /\ row'[wk'[w].d].state # "absent" /\ row'[wk'[w].d].host = wk'[w].host
          /\ wk'[w].prov = "deprovisioning" =>
                /\ row'[wk'[w].d].prov \in Removal
                /\ row'[wk'[w].d].cert = wk'[w].cert /\ row'[wk'[w].d].rule = wk'[w].rule
    BY <2>1, <2>2, <2>3 DEF JobInv
  <2>7. \A v, w \in Workers : Busy(v)' /\ Busy(w)' /\ wk'[v].lease = wk'[w].lease => v = w
    BY Zenon, <2>1, <2>2 DEF JobInv
  <2>. QED
    BY Zenon, <2>4, <2>5, <2>6, <2>7 DEF JobInv
<1>9. RowAws'
  <2>1. CompletedIsServed'
    BY <1>1, <1>2, <1>3 DEF IInv, RowAws, CompletedIsServed
  <2>2. \A x \in rules : x.arn # None
    BY NoneAssumption DEF IInv, TypeOK
  <2>. QED
    BY <1>1, <1>2, <1>3, <2>1, <2>2 DEF IInv, RowAws
<1>10. WorkerAws'
  BY Zenon, <1>2, <1>3, <1>5 DEF IInv, WorkerAws, Busy, Holds
<1>. QED
  BY ZenonT(40), <1>4, <1>7, <1>8, <1>9, <1>10 DEF IInv

\* performRetry resumes past requesting_certificate only with a certificate.
LEMMA ResumePoint ==
    ASSUME NEW r \in Row
    PROVE  /\ ResumeAt(r) \in InProgress
           /\ ResumeAt(r) # "requesting_certificate" => r.cert # None
BY Zenon DEF ResumeAt, InProgress, Row

\* A request that reads a row preserves the invariant.
LEMMA PendPreserves ==
    ASSUME IInv, NEW c \in Clients, NEW d \in Domains,
           \/ VerifyCustomDomain(c, d) \/ CheckCustomDomainRouting(c, d)
           \/ ActivateCustomDomain(c, d)
    PROVE  IInv'
<1>1. PICK kind \in {"verify", "routing", "enqueue", "retry"}, to \in InProgress \cup {None} :
          /\ Pend(c, kind, d, to)
          /\ kind = "retry" => to = ResumeAt(row[d])
  <2>1. CASE VerifyCustomDomain(c, d)
    BY Zenon, <2>1 DEF VerifyCustomDomain
  <2>2. CASE CheckCustomDomainRouting(c, d)
    BY Zenon, <2>2 DEF CheckCustomDomainRouting
  <2>3. CASE ActivateCustomDomain(c, d)
    <3>1. ResumeAt(row[d]) \in InProgress
      BY Zenon, ResumePoint DEF IInv, TypeOK
    <3>. QED
      BY Zenon, <2>3, <3>1 DEF ActivateCustomDomain
  <2>. QED
    BY Zenon, <2>1, <2>2, <2>3
<1>. DEFINE q == [kind |-> kind, d |-> d, to |-> to]
<1>2. /\ req' = [req EXCEPT ![c] = q]
      /\ UNCHANGED <<row, wk, acm, attached, rules, ingress, faults>>
  BY Zenon, <1>1 DEF Pend, aws
<1>3. q \in Request /\ q.kind = kind /\ q.d = d /\ q.to = to
  BY Zenon DEF Request
<1>4. row[d].state = "live" /\ row[d] \in Row
  BY Zenon
  DEF VerifyCustomDomain, CheckCustomDomainRouting, ActivateCustomDomain, Live, IInv, TypeOK
<1>. HIDE DEF q
<1>5. \A b \in Clients : req'[b] = IF b = c THEN q ELSE req[b]
  BY Zenon, <1>2 DEF IInv, TypeOK
<1>6. q.kind = "retry" =>
          q.to \in InProgress /\ (q.to # "requesting_certificate" => row[d].cert # None)
  BY Zenon, <1>1, <1>3, <1>4, ResumePoint
<1>7. TypeOK'
  BY <1>2, <1>3, Zenon DEF IInv, TypeOK
<1>8. RowInv'
  <2>1. \A b \in Clients : req'[b] # NoReq =>
            /\ row[req'[b].d].state # "absent"
            /\ req'[b].kind = "retry" => req'[b].to \in InProgress
            /\ req'[b].kind = "retry" /\ req'[b].to # "requesting_certificate" =>
                  row[req'[b].d].cert # None
    <3>1. CASE IInv /\ RowInv
      <4>. SUFFICES ASSUME NEW b \in Clients, req'[b] # NoReq
                    PROVE  /\ row[req'[b].d].state # "absent"
                           /\ req'[b].kind = "retry" => req'[b].to \in InProgress
                           /\ req'[b].kind = "retry" /\ req'[b].to # "requesting_certificate" =>
                                 row[req'[b].d].cert # None
        BY Zenon
      <4>1. CASE b = c
        BY <1>3, <1>4, <1>5, <1>6, <4>1, Zenon
      <4>2. CASE b # c
        BY <1>5, <3>1, <4>2, Zenon DEF RowInv
      <4>. QED
        BY Zenon, <4>1, <4>2
    <3>. QED
      BY ZenonT(40), <3>1 DEF IInv
  <2>. QED
    BY <1>2, <2>1, Zenon DEF IInv, RowInv, CertificateRecorded
<1>9. JobInv'
  BY ZenonT(40), <1>2, Zenon DEF IInv, JobInv, SnapshotCurrent, Busy
<1>10. RowAws' /\ WorkerAws'
  BY <1>2, Zenon DEF IInv, RowAws, WorkerAws, CompletedIsServed, Busy, Holds
<1>. QED
  BY Zenon, <1>7, <1>8, <1>9, <1>10 DEF IInv

\* ACM changing the status of a certificate preserves the invariant.
LEMMA AcmPreserves == ASSUME IInv, NEW a \in CertArns, AcmProgress(a) PROVE IInv'
<1>1. PICK to \in {"PENDING_VALIDATION", "ISSUED", "FAILED", "EXPIRED"} :
          acm' = [acm EXCEPT ![a].st = to] /\ acm[a].st # "absent"
  BY Zenon DEF AcmProgress
<1>2. UNCHANGED <<row, wk, req, attached, rules, ingress, faults>>
  BY Zenon DEF AcmProgress
<1>3. TypeOK'
  BY Zenon, <1>1, <1>2 DEF IInv, TypeOK
<1>4. \A b \in CertArns : /\ acm'[b].d = acm[b].d
                          /\ acm[b].st = "absent" <=> acm'[b].st = "absent"
  BY Zenon, <1>1 DEF IInv, TypeOK
<1>5. RowInv' /\ JobInv'
  BY <1>2, ZenonT(60) DEF IInv, RowInv, CertificateRecorded, JobInv, SnapshotCurrent, Busy
<1>6. \A d \in Domains : row[d].cert # None => row[d].cert \in CertArns
  BY Zenon DEF IInv, TypeOK, Row
<1>7. \A w \in Workers : wk[w].cert # None => wk[w].cert \in CertArns
  BY Zenon DEF IInv, TypeOK, Job
<1>8. RowAws'
  <2>1. CompletedIsServed'
    BY <1>2, <1>4, <1>6, Zenon DEF IInv, RowAws, CompletedIsServed, RowInv, CertificateRecorded
  <2>. QED
    BY Zenon, <1>2, <1>4, <1>6, <2>1 DEF IInv, RowAws, TypeOK
<1>9. WorkerAws'
  BY <1>2, <1>4, <1>7, Zenon DEF IInv, WorkerAws, JobAws, Busy, Holds
<1>. QED
  BY Zenon, <1>3, <1>5, <1>8, <1>9 DEF IInv

----------------------------------------------------------------------------
(* Claiming a job. *)

\* j is the job k at another point of its handler.
SameJob(k, j) ==
    /\ j \in Job /\ j.pc # "idle"
    /\ j.d = k.d /\ j.lease = k.lease /\ j.prov = k.prov /\ j.host = k.host
    /\ j.cert = k.cert /\ j.rule = k.rule

\* Going to the next call of a handler changes nothing in the job.
LEMMA AtFields ==
    ASSUME NEW k \in Job, NEW pc \in AwsSteps \cup {"resolve"}
    PROVE  SameJob(k, At(k, pc)) /\ At(k, pc).pc = pc /\ At(k, pc).got = k.got
           /\ At(k, pc).tg = k.tg
<1>1. At(k, pc) \in Job
  BY DEF At, Job
<1>. QED
  BY Zenon, <1>1 DEF At, Job, SameJob, AwsSteps

\* Deciding on an UPDATE changes nothing in the job.
LEMMA DecidedFields ==
    ASSUME NEW k \in Job, NEW op \in Ops, NEW got \in CertArns \cup RuleArns \cup {None}
    PROVE  /\ SameJob(k, Decided(k, op, got))
           /\ Decided(k, op, got).pc = "write" /\ Decided(k, op, got).op = op
           /\ Decided(k, op, got).got = got
<1>1. Decided(k, op, got) \in Job
  <2>. DEFINE W == AwsSteps \cup {"idle", "resolve", "write"}
              O == Ops \cup {None}
              G == CertArns \cup RuleArns \cup {None}
  <2>1. "write" \in W /\ op \in O /\ got \in G
    BY Zenon
  <2>2. Job = [pc: W, d: Domains \cup {None}, lease: Tokens \cup {None},
               prov: Provs \cup {None}, host: Hosts \cup {None}, cert: CertArns \cup {None},
               rule: RuleArns \cup {None}, attempts: 0 .. MaxAttempts,
               tg: TargetGroups \cup {None}, got: G, op: O]
    BY Zenon DEF Job
  <2>. HIDE DEF W, O, G
  <2>. QED
    BY <2>1, <2>2, Zenon DEF Decided
<1>. QED
  BY Zenon, <1>1 DEF Decided, Job, SameJob

\* A freshly claimed job starts in the right handler and knows nothing false.
LEMMA DispatchFields ==
    ASSUME TypeOK, NEW k \in Job, k.pc = "idle", k.d \in Domains, k.lease \in Tokens,
           k.prov \in InProgress \cup {"deprovisioning"}, k.got = None,
           k.prov \in InProgress \ {"requesting_certificate"} => k.cert # None,
           k.cert # None => acm[k.cert].d = k.d
    PROVE  LET j == Dispatch(k)
           IN  /\ SameJob(k, j) /\ PcInv(j) /\ JobAws(j, acm, rules)
               /\ HeldAws(j, attached, rules)
<1>. DEFINE j == Dispatch(k)
<1>1. k.cert \in CertArns \cup {None} /\ k.rule \in RuleArns \cup {None}
  BY Zenon DEF Job
<1>2. None \notin CertArns /\ \A x \in rules : x.arn # None
  BY Zenon, NoneAssumption DEF TypeOK
<1>3. CASE k.prov = "requesting_certificate" /\ k.cert = None
  <2>1. j = At(k, "request")
    BY Zenon, <1>3 DEF Dispatch
  <2>2. SameJob(k, j) /\ j.pc = "request" /\ j.got = None
    BY <2>1, AtFields DEF AwsSteps
  <2>. QED
    BY Zenon, <1>2, <1>3, <2>2 DEF SameJob, PcInv, JobAws, HeldAws
<1>4. CASE k.prov = "requesting_certificate" /\ k.cert # None
  <2>1. j = Decided(k, "advance", k.cert)
    BY Zenon, <1>4 DEF Dispatch
  <2>2. /\ SameJob(k, j) /\ j.pc = "write" /\ j.op = "advance" /\ j.got = k.cert
        /\ "advance" \in Ops
    BY <1>1, <2>1, DecidedFields DEF Ops
  <2>. QED
    BY Zenon, <1>1, <1>2, <1>4, <2>2 DEF SameJob, PcInv, JobAws, HeldAws, InProgress
<1>5. CASE k.prov = "deprovisioning" /\ k.rule # None
  <2>1. j = At(k, "deleteRule")
    BY Zenon, <1>5 DEF Dispatch
  <2>2. SameJob(k, j) /\ j.pc = "deleteRule" /\ j.got = None
    BY <2>1, AtFields DEF AwsSteps
  <2>. QED
    BY Zenon, <1>2, <1>5, <2>2 DEF SameJob, PcInv, JobAws, HeldAws
<1>6. CASE k.prov = "deprovisioning" /\ k.rule = None /\ k.cert # None
  <2>1. j = At(k, "detach")
    BY Zenon, <1>6 DEF Dispatch
  <2>2. SameJob(k, j) /\ j.pc = "detach" /\ j.got = None
    BY <2>1, AtFields DEF AwsSteps
  <2>. QED
    BY <1>2, <1>6, <2>2, Zenon DEF SameJob, PcInv, JobAws, HeldAws
<1>7. CASE k.prov = "deprovisioning" /\ k.rule = None /\ k.cert = None
  <2>1. j = Decided(k, "deprovisioned", None)
    BY Zenon, <1>7 DEF Dispatch
  <2>2. /\ SameJob(k, j) /\ j.pc = "write" /\ j.op = "deprovisioned" /\ j.got = None
        /\ "deprovisioned" \in Ops
    BY <2>1, DecidedFields DEF Ops
  <2>. QED
    BY <1>2, <1>7, <2>2, Zenon DEF SameJob, PcInv, JobAws, HeldAws
<1>8. CASE k.prov \in InProgress \ {"requesting_certificate"}
  <2>1. j = At(k, "describe")
    BY Zenon, <1>8 DEF Dispatch, InProgress
  <2>2. SameJob(k, j) /\ j.pc = "describe" /\ j.got = None
    BY <2>1, AtFields DEF AwsSteps
  <2>. QED
    BY <1>2, <1>8, <2>2, Zenon DEF SameJob, PcInv, JobAws, HeldAws
<1>. QED
  BY <1>3, <1>4, <1>5, <1>6, <1>7, <1>8, Zenon

\* ClaimNextProvisioningJob preserves the invariant: the new token is nobody's.
LEMMA ClaimPreserves ==
    ASSUME IInv, NEW w \in Workers, NEW d \in Domains, ClaimNextProvisioningJob(w, d)
    PROVE  IInv'
<1>. DEFINE t == AnyOf(UnusedTokens)
            r == row[d]
            n == [r EXCEPT !.lease = t, !.expired = FALSE]
            k == [Idle EXCEPT !.d = d, !.lease = t, !.prov = r.prov, !.host = r.host,
                              !.cert = r.cert, !.rule = r.rule, !.attempts = r.attempts]
            j == Dispatch(k)
<1>1. /\ t \in Tokens
      /\ \A e \in Domains : row[e].lease # t
      /\ \A v \in Workers : wk[v].lease # t
  <2>1. t \in UnusedTokens
    BY Zenon DEF ClaimNextProvisioningJob, AnyOf
  <2>. QED
    BY <2>1, Zenon DEF UnusedTokens
<1>2. /\ wk[w].pc = "idle" /\ r.state = "live" /\ r \in Row
      /\ r.prov \in InProgress \cup {"deprovisioning"}
      /\ row' = [row EXCEPT ![d] = n] /\ wk' = [wk EXCEPT ![w] = j]
      /\ UNCHANGED <<req, acm, attached, rules, ingress, faults>>
  BY Zenon DEF ClaimNextProvisioningJob, Live, aws, IInv, TypeOK
<1>. HIDE DEF t
<1>3. /\ n \in Row /\ n.state = "live" /\ n.host = r.host /\ n.prov = r.prov
      /\ n.cert = r.cert /\ n.rule = r.rule /\ n.lease = t
  BY <1>1, <1>2, Zenon DEF Row
<1>4. /\ k \in Job /\ k.pc = "idle" /\ k.d = d /\ k.lease = t /\ k.prov = r.prov
      /\ k.host = r.host /\ k.cert = r.cert /\ k.rule = r.rule /\ k.got = None
  <2>1. /\ r.prov \in Provs /\ r.host \in Hosts \cup {None} /\ r.cert \in CertArns \cup {None}
        /\ r.rule \in RuleArns \cup {None} /\ r.attempts \in 0 .. MaxAttempts
    BY Zenon, <1>2 DEF Row
  <2>. QED
    BY <1>1, <2>1, ZenonT(60) DEF Job, Idle
<1>. HIDE DEF n, k
<1>5. SameJob(k, j) /\ PcInv(j) /\ JobAws(j, acm, rules) /\ HeldAws(j, attached, rules)
  <2>1. k.prov \in InProgress \ {"requesting_certificate"} => k.cert # None
    BY Zenon, <1>4 DEF IInv, RowInv, CertificateRecorded
  <2>2. k.cert # None => acm[k.cert].d = k.d
    BY Zenon, <1>4 DEF IInv, RowAws
  <2>3. TypeOK
    BY Zenon DEF IInv
  <2>. QED
    BY <1>1, <1>2, <1>4, <2>1, <2>2, <2>3, DispatchFields, Zenon
<1>6. /\ j \in Job /\ j.pc # "idle" /\ j.d = d /\ j.lease = t /\ j.prov = r.prov
      /\ j.host = r.host /\ j.cert = r.cert /\ j.rule = r.rule
  BY Zenon, <1>4, <1>5 DEF SameJob
<1>. HIDE DEF j, r
<1>7. /\ \A e \in Domains : row'[e] = IF e = d THEN n ELSE row[e]
      /\ \A v \in Workers : wk'[v] = IF v = w THEN j ELSE wk[v]
  BY Zenon, <1>2 DEF IInv, TypeOK
<1>8. TypeOK'
  BY <1>2, <1>3, <1>6, Zenon DEF IInv, TypeOK
<1>9. \A v \in Workers : Busy(v) => wk[v].d \in Domains /\ wk[v].lease \in Tokens
  BY Zenon DEF IInv, JobInv, PcInv
<1>10. \A c \in Clients : req[c] # NoReq => req[c].d \in Domains
  BY Zenon DEF IInv, TypeOK, Request
<1>11. RowInv'
  <2>1. CertificateRecorded'
    BY <1>3, <1>7 DEF IInv, RowInv, CertificateRecorded, r
  <2>2. \A e \in Domains :
          /\ row'[e].state = row[e].state /\ row'[e].host = row[e].host
          /\ row'[e].prov = row[e].prov /\ row'[e].cert = row[e].cert
          /\ row'[e].rule = row[e].rule
          /\ row'[e].state # "live" => row'[e].lease = row[e].lease
    BY ZenonT(40), <1>2, <1>3, <1>7 DEF r
  <2>3. RowInv /\ UNCHANGED req
    BY Zenon, <1>2 DEF IInv
  <2>4. ASSUME NEW e \in Domains
        PROVE  /\ row'[e].state # "live" => row'[e].lease = None
               /\ row'[e].state = "absent" => /\ row'[e].prov = "not_started"
                                              /\ row'[e].cert = None /\ row'[e].rule = None
               /\ row'[e].state = "deleted" => row'[e].prov = "deprovisioned"
               /\ row'[e].state # "absent" => row'[e].host # None
    <3>1. /\ row[e].state # "live" => row[e].lease = None
          /\ row[e].state = "absent" => /\ row[e].prov = "not_started"
                                        /\ row[e].cert = None /\ row[e].rule = None
          /\ row[e].state = "deleted" => row[e].prov = "deprovisioned"
          /\ row[e].state # "absent" => row[e].host # None
      BY Zenon, <2>3 DEF RowInv
    <3>. QED
      BY <2>2, <3>1
  <2>5. \A e, f \in Domains :
          row'[e].state = "live" /\ row'[f].state = "live" /\ row'[e].host = row'[f].host => e = f
    <3>1. \A e, f \in Domains :
            row[e].state = "live" /\ row[f].state = "live" /\ row[e].host = row[f].host => e = f
      BY Zenon, <2>3 DEF RowInv
    <3>. QED
      BY <2>2, <3>1
  <2>6. \A c \in Clients : req'[c] # NoReq =>
          /\ row'[req'[c].d].state # "absent"
          /\ req'[c].kind = "retry" => req'[c].to \in InProgress
          /\ req'[c].kind = "retry" /\ req'[c].to # "requesting_certificate" =>
                row'[req'[c].d].cert # None
    <3>1. \A c \in Clients : req[c] # NoReq =>
            /\ row'[req[c].d].state = row[req[c].d].state
            /\ row'[req[c].d].cert = row[req[c].d].cert
      BY Zenon, <1>10, <2>2
    <3>. QED
      BY Zenon, <2>3, <3>1 DEF RowInv
  <2>. QED
    BY Zenon, <2>1, <2>4, <2>5, <2>6 DEF RowInv, NoReq
<1>12. JobInv'
  <2>1. SnapshotCurrent'
    BY <1>1, <1>2, <1>3, <1>6, <1>7 DEF IInv, JobInv, SnapshotCurrent, r
  <2>2. \A v \in Workers : Busy(v)' => PcInv(wk'[v])
    BY <1>5, <1>7, Zenon DEF IInv, JobInv, Busy
  <2>3. \A v \in Workers, e \in Domains :
          Busy(v)' /\ row'[e].lease = wk'[v].lease => wk'[v].d = e
    BY <1>1, <1>3, <1>6, <1>7 DEF IInv, JobInv, Busy
  <2>4. \A u, v \in Workers : Busy(u)' /\ Busy(v)' /\ wk'[u].lease = wk'[v].lease => u = v
    <3>1. \A u, v \in Workers : Busy(u) /\ Busy(v) /\ wk[u].lease = wk[v].lease => u = v
      BY Zenon DEF IInv, JobInv
    <3>2. wk'[w].lease = t /\ \A v \in Workers : v # w => wk'[v] = wk[v] /\ (Busy(v)' <=> Busy(v))
      BY Zenon, <1>6, <1>7 DEF Busy
    <3>3. \A v \in Workers : Busy(v) => wk[v].lease # t
      BY <1>1 DEF Busy
    <3>. QED
      BY <3>1, <3>2, <3>3
  <2>5. \A v \in Workers : Busy(v)' =>
          /\ row'[wk'[v].d].state # "absent" /\ row'[wk'[v].d].host = wk'[v].host
          /\ wk'[v].prov = "deprovisioning" =>
                /\ row'[wk'[v].d].prov \in Removal
                /\ row'[wk'[v].d].cert = wk'[v].cert /\ row'[wk'[v].d].rule = wk'[v].rule
    <3>1. \A v \in Workers : Busy(v) =>
            /\ row[wk[v].d].state # "absent" /\ row[wk[v].d].host = wk[v].host
            /\ wk[v].prov = "deprovisioning" =>
                  /\ row[wk[v].d].prov \in Removal
                  /\ row[wk[v].d].cert = wk[v].cert /\ row[wk[v].d].rule = wk[v].rule
      BY Zenon DEF IInv, JobInv
    <3>2. "deprovisioning" \in Removal
      BY ZenonT(40) DEF Removal
    <3>. QED
      BY <1>2, <1>3, <1>6, <1>7, <1>9, <3>1, <3>2 DEF Busy, r
  <2>. QED
    BY ZenonT(40), <2>1, <2>2, <2>3, <2>4, <2>5 DEF JobInv
<1>13. RowAws'
  <2>1. CompletedIsServed'
    <3>1. CompletedIsServed
      BY Zenon DEF IInv, RowAws
    <3>. QED
      BY <1>2, <1>3, <1>7, <3>1 DEF CompletedIsServed, r
  <2>2. \A e \in Domains :
          /\ row'[e].state = row[e].state /\ row'[e].host = row[e].host
          /\ row'[e].cert = row[e].cert /\ row'[e].rule = row[e].rule
    BY Zenon, <1>2, <1>3, <1>7 DEF r
  <2>. QED
    <3>1. RowAws
      BY Zenon DEF IInv
    <3>2. (\A a \in attached' : acm'[a].st # "absent")
          /\ \A x, y \in rules' : x.arn = y.arn => x = y
      BY Zenon, <1>2, <3>1 DEF RowAws
    <3>3. ASSUME NEW e \in Domains
          PROVE  /\ row'[e].cert # None => acm'[row'[e].cert].d = e
                 /\ \A x \in rules' : x.arn = row'[e].rule => x.host = row'[e].host
                 /\ row'[e].state = "deleted" =>
                       /\ \A x \in rules' : x.arn # row'[e].rule
                       /\ row'[e].cert # None => acm'[row'[e].cert].st = "absent"
      <4>1. /\ row[e].cert # None => acm[row[e].cert].d = e
            /\ \A x \in rules : x.arn = row[e].rule => x.host = row[e].host
            /\ row[e].state = "deleted" =>
                  /\ \A x \in rules : x.arn # row[e].rule
                  /\ row[e].cert # None => acm[row[e].cert].st = "absent"
        BY Zenon, <3>1 DEF RowAws
      <4>2. /\ row'[e].state = row[e].state /\ row'[e].host = row[e].host
            /\ row'[e].cert = row[e].cert /\ row'[e].rule = row[e].rule
        BY Zenon, <2>2
      <4>. QED
        BY <1>2, <4>1, <4>2
    <3>4. \A c, e \in Domains : row'[c].rule # None /\ row'[c].rule = row'[e].rule => c = e
      <4>1. \A c, e \in Domains : row[c].rule # None /\ row[c].rule = row[e].rule => c = e
        BY Zenon, <3>1 DEF RowAws
      <4>. QED
        BY <2>2, <4>1
    <3>. QED
      BY Zenon, <2>1, <3>2, <3>3, <3>4 DEF RowAws
<1>14. WorkerAws'
  <2>1. \A v \in Workers : Holds(v)' => v = w \/ (Holds(v) /\ wk'[v] = wk[v])
    BY <1>1, <1>3, <1>7, <1>9 DEF Holds, Busy
  <2>. QED
    BY <1>2, <1>5, <1>7, <2>1 DEF IInv, WorkerAws, Busy
<1>. QED
  BY Zenon, <1>8, <1>11, <1>12, <1>13, <1>14 DEF IInv

----------------------------------------------------------------------------
(* The steps of a handler. *)

\* Worker w goes on with its job, to j.
Steps(w, j) ==
    /\ Busy(w) /\ SameJob(wk[w], j) /\ PcInv(j)
    /\ wk' = [wk EXCEPT ![w] = j]
    /\ UNCHANGED <<row, req, ingress>>
    /\ faults' \in 0 .. MaxFaults

\* A handler step preserves the invariant if what the other workers and the rows
\* rely on in AWS is still there.
LEMMA StepsPreserve ==
    ASSUME IInv, NEW w \in Workers, NEW j, Steps(w, j),
           acm' \in [CertArns -> [st: {"absent", "REQUESTED", "PENDING_VALIDATION", "ISSUED",
                                       "FAILED", "EXPIRED"}, d: Domains \cup {None}]],
           attached' \subseteq CertArns,
           rules' \subseteq [arn: RuleArns, host: Hosts, tg: TargetGroups],
           RowAws',
           \A v \in Workers : Busy(v) /\ v # w => JobAws(wk[v], acm', rules'),
           \A v \in Workers : Holds(v) /\ v # w => HeldAws(wk[v], attached', rules'),
           JobAws(j, acm', rules'),
           Holds(w) => HeldAws(j, attached', rules')
    PROVE  IInv'
<1>1. /\ \A v \in Workers : wk'[v] = IF v = w THEN j ELSE wk[v]
      /\ row' = row /\ req' = req /\ ingress' = ingress
  BY Zenon DEF IInv, TypeOK, Steps
<1>2. /\ j \in Job /\ j.pc # "idle" /\ j.d = wk[w].d /\ j.lease = wk[w].lease
      /\ j.prov = wk[w].prov /\ j.host = wk[w].host /\ j.cert = wk[w].cert
      /\ j.rule = wk[w].rule /\ Busy(w) /\ PcInv(j)
  BY Zenon DEF Steps, SameJob
<1>3. TypeOK'
  BY Zenon, <1>1, <1>2 DEF IInv, TypeOK, Steps
<1>4. RowInv'
  BY <1>1, Zenon DEF IInv, RowInv, CertificateRecorded
<1>5. \A v \in Workers : Busy(v)' <=> Busy(v)
  BY <1>1, <1>2, Zenon DEF Busy
<1>6. \A v \in Workers :
         /\ wk'[v].d = wk[v].d /\ wk'[v].lease = wk[v].lease /\ wk'[v].prov = wk[v].prov
         /\ wk'[v].host = wk[v].host /\ wk'[v].cert = wk[v].cert /\ wk'[v].rule = wk[v].rule
  BY <1>1, <1>2, ZenonT(40)
<1>7. JobInv'
  <2>1. SnapshotCurrent'
    <3>1. SnapshotCurrent
      BY Zenon DEF IInv, JobInv
    <3>. QED
      BY <1>1, <1>5, <1>6, <3>1 DEF SnapshotCurrent, Busy
  <2>2. \A v \in Workers : Busy(v)' => PcInv(wk'[v])
    BY <1>1, <1>2, <1>5, Zenon DEF IInv, JobInv
  <2>3. JobInv
    BY Zenon DEF IInv
  <2>4. ASSUME NEW v \in Workers, Busy(v)
        PROVE  /\ row'[wk'[v].d].state # "absent" /\ row'[wk'[v].d].host = wk'[v].host
               /\ wk'[v].prov = "deprovisioning" =>
                     /\ row'[wk'[v].d].prov \in Removal
                     /\ row'[wk'[v].d].cert = wk'[v].cert /\ row'[wk'[v].d].rule = wk'[v].rule
    <3>1. /\ row[wk[v].d].state # "absent" /\ row[wk[v].d].host = wk[v].host
          /\ wk[v].prov = "deprovisioning" =>
                /\ row[wk[v].d].prov \in Removal
                /\ row[wk[v].d].cert = wk[v].cert /\ row[wk[v].d].rule = wk[v].rule
      BY Zenon, <2>3, <2>4 DEF JobInv
    <3>2. row' = row
      BY Zenon, <1>1
    <3>. QED
      BY <1>6, <3>1, <3>2
  <2>5. \A u, v \in Workers : Busy(u)' /\ Busy(v)' /\ wk'[u].lease = wk'[v].lease => u = v
    <3>1. \A u, v \in Workers : Busy(u) /\ Busy(v) /\ wk[u].lease = wk[v].lease => u = v
      BY Zenon, <2>3 DEF JobInv
    <3>. QED
      BY Zenon, <1>5, <1>6, <3>1
  <2>6. \A v \in Workers, e \in Domains :
          Busy(v)' /\ row'[e].lease = wk'[v].lease => wk'[v].d = e
    <3>1. \A v \in Workers, e \in Domains : Busy(v) /\ row[e].lease = wk[v].lease => wk[v].d = e
      BY Zenon, <2>3 DEF JobInv
    <3>. QED
      BY <1>1, <1>5, <1>6, <3>1
  <2>. QED
    BY Zenon, <1>5, <2>1, <2>2, <2>4, <2>5, <2>6 DEF JobInv
<1>8. WorkerAws'
  <2>1. \A v \in Workers : Holds(v)' <=> Holds(v)
    BY <1>1, <1>5, <1>6, Zenon DEF Holds
  <2>. QED
    BY <1>1, <1>5, <2>1, Zenon DEF WorkerAws
<1>. QED
  BY Zenon, <1>3, <1>4, <1>7, <1>8 DEF IInv

\* The same for a step that changes nothing in AWS.
LEMMA QuietPreserves ==
    ASSUME IInv, NEW w \in Workers, NEW j, Steps(w, j), UNCHANGED <<acm, attached, rules>>,
           JobAws(j, acm, rules), Holds(w) => HeldAws(j, attached, rules)
    PROVE  IInv'
<1>1. RowAws'
  BY Zenon DEF IInv, Steps, RowAws, CompletedIsServed
<1>2. /\ \A v \in Workers : Busy(v) => JobAws(wk[v], acm', rules')
      /\ \A v \in Workers : Holds(v) => HeldAws(wk[v], attached', rules')
  BY Zenon DEF IInv, WorkerAws
<1>. QED
  BY Zenon, <1>1, <1>2, StepsPreserve DEF IInv, TypeOK

\* Deciding on an UPDATE that records no new resource needs to know nothing of AWS.
LEMMA DecideFacts ==
    ASSUME IInv, NEW w \in Workers, Busy(w), NEW m, NEW A, NEW R,
           wk[w].cert # None => m[wk[w].cert].d = wk[w].d,
           NEW op \in Ops \ {"complete", "deprovisioned"},
           op = "advance" => wk[w].prov \in {"waiting_for_validation_record", "waiting_for_dns"},
           op \in {"fail", "poll"} => wk[w].prov \in InProgress,
           op = "deprovision_failed" => wk[w].prov = "deprovisioning"
    PROVE  LET j == Decided(wk[w], op, None)
           IN  SameJob(wk[w], j) /\ PcInv(j) /\ JobAws(j, m, R) /\ HeldAws(j, A, R)
<1>. DEFINE j == Decided(wk[w], op, None)
<1>1. wk[w] \in Job /\ PcInv(wk[w])
  BY Zenon DEF IInv, TypeOK, JobInv
<1>2. SameJob(wk[w], j) /\ j.pc = "write" /\ j.op = op /\ j.got = None
  BY <1>1, DecidedFields
<1>. HIDE DEF j
<1>3. PcInv(j)
  BY <1>1, <1>2, Zenon DEF PcInv, SameJob, InProgress
<1>4. JobAws(j, m, R) /\ HeldAws(j, A, R)
  BY <1>2, NoneAssumption, Zenon DEF JobAws, HeldAws, SameJob
<1>. QED
  BY <1>2, <1>3, <1>4, Zenon DEF j

\* Deciding on an UPDATE preserves the invariant.
LEMMA DecidePreserves ==
    ASSUME IInv, NEW w \in Workers, Busy(w), NEW op \in Ops \ {"complete", "deprovisioned"},
           op = "advance" => wk[w].prov \in {"waiting_for_validation_record", "waiting_for_dns"},
           op \in {"fail", "poll"} => wk[w].prov \in InProgress,
           op = "deprovision_failed" => wk[w].prov = "deprovisioning",
           Decide(w, op), Fault \/ UNCHANGED faults,
           UNCHANGED <<row, req, acm, attached, rules, ingress>>
    PROVE  IInv'
<1>. DEFINE j == Decided(wk[w], op, None)
<1>1. wk[w].cert # None => acm[wk[w].cert].d = wk[w].d
  BY Zenon DEF IInv, WorkerAws, JobAws
<1>2. SameJob(wk[w], j) /\ PcInv(j) /\ JobAws(j, acm, rules) /\ HeldAws(j, attached, rules)
  BY <1>1, DecideFacts, Zenon
<1>3. faults' \in 0 .. MaxFaults
  BY FaultCounted, Zenon DEF IInv
<1>4. wk' = [wk EXCEPT ![w] = j]
  BY Zenon DEF Decide
<1>. HIDE DEF j
<1>5. Steps(w, j)
  BY Zenon, <1>2, <1>3, <1>4 DEF Steps
<1>. QED
  BY <1>2, <1>5, QuietPreserves, Zenon

\* A failing AWS call preserves the invariant.
LEMMA AwsErrorPreserves == ASSUME IInv, NEW w \in Workers, AwsError(w) PROVE IInv'
<1>1. Busy(w) /\ UNCHANGED <<row, req, acm, attached, rules, ingress>> /\ Fault
  BY Zenon DEF AwsError, Busy, AwsSteps, aws
<1>2. wk[w].prov \in InProgress \cup {"deprovisioning"}
  BY <1>1, Zenon DEF IInv, JobInv, PcInv
<1>3. CASE Decide(w, "retry")
  BY <1>1, <1>3, DecidePreserves, Zenon DEF Ops
<1>4. CASE Decide(w, "fail") /\ wk[w].prov # "deprovisioning"
  BY Zenon, <1>1, <1>2, <1>4, DecidePreserves DEF Ops
<1>5. CASE Decide(w, "deprovision_failed") /\ wk[w].prov = "deprovisioning"
  BY Zenon, <1>1, <1>5, DecidePreserves DEF Ops
<1>. QED
  BY Zenon, <1>3, <1>4, <1>5 DEF AwsError

\* DescribeCertificate and what the handlers decide preserve the invariant.
LEMMA DescribePreserves ==
    ASSUME IInv, NEW w \in Workers,
           \/ handleWaitingForValidationRecord(w) \/ handleWaitingForDNS(w)
           \/ ReverifyCertificate(w)
    PROVE  IInv'
<1>1. /\ Busy(w) /\ UNCHANGED <<row, req, acm, attached, rules, ingress>>
      /\ Fault \/ UNCHANGED faults
      /\ wk[w].pc = "describe"
  BY Zenon DEF handleWaitingForValidationRecord, handleWaitingForDNS, ReverifyCertificate, Busy, aws
<1>2. PcInv(wk[w]) /\ wk[w] \in Job /\ wk[w].prov \in InProgress \ {"requesting_certificate"}
  BY <1>1, Zenon DEF IInv, JobInv, PcInv, TypeOK
<1>3. ASSUME NEW op \in {"fail", "poll", "retry"}, Decide(w, op) PROVE IInv'
  BY <1>1, <1>2, <1>3, DecidePreserves, Zenon DEF Ops
<1>4. CASE Decide(w, "advance") /\ wk[w].prov \in {"waiting_for_validation_record", "waiting_for_dns"}
  BY ZenonT(40), <1>1, <1>4, DecidePreserves DEF Ops
<1>5. CASE wk' = [wk EXCEPT ![w] = At(wk[w], "attach")] /\ wk[w].prov = "attaching_certificate"
  <2>. DEFINE j == At(wk[w], "attach")
  <2>1. SameJob(wk[w], j) /\ j.pc = "attach" /\ j.got = wk[w].got
    BY ZenonT(40), <1>2, AtFields DEF AwsSteps
  <2>2. JobAws(wk[w], acm, rules)
    BY Zenon, <1>1 DEF IInv, WorkerAws
  <2>3. wk' = [wk EXCEPT ![w] = j] /\ faults' \in 0 .. MaxFaults
    BY Zenon, <1>1, <1>5, FaultCounted DEF IInv
  <2>. HIDE DEF j
  <2>4. PcInv(j) /\ JobAws(j, acm, rules) /\ HeldAws(j, attached, rules)
    BY <1>1, <1>2, <1>5, <2>1, <2>2, Zenon DEF PcInv, JobAws, HeldAws, SameJob
  <2>5. Steps(w, j)
    BY Zenon, <1>1, <2>1, <2>3, <2>4 DEF Steps
  <2>. QED
    BY Zenon, <1>1, <2>4, <2>5, QuietPreserves
<1>6. CASE handleWaitingForValidationRecord(w)
  BY <1>3, <1>4, <1>6, Zenon DEF handleWaitingForValidationRecord
<1>7. CASE handleWaitingForDNS(w)
  BY <1>3, <1>4, <1>7, Zenon DEF handleWaitingForDNS
<1>8. CASE ReverifyCertificate(w)
  BY <1>3, <1>5, <1>8, Zenon DEF ReverifyCertificate
<1>. QED
  BY Zenon, <1>6, <1>7, <1>8

\* The alternatives of Goes: the handler is at its next point, or retries.
LEMMA GoesSteps ==
    ASSUME IInv, NEW w \in Workers, Busy(w), NEW next, Goes(w, next),
           SameJob(wk[w], next), PcInv(next), UNCHANGED <<row, req, ingress>>,
           NEW m, NEW A, NEW R,
           wk[w].cert # None => m[wk[w].cert].d = wk[w].d,
           JobAws(next, m, R), Holds(w) => HeldAws(next, A, R)
    PROVE  \E j : Steps(w, j) /\ JobAws(j, m, R) /\ (Holds(w) => HeldAws(j, A, R))
<1>1. faults' \in 0 .. MaxFaults
  BY FaultCounted, Zenon DEF IInv, Goes
<1>2. CASE wk' = [wk EXCEPT ![w] = next]
  <2>1. Steps(w, next)
    BY Zenon, <1>1, <1>2 DEF Steps
  <2>. QED
    BY <2>1, Zenon
<1>3. CASE Decide(w, "retry")
  <2>. DEFINE j == Decided(wk[w], "retry", None)
  <2>1. SameJob(wk[w], j) /\ PcInv(j) /\ JobAws(j, m, R) /\ HeldAws(j, A, R)
    BY DecideFacts, Zenon DEF Ops
  <2>2. wk' = [wk EXCEPT ![w] = j]
    BY <1>3, Zenon DEF Decide
  <2>. HIDE DEF j
  <2>3. Steps(w, j)
    BY <1>1, <2>1, <2>2, Zenon DEF Steps
  <2>. QED
    BY <2>1, <2>3, Zenon
<1>. QED
  BY <1>2, <1>3, Zenon DEF Goes

\* The facts about a busy worker every handler step starts from.
LEMMA BusyFacts ==
    ASSUME IInv, NEW w \in Workers, Busy(w)
    PROVE  /\ wk[w] \in Job /\ PcInv(wk[w]) /\ JobAws(wk[w], acm, rules)
           /\ wk[w].d \in Domains /\ wk[w].cert \in CertArns \cup {None}
           /\ wk[w].rule \in RuleArns \cup {None}
           /\ wk[w].host \in Hosts /\ row[wk[w].d].host = wk[w].host
           /\ wk[w].cert # None => acm[wk[w].cert].d = wk[w].d
           /\ Holds(w) => HeldAws(wk[w], attached, rules)
           /\ Holds(w) => row[wk[w].d].prov = wk[w].prov /\ row[wk[w].d].state = "live"
<1>1. /\ wk[w] \in Job /\ PcInv(wk[w]) /\ JobAws(wk[w], acm, rules)
      /\ wk[w].d \in Domains /\ wk[w].cert \in CertArns \cup {None}
      /\ wk[w].rule \in RuleArns \cup {None} /\ wk[w].host \in Hosts \cup {None}
  BY ZenonT(40), Zenon DEF IInv, TypeOK, JobInv, PcInv, Job, WorkerAws
<1>2. row[wk[w].d].host = wk[w].host /\ wk[w].host # None
  BY <1>1 DEF IInv, JobInv, RowInv
<1>3. wk[w].cert # None => acm[wk[w].cert].d = wk[w].d
  BY Zenon, <1>1 DEF JobAws
<1>4. Holds(w) => HeldAws(wk[w], attached, rules)
  BY Zenon DEF IInv, WorkerAws
<1>5. Holds(w) => row[wk[w].d].prov = wk[w].prov /\ row[wk[w].d].state = "live"
  BY <1>1, Zenon DEF IInv, JobInv, SnapshotCurrent, Holds, Busy
<1>. QED
  BY <1>1, <1>2, <1>3, <1>4, <1>5, Zenon

----------------------------------------------------------------------------
(* The steps that call AWS. *)

\* GetActiveProjectGatewayIngress preserves the invariant.
LEMMA ResolvePreserves ==
    ASSUME IInv, NEW w \in Workers, GetActiveProjectGatewayIngress(w)
    PROVE  IInv'
<1>1. /\ Busy(w) /\ UNCHANGED <<row, req, acm, attached, rules, ingress>>
      /\ wk[w].pc = "resolve"
  BY Zenon DEF GetActiveProjectGatewayIngress, Busy, aws
<1>2. CASE Decide(w, "retry") /\ UNCHANGED faults
  BY <1>1, <1>2, DecidePreserves, Zenon DEF Ops
<1>3. CASE ingress # None /\ Goes(w, [wk[w] EXCEPT !.pc = "ensure", !.tg = ingress])
  <2>. DEFINE n == [wk[w] EXCEPT !.pc = "ensure", !.tg = ingress]
  <2>1. /\ wk[w] \in Job /\ PcInv(wk[w]) /\ JobAws(wk[w], acm, rules)
        /\ wk[w].cert # None => acm[wk[w].cert].d = wk[w].d
        /\ Holds(w) => HeldAws(wk[w], attached, rules)
    BY <1>1, BusyFacts, Zenon
  <2>2. ingress \in TargetGroups \cup {None}
    BY Zenon DEF IInv, TypeOK
  <2>3. n \in Job
    <3>. DEFINE W == AwsSteps \cup {"idle", "resolve", "write"}
                T == TargetGroups \cup {None}
    <3>1. "ensure" \in W /\ ingress \in T
      BY Zenon, <2>2 DEF AwsSteps
    <3>2. Job = [pc: W, d: Domains \cup {None}, lease: Tokens \cup {None},
                 prov: Provs \cup {None}, host: Hosts \cup {None}, cert: CertArns \cup {None},
                 rule: RuleArns \cup {None}, attempts: 0 .. MaxAttempts, tg: T,
                 got: CertArns \cup RuleArns \cup {None}, op: Ops \cup {None}]
      BY Zenon DEF Job
    <3>. HIDE DEF W, T
    <3>. QED
      BY <2>1, <3>1, <3>2, ZenonT(60)
  <2>4. /\ n.pc = "ensure" /\ n.tg = ingress /\ n.got = wk[w].got /\ n.d = wk[w].d
        /\ n.lease = wk[w].lease /\ n.prov = wk[w].prov /\ n.host = wk[w].host
        /\ n.cert = wk[w].cert /\ n.rule = wk[w].rule
    BY Zenon, <2>1 DEF Job
  <2>5. Goes(w, n)
    BY Zenon, <1>3
  <2>. HIDE DEF n
  <2>6. SameJob(wk[w], n)
    BY Zenon, <2>3, <2>4 DEF SameJob
  <2>7. PcInv(n)
    BY Zenon, <1>1, <1>3, <2>1, <2>4 DEF PcInv
  <2>8. JobAws(n, acm, rules) /\ (Holds(w) => HeldAws(n, attached, rules))
    BY <1>1, <2>1, <2>4, Zenon DEF JobAws, HeldAws
  <2>9. \E j : Steps(w, j) /\ JobAws(j, acm, rules) /\ (Holds(w) => HeldAws(j, attached, rules))
    BY <1>1, <2>1, <2>5, <2>6, <2>7, <2>8, GoesSteps, Zenon
  <2>. QED
    BY Zenon, <1>1, <2>9, QuietPreserves
<1>. QED
  BY Zenon, <1>2, <1>3 DEF GetActiveProjectGatewayIngress

\* AttachCertificateToListener preserves the invariant.
LEMMA AttachPreserves ==
    ASSUME IInv, NEW w \in Workers, AttachCertificateToListener(w)
    PROVE  IInv'
<1>1. Busy(w) /\ UNCHANGED <<row, req, acm, rules, ingress>> /\ wk[w].pc = "attach"
  BY Zenon DEF AttachCertificateToListener, Busy
<1>2. CASE Decide(w, "retry") /\ UNCHANGED <<attached, faults>>
  BY Zenon, <1>1, <1>2, DecidePreserves DEF Ops
<1>3. CASE /\ acm[wk[w].cert].st # "absent"
           /\ attached' = attached \cup {wk[w].cert} /\ Goes(w, At(wk[w], "resolve"))
  <2>. DEFINE n == At(wk[w], "resolve")
  <2>1. /\ wk[w] \in Job /\ PcInv(wk[w]) /\ JobAws(wk[w], acm, rules)
        /\ wk[w].cert \in CertArns \cup {None}
        /\ wk[w].cert # None => acm[wk[w].cert].d = wk[w].d
    BY <1>1, BusyFacts, Zenon
  <2>2. wk[w].cert \in CertArns
    BY <1>1, <2>1, Zenon DEF PcInv
  <2>3. SameJob(wk[w], n) /\ n.pc = "resolve" /\ n.got = wk[w].got /\ Goes(w, n)
    BY <1>3, <2>1, AtFields, Zenon
  <2>. HIDE DEF n
  <2>4. PcInv(n) /\ JobAws(n, acm', rules') /\ HeldAws(n, attached', rules')
    BY <1>1, <1>3, <2>1, <2>3, Zenon DEF PcInv, JobAws, HeldAws, SameJob
  <2>5. PICK j : /\ Steps(w, j) /\ JobAws(j, acm', rules')
                 /\ Holds(w) => HeldAws(j, attached', rules')
    BY <1>1, <2>1, <2>3, <2>4, GoesSteps, Zenon
  <2>6. RowAws'
    <3>1. CompletedIsServed'
      BY <1>1, <1>3, Zenon DEF IInv, RowAws, CompletedIsServed
    <3>. QED
      BY <1>1, <1>3, <3>1, Zenon DEF IInv, RowAws
  <2>7. \A v \in Workers : Busy(v) => JobAws(wk[v], acm', rules')
    BY <1>1, Zenon DEF IInv, WorkerAws
  <2>8. \A v \in Workers : Holds(v) => HeldAws(wk[v], attached', rules')
    BY <1>1, <1>3, Zenon DEF IInv, WorkerAws, HeldAws
  <2>. QED
    BY <1>1, <1>3, <2>2, <2>5, <2>6, <2>7, <2>8, StepsPreserve, Zenon DEF IInv, TypeOK
<1>. QED
  BY <1>2, <1>3, Zenon DEF AttachCertificateToListener

\* RequestCertificate preserves the invariant: a new ARN is nobody's, and one the
\* idempotency token returns again belongs to the same row.
LEMMA RequestPreserves == ASSUME IInv, NEW w \in Workers, RequestCertificate(w) PROVE IInv'
<1>1. Busy(w) /\ UNCHANGED <<row, req, attached, rules, ingress>> /\ wk[w].pc = "request"
  BY Zenon DEF RequestCertificate, Busy
<1>2. /\ wk[w] \in Job /\ PcInv(wk[w]) /\ wk[w].d \in Domains
      /\ wk[w].cert = None /\ wk[w].prov = "requesting_certificate"
  BY <1>1, BusyFacts, Zenon DEF PcInv
<1>3. ASSUME NEW a \in CertArns
      PROVE  LET n == Decided(wk[w], "advance", a)
             IN  /\ SameJob(wk[w], n) /\ n.pc = "write" /\ n.op = "advance" /\ n.got = a
                 /\ PcInv(n)
  <2>. DEFINE n == Decided(wk[w], "advance", a)
  <2>1. SameJob(wk[w], n) /\ n.pc = "write" /\ n.op = "advance" /\ n.got = a
    BY <1>2, DecidedFields DEF Ops
  <2>. HIDE DEF n
  <2>2. PcInv(n)
    BY <1>2, <2>1, Zenon DEF PcInv, SameJob, Ops, InProgress
  <2>. QED
    BY Zenon, <2>1, <2>2 DEF n
<1>4. CASE \E a \in CertArns :
             /\ acm[a].st # "absent" /\ acm[a].d = wk[w].d
             /\ Goes(w, Decided(wk[w], "advance", a))
             /\ UNCHANGED acm
  <2>1. PICK a \in CertArns : /\ acm[a].d = wk[w].d /\ UNCHANGED acm
                              /\ Goes(w, Decided(wk[w], "advance", a))
    BY Zenon, <1>4
  <2>. DEFINE n == Decided(wk[w], "advance", a)
  <2>2. SameJob(wk[w], n) /\ n.pc = "write" /\ n.op = "advance" /\ n.got = a /\ PcInv(n)
    BY Zenon, <1>3
  <2>3. Goes(w, n)
    BY <2>1, Zenon
  <2>. HIDE DEF n
  <2>4. JobAws(n, acm, rules) /\ HeldAws(n, attached, rules)
    BY <1>2, <2>1, <2>2, Zenon DEF JobAws, HeldAws, SameJob
  <2>5. \E j : Steps(w, j) /\ JobAws(j, acm, rules) /\ (Holds(w) => HeldAws(j, attached, rules))
    BY <1>1, <1>2, <2>2, <2>3, <2>4, GoesSteps, Zenon
  <2>. QED
    BY <1>1, <2>1, <2>5, QuietPreserves, Zenon
<1>5. CASE \E a \in UnusedCerts :
             /\ acm' = [acm EXCEPT ![a] = [st |-> "REQUESTED", d |-> wk[w].d]]
             /\ \/ Goes(w, Decided(wk[w], "advance", a))
                \/ Fault /\ wk' = [wk EXCEPT ![w] = Decided(wk[w], "advance", a)]
  <2>1. PICK a \in UnusedCerts :
             /\ acm' = [acm EXCEPT ![a] = [st |-> "REQUESTED", d |-> wk[w].d]]
             /\ \/ Goes(w, Decided(wk[w], "advance", a))
                \/ Fault /\ wk' = [wk EXCEPT ![w] = Decided(wk[w], "advance", a)]
    BY <1>5, Zenon
  <2>2. /\ a \in CertArns /\ acm[a].st = "absent"
        /\ \A d \in Domains : row[d].cert # a
        /\ \A v \in Workers : wk[v].cert # a /\ wk[v].got # a
    BY Zenon DEF UnusedCerts
  <2>3. /\ acm' \in [CertArns -> [st: {"absent", "REQUESTED", "PENDING_VALIDATION", "ISSUED",
                                       "FAILED", "EXPIRED"}, d: Domains \cup {None}]]
        /\ acm'[a].d = wk[w].d /\ acm'[a].st # "absent"
        /\ \A b \in CertArns : b # a => acm'[b] = acm[b]
    BY <1>2, <2>1, <2>2, Zenon DEF IInv, TypeOK
  <2>. DEFINE n == Decided(wk[w], "advance", a)
  <2>4. SameJob(wk[w], n) /\ n.pc = "write" /\ n.op = "advance" /\ n.got = a /\ PcInv(n)
    BY <1>3, <2>2, Zenon
  <2>5. Goes(w, n) \/ (Fault /\ wk' = [wk EXCEPT ![w] = n])
    BY Zenon, <2>1
  <2>. HIDE DEF n
  <2>6. JobAws(n, acm', rules') /\ HeldAws(n, attached', rules')
    BY Zenon, <1>2, <2>3, <2>4 DEF JobAws, HeldAws, SameJob
  <2>7. PICK j : /\ Steps(w, j) /\ JobAws(j, acm', rules')
                 /\ Holds(w) => HeldAws(j, attached', rules')
    <3>1. CASE Goes(w, n)
      BY <1>1, <1>2, <2>4, <2>6, <3>1, GoesSteps, Zenon
    <3>2. CASE Fault /\ wk' = [wk EXCEPT ![w] = n]
      <4>1. faults' \in 0 .. MaxFaults
        BY Zenon, <3>2, FaultCounted DEF IInv
      <4>2. Steps(w, n)
        BY ZenonT(40), <1>1, <2>4, <3>2, <4>1 DEF Steps
      <4>. QED
        BY Zenon, <2>6, <4>2
    <3>. QED
      BY Zenon, <2>5, <3>1, <3>2
  <2>8. \A d \in Domains : row[d].cert # None => row[d].cert \in CertArns /\ row[d].cert # a
    BY Zenon, <2>2 DEF IInv, TypeOK, Row
  <2>9. RowAws'
    <3>1. UNCHANGED <<row, attached, rules>>
      BY Zenon, <1>1
    <3>2. \A d \in Domains : row[d].cert # None => acm'[row[d].cert] = acm[row[d].cert]
      BY <2>3, <2>8, Zenon
    <3>3. CompletedIsServed'
      <4>1. \A d \in Domains : row[d].prov = "completed" => row[d].cert # None
        BY Zenon DEF IInv, RowInv, CertificateRecorded
      <4>2. CompletedIsServed
        BY Zenon DEF IInv, RowAws
      <4>. QED
        BY <3>1, <3>2, <4>1, <4>2, Zenon DEF CompletedIsServed
    <3>4. \A b \in attached' : acm'[b].st # "absent"
      <4>1. attached \subseteq CertArns /\ \A b \in attached : acm[b].st # "absent"
        BY Zenon DEF IInv, RowAws, TypeOK
      <4>. QED
        BY <2>3, <3>1, <4>1, Zenon
    <3>5. \A d \in Domains :
             /\ row'[d].cert # None => acm'[row'[d].cert].d = d
             /\ \A x \in rules' : x.arn = row'[d].rule => x.host = row'[d].host
             /\ row'[d].state = "deleted" =>
                   /\ \A x \in rules' : x.arn # row'[d].rule
                   /\ row'[d].cert # None => acm'[row'[d].cert].st = "absent"
      BY <3>1, <3>2, Zenon DEF IInv, RowAws
    <3>6. /\ \A x, y \in rules' : x.arn = y.arn => x = y
          /\ \A d, e \in Domains : row'[d].rule # None /\ row'[d].rule = row'[e].rule => d = e
      BY <3>1, Zenon DEF IInv, RowAws
    <3>. QED
      BY <3>3, <3>4, <3>5, <3>6, Zenon DEF RowAws
  <2>10. \A v \in Workers : Busy(v) => JobAws(wk[v], acm', rules')
    <3>1. \A v \in Workers : wk[v].cert # None => wk[v].cert \in CertArns
      BY Zenon DEF IInv, TypeOK, Job
    <3>. QED
      BY <1>1, <2>2, <2>3, <3>1, ZenonT(60) DEF IInv, WorkerAws, JobAws
  <2>11. \A v \in Workers : Holds(v) => HeldAws(wk[v], attached', rules')
    BY Zenon, <1>1 DEF IInv, WorkerAws
  <2>. QED
    BY <1>1, <2>3, <2>7, <2>9, <2>10, <2>11, StepsPreserve, Zenon DEF IInv, TypeOK
<1>6. UnusedCerts # {} => AnyOf(UnusedCerts) \in UnusedCerts
  BY Zenon DEF AnyOf
<1>. QED
  BY <1>4, <1>5, <1>6, Zenon DEF RequestCertificate

\* EnsureHostRule preserves the invariant.
LEMMA EnsurePreserves == ASSUME IInv, NEW w \in Workers, EnsureHostRule(w) PROVE IInv'
<1>1. Busy(w) /\ UNCHANGED <<row, req, acm, attached, ingress>> /\ wk[w].pc = "ensure"
  BY Zenon DEF EnsureHostRule, Busy
<1>2. /\ wk[w] \in Job /\ PcInv(wk[w]) /\ JobAws(wk[w], acm, rules)
      /\ wk[w].host \in Hosts
      /\ wk[w].cert # None => acm[wk[w].cert].d = wk[w].d
      /\ Holds(w) => HeldAws(wk[w], attached, rules)
  BY <1>1, BusyFacts, Zenon
<1>3. wk[w].prov = "attaching_certificate" /\ wk[w].tg \in TargetGroups /\ wk[w].prov \in InProgress
  BY <1>1, <1>2, Zenon DEF PcInv, Job, InProgress
<1>4. ASSUME NEW a \in RuleArns
      PROVE  LET n == Decided(wk[w], "complete", a)
             IN  /\ SameJob(wk[w], n) /\ n.pc = "write" /\ n.op = "complete" /\ n.got = a
                 /\ PcInv(n)
  <2>. DEFINE n == Decided(wk[w], "complete", a)
  <2>1. SameJob(wk[w], n) /\ n.pc = "write" /\ n.op = "complete" /\ n.got = a
    BY <1>2, DecidedFields DEF Ops
  <2>. HIDE DEF n
  <2>2. PcInv(n)
    BY <1>2, <1>3, <2>1, Zenon DEF PcInv, SameJob, Ops
  <2>. QED
    BY Zenon, <2>1, <2>2 DEF n
<1>5. CASE Decide(w, "fail") /\ UNCHANGED <<rules, faults>>
  BY <1>1, <1>3, <1>5, DecidePreserves, Zenon DEF Ops
<1>6. CASE \E x \in rules : /\ x.host = wk[w].host /\ UNCHANGED rules
                            /\ Goes(w, Decided(wk[w], "complete", x.arn))
  <2>1. PICK x \in rules : /\ x.host = wk[w].host /\ UNCHANGED rules
                           /\ Goes(w, Decided(wk[w], "complete", x.arn))
    BY <1>6, Zenon
  <2>. DEFINE n == Decided(wk[w], "complete", x.arn)
  <2>2. x.arn \in RuleArns /\ x.arn \notin CertArns
    BY Zenon, NoneAssumption DEF IInv, TypeOK
  <2>3. SameJob(wk[w], n) /\ n.pc = "write" /\ n.op = "complete" /\ n.got = x.arn /\ PcInv(n)
    BY <1>4, <2>2, Zenon
  <2>4. Goes(w, n)
    BY Zenon, <2>1
  <2>. HIDE DEF n
  <2>5. JobAws(n, acm, rules) /\ (Holds(w) => HeldAws(n, attached, rules))
    BY <1>1, <1>2, <2>1, <2>2, <2>3, Zenon DEF JobAws, HeldAws, SameJob
  <2>6. \E j : Steps(w, j) /\ JobAws(j, acm, rules) /\ (Holds(w) => HeldAws(j, attached, rules))
    BY <1>1, <1>2, <2>3, <2>4, <2>5, GoesSteps, Zenon
  <2>. QED
    BY <1>1, <2>1, <2>6, QuietPreserves, Zenon
<1>7. CASE \E a \in UnusedRules :
             /\ rules' = rules \cup {[arn |-> a, host |-> wk[w].host, tg |-> wk[w].tg]}
             /\ Goes(w, Decided(wk[w], "complete", a))
  <2>1. PICK a \in UnusedRules :
             /\ rules' = rules \cup {[arn |-> a, host |-> wk[w].host, tg |-> wk[w].tg]}
             /\ Goes(w, Decided(wk[w], "complete", a))
    BY Zenon, <1>7
  <2>. DEFINE y == [arn |-> a, host |-> wk[w].host, tg |-> wk[w].tg]
              n == Decided(wk[w], "complete", a)
  <2>2. /\ a \in RuleArns /\ \A x \in rules : x.arn # a
        /\ \A d \in Domains : row[d].rule # a
        /\ \A v \in Workers : wk[v].rule # a
    BY Zenon DEF UnusedRules
  <2>3. /\ y \in [arn: RuleArns, host: Hosts, tg: TargetGroups]
        /\ y.arn = a /\ y.host = wk[w].host /\ rules' = rules \cup {y}
    BY <1>2, <1>3, <2>1, <2>2, Zenon
  <2>4. SameJob(wk[w], n) /\ n.pc = "write" /\ n.op = "complete" /\ n.got = a /\ PcInv(n)
    BY <1>4, <2>2, Zenon
  <2>5. Goes(w, n)
    BY Zenon, <2>1
  <2>. HIDE DEF n, y
  <2>6. JobAws(n, acm', rules') /\ (Holds(w) => HeldAws(n, attached', rules'))
    BY <1>1, <1>2, <2>2, <2>3, <2>4, NoneAssumption, ZenonT(60) DEF JobAws, HeldAws, SameJob
  <2>7. PICK j : /\ Steps(w, j) /\ JobAws(j, acm', rules')
                 /\ Holds(w) => HeldAws(j, attached', rules')
    BY <1>1, <1>2, <2>4, <2>5, <2>6, GoesSteps, Zenon
  <2>8. RowAws'
    <3>1. CompletedIsServed'
      BY <1>1, <2>3, Zenon DEF IInv, RowAws, CompletedIsServed
    <3>. QED
      BY <1>1, <2>2, <2>3, <3>1, ZenonT(60) DEF IInv, RowAws
  <2>9. \A v \in Workers : Busy(v) => JobAws(wk[v], acm', rules')
    BY <1>1, <2>2, <2>3, Zenon DEF IInv, WorkerAws, JobAws
  <2>10. \A v \in Workers : Holds(v) => HeldAws(wk[v], attached', rules')
    BY <1>1, <2>3, Zenon DEF IInv, WorkerAws, HeldAws
  <2>11. rules' \subseteq [arn: RuleArns, host: Hosts, tg: TargetGroups]
    BY Zenon, <2>3 DEF IInv, TypeOK
  <2>. QED
    BY <1>1, <2>7, <2>8, <2>9, <2>10, <2>11, StepsPreserve, Zenon DEF IInv, TypeOK
<1>8. UnusedRules # {} => AnyOf(UnusedRules) \in UnusedRules
  BY Zenon DEF AnyOf
<1>. QED
  BY Zenon, <1>5, <1>6, <1>7, <1>8 DEF EnsureHostRule

\* No worker that removes one domain can take a rule or certificate away from
\* another worker that holds a lease, or from a completed domain.
LEMMA RemovalIsAlone ==
    ASSUME IInv, NEW w \in Workers, Busy(w), wk[w].prov = "deprovisioning"
    PROVE  /\ \A d \in Domains : row[d].prov = "completed" =>
                /\ wk[w].cert # None => row[d].cert # wk[w].cert
                /\ wk[w].rule # None => row[d].rule # wk[w].rule
           /\ \A v \in Workers : Holds(v) /\ wk[v].prov = "attaching_certificate" =>
                /\ wk[w].cert # None => wk[v].cert # wk[w].cert
                /\ ~ \E x \in rules : x.arn = wk[w].rule /\ x.host = wk[v].host
<1>1. /\ wk[w].d \in Domains /\ row[wk[w].d].prov \in Removal
      /\ row[wk[w].d].cert = wk[w].cert /\ row[wk[w].d].rule = wk[w].rule
      /\ row[wk[w].d].state # "absent"
  BY Zenon DEF IInv, JobInv, PcInv
<1>2. row[wk[w].d].prov \notin {"completed", "attaching_certificate"}
  BY <1>1, Zenon DEF Removal
<1>3. \A d \in Domains : row[d].prov = "completed" =>
                /\ wk[w].cert # None => row[d].cert # wk[w].cert
                /\ wk[w].rule # None => row[d].rule # wk[w].rule
  BY <1>1, <1>2 DEF IInv, RowAws
<1>4. ASSUME NEW v \in Workers, Holds(v), wk[v].prov = "attaching_certificate"
      PROVE  /\ wk[w].cert # None => wk[v].cert # wk[w].cert
             /\ ~ \E x \in rules : x.arn = wk[w].rule /\ x.host = wk[v].host
  <2>1. /\ wk[v].d \in Domains /\ wk[v].d # wk[w].d /\ row[wk[v].d].state = "live"
        /\ row[wk[v].d].host = wk[v].host
        /\ wk[v].cert # None => acm[wk[v].cert].d = wk[v].d
    BY <1>2, <1>4, BusyFacts, Zenon DEF Holds
  <2>2. wk[w].cert # None => acm[wk[w].cert].d = wk[w].d
    BY BusyFacts, Zenon
  <2>3. ASSUME NEW x \in rules, x.arn = wk[w].rule, x.host = wk[v].host PROVE FALSE
    <3>1. row[wk[w].d].state # "deleted"
      BY <1>1, <2>3 DEF IInv, RowAws
    <3>2. row[wk[w].d].state = "live"
      BY <1>1, <3>1, Zenon DEF IInv, TypeOK, Row
    <3>3. row[wk[w].d].host = x.host
      BY <1>1, <2>3 DEF IInv, RowAws
    <3>. QED
      BY <1>1, <2>1, <2>3, <3>2, <3>3, ZenonT(60) DEF IInv, RowInv
  <2>. QED
    BY Zenon, <2>1, <2>2, <2>3
<1>. QED
  BY Zenon, <1>3, <1>4

\* Where a worker that relies on attached resources is.
LEMMA ReliesOnRule ==
    ASSUME IInv, NEW v \in Workers, Holds(v)
    PROVE  /\ wk[v].pc \in {"resolve", "ensure"} => wk[v].prov = "attaching_certificate"
           /\ wk[v].pc = "write" /\ wk[v].op = "complete" => wk[v].prov = "attaching_certificate"
BY Zenon DEF IInv, JobInv, PcInv, Holds

\* DeleteGatewayHostRule preserves the invariant.
LEMMA DeleteRulePreserves == ASSUME IInv, NEW w \in Workers, DeleteHostRule(w) PROVE IInv'
<1>n. PICK n : n = IF wk[w].cert # None THEN At(wk[w], "detach")
                   ELSE Decided(wk[w], "deprovisioned", None)
  BY Zenon
<1>1. /\ Busy(w) /\ UNCHANGED <<row, req, acm, attached, ingress>> /\ wk[w].pc = "deleteRule"
      /\ rules' = {x \in rules : x.arn # wk[w].rule} /\ Goes(w, n)
  BY Zenon, <1>n DEF DeleteHostRule, Busy
<1>2. /\ wk[w] \in Job /\ PcInv(wk[w]) /\ JobAws(wk[w], acm, rules)
      /\ wk[w].cert # None => acm[wk[w].cert].d = wk[w].d
      /\ wk[w].prov = "deprovisioning" /\ wk[w].rule # None
  BY <1>1, BusyFacts, Zenon DEF PcInv
<1>3. /\ SameJob(wk[w], n)
      /\ \/ n.pc = "detach" /\ n.got = wk[w].got /\ n.cert # None
         \/ n.pc = "write" /\ n.op = "deprovisioned" /\ n.got = None /\ n.cert = None
  <2>1. CASE wk[w].cert # None
    <3>1. "detach" \in AwsSteps \cup {"resolve"} /\ n = At(wk[w], "detach")
      BY Zenon, <1>n, <2>1 DEF AwsSteps
    <3>2. SameJob(wk[w], n) /\ n.pc = "detach" /\ n.got = wk[w].got
      BY Zenon, <1>2, <3>1, AtFields
    <3>3. n.cert = wk[w].cert
      BY Zenon, <3>2 DEF SameJob
    <3>. QED
      BY Zenon, <2>1, <3>2, <3>3
  <2>2. CASE wk[w].cert = None
    <3>1. /\ "deprovisioned" \in Ops /\ None \in CertArns \cup RuleArns \cup {None}
          /\ n = Decided(wk[w], "deprovisioned", None)
      BY Zenon, <1>n, <2>2 DEF Ops
    <3>2. SameJob(wk[w], n) /\ n.pc = "write" /\ n.op = "deprovisioned" /\ n.got = None
      BY <1>2, <3>1, DecidedFields
    <3>3. n.cert = wk[w].cert
      BY Zenon, <3>2 DEF SameJob
    <3>. QED
      BY Zenon, <2>2, <3>2, <3>3
  <2>. QED
    BY <2>1, <2>2, ZenonT(60)
<1>4. PcInv(n)
  BY <1>2, <1>3, Zenon DEF PcInv, SameJob, Ops
<1>5. JobAws(n, acm', rules') /\ HeldAws(n, attached', rules')
  BY <1>1, <1>2, <1>3, NoneAssumption, Zenon DEF JobAws, HeldAws, SameJob
<1>6. PICK j : /\ Steps(w, j) /\ JobAws(j, acm', rules')
               /\ Holds(w) => HeldAws(j, attached', rules')
  BY <1>1, <1>2, <1>3, <1>4, <1>5, GoesSteps, ZenonT(60)
<1>7. RowAws'
  <2>1. CompletedIsServed'
    <3>1. \A d \in Domains : row[d].prov = "completed" => row[d].rule # wk[w].rule
      BY Zenon, <1>1, <1>2, RemovalIsAlone
    <3>2. CompletedIsServed
      BY Zenon DEF IInv, RowAws
    <3>3. ASSUME NEW d \in Domains, row[d].prov = "completed"
          PROVE  \E x \in rules' : x.arn = row[d].rule /\ x.host = row[d].host
      <4>1. PICK x \in rules : x.arn = row[d].rule /\ x.host = row[d].host
        BY Zenon, <3>2, <3>3 DEF CompletedIsServed
      <4>2. x \in rules'
        BY Zenon, <1>1, <3>1, <3>3, <4>1
      <4>. QED
        BY Zenon, <4>1, <4>2
    <3>. QED
      BY Zenon, <1>1, <3>2, <3>3 DEF CompletedIsServed
  <2>. QED
    BY ZenonT(40), <1>1, <2>1 DEF IInv, RowAws
<1>8. \A v \in Workers : Busy(v) => JobAws(wk[v], acm', rules')
  BY <1>1, Zenon DEF IInv, WorkerAws, JobAws
<1>9. \A v \in Workers : Holds(v) => HeldAws(wk[v], attached', rules')
  <2>. SUFFICES ASSUME NEW v \in Workers, Holds(v) PROVE HeldAws(wk[v], attached', rules')
    BY Zenon
  <2>1. HeldAws(wk[v], attached, rules)
    BY Zenon DEF IInv, WorkerAws
  <2>2. wk[v].prov = "attaching_certificate" =>
           ~ \E x \in rules : x.arn = wk[w].rule /\ x.host = wk[v].host
    BY <1>1, <1>2, RemovalIsAlone, Zenon
  <2>. QED
    BY Zenon, <1>1, <2>1, <2>2, ReliesOnRule DEF HeldAws
<1>. QED
  BY <1>1, <1>6, <1>7, <1>8, <1>9, StepsPreserve, Zenon DEF IInv, TypeOK

\* DetachCertificateFromListener preserves the invariant.
LEMMA DetachPreserves ==
    ASSUME IInv, NEW w \in Workers, DetachCertificateFromListener(w)
    PROVE  IInv'
<1>. DEFINE n == At(wk[w], "deleteCert")
<1>1. /\ Busy(w) /\ UNCHANGED <<row, req, acm, rules, ingress>> /\ wk[w].pc = "detach"
      /\ attached' = attached \ {wk[w].cert} /\ Goes(w, n)
  BY Zenon DEF DetachCertificateFromListener, Busy
<1>2. /\ wk[w] \in Job /\ PcInv(wk[w]) /\ JobAws(wk[w], acm, rules)
      /\ wk[w].cert # None => acm[wk[w].cert].d = wk[w].d
      /\ wk[w].prov = "deprovisioning" /\ wk[w].cert # None
  BY <1>1, BusyFacts, Zenon DEF PcInv
<1>3. SameJob(wk[w], n) /\ n.pc = "deleteCert" /\ n.got = wk[w].got
  BY <1>2, AtFields, Zenon DEF AwsSteps
<1>. HIDE DEF n
<1>4. PcInv(n)
  BY <1>2, <1>3, Zenon DEF PcInv, SameJob
<1>5. JobAws(n, acm', rules') /\ HeldAws(n, attached', rules')
  BY <1>1, <1>2, <1>3, Zenon DEF JobAws, HeldAws, SameJob
<1>6. PICK j : /\ Steps(w, j) /\ JobAws(j, acm', rules')
               /\ Holds(w) => HeldAws(j, attached', rules')
  BY <1>1, <1>2, <1>3, <1>4, <1>5, GoesSteps, Zenon
<1>7. RowAws'
  <2>1. CompletedIsServed'
    BY <1>1, <1>2, RemovalIsAlone, Zenon DEF IInv, RowAws, CompletedIsServed
  <2>. QED
    BY Zenon, <1>1, <2>1 DEF IInv, RowAws
<1>8. \A v \in Workers : Busy(v) => JobAws(wk[v], acm', rules')
  BY <1>1, Zenon DEF IInv, WorkerAws
<1>9. \A v \in Workers : Holds(v) => HeldAws(wk[v], attached', rules')
  <2>. SUFFICES ASSUME NEW v \in Workers, Holds(v) PROVE HeldAws(wk[v], attached', rules')
    BY Zenon
  <2>1. HeldAws(wk[v], attached, rules)
    BY Zenon DEF IInv, WorkerAws
  <2>2. wk[v].prov = "attaching_certificate" => wk[v].cert # wk[w].cert
    BY <1>1, <1>2, RemovalIsAlone, Zenon
  <2>. QED
    BY <1>1, <2>1, <2>2, ReliesOnRule, Zenon DEF HeldAws
<1>. QED
  BY <1>1, <1>6, <1>7, <1>8, <1>9, StepsPreserve, Zenon DEF IInv, TypeOK

\* DeleteCertificate preserves the invariant.
LEMMA DeleteCertPreserves == ASSUME IInv, NEW w \in Workers, DeleteCertificate(w) PROVE IInv'
<1>1. Busy(w) /\ UNCHANGED <<row, req, attached, rules, ingress>> /\ wk[w].pc = "deleteCert"
  BY Zenon DEF DeleteCertificate, Busy
<1>2. CASE Decide(w, "retry") /\ UNCHANGED <<acm, faults>>
  BY <1>1, <1>2, DecidePreserves, Zenon DEF Ops
<1>3. CASE /\ wk[w].cert \notin attached
           /\ acm' = [acm EXCEPT ![wk[w].cert].st = "absent"]
           /\ Goes(w, Decided(wk[w], "deprovisioned", None))
  <2>. DEFINE n == Decided(wk[w], "deprovisioned", None)
              c == wk[w].cert
  <2>1. /\ wk[w] \in Job /\ PcInv(wk[w]) /\ JobAws(wk[w], acm, rules)
        /\ acm[c].d = wk[w].d /\ c \in CertArns
        /\ wk[w].prov = "deprovisioning"
    BY <1>1, BusyFacts, Zenon DEF PcInv
  <2>2. SameJob(wk[w], n) /\ n.pc = "write" /\ n.op = "deprovisioned" /\ n.got = None /\ Goes(w, n)
    BY <1>3, <2>1, DecidedFields DEF Ops
  <2>. HIDE DEF n
  <2>3. /\ acm' \in [CertArns -> [st: {"absent", "REQUESTED", "PENDING_VALIDATION", "ISSUED",
                                       "FAILED", "EXPIRED"}, d: Domains \cup {None}]]
        /\ \A b \in CertArns : acm'[b].d = acm[b].d /\ (b # c => acm'[b].st = acm[b].st)
        /\ acm'[c].st = "absent" /\ c \notin attached
    BY <1>3, <2>1 DEF IInv, TypeOK
  <2>. HIDE DEF c
  <2>4. PcInv(n)
    BY <2>1, <2>2, ZenonT(40) DEF PcInv, SameJob, Ops
  <2>5. JobAws(n, acm', rules') /\ HeldAws(n, attached', rules')
    BY <1>1, <2>1, <2>2, <2>3, NoneAssumption DEF JobAws, HeldAws, SameJob, c
  <2>6. PICK j : /\ Steps(w, j) /\ JobAws(j, acm', rules')
                 /\ Holds(w) => HeldAws(j, attached', rules')
    BY <1>1, <2>1, <2>2, <2>3, <2>4, <2>5, GoesSteps, Zenon DEF c
  <2>7. \A d \in Domains : row[d].cert # None => row[d].cert \in CertArns
    BY Zenon DEF IInv, TypeOK, Row
  <2>8. RowAws'
    <3>1. CompletedIsServed'
      <4>1. CompletedIsServed
        BY Zenon DEF IInv, RowAws
      <4>2. ASSUME NEW d \in Domains, row[d].prov = "completed"
            PROVE  acm'[row[d].cert].st # "absent"
        <5>1. row[d].cert # None
          BY Zenon, <4>2 DEF IInv, RowInv, CertificateRecorded
        <5>2. row[d].cert \in CertArns /\ row[d].cert # c
          BY Zenon, <2>3, <2>7, <4>1, <4>2, <5>1 DEF CompletedIsServed
        <5>3. acm[row[d].cert].st # "absent"
          BY Zenon, <4>1, <4>2 DEF CompletedIsServed
        <5>. QED
          BY Zenon, <2>3, <5>2, <5>3
      <4>. QED
        BY Zenon, <1>1, <4>1, <4>2 DEF CompletedIsServed
    <3>. QED
      BY <1>1, <2>3, <2>7, <3>1, ZenonT(60) DEF IInv, RowAws, TypeOK
  <2>9. \A v \in Workers : Busy(v) => JobAws(wk[v], acm', rules')
    <3>1. \A v \in Workers : wk[v].cert # None => wk[v].cert \in CertArns
      BY Zenon DEF IInv, TypeOK, Job
    <3>. QED
      BY <1>1, <2>3, <3>1 DEF IInv, WorkerAws, JobAws
  <2>10. \A v \in Workers : Holds(v) => HeldAws(wk[v], attached', rules')
    BY Zenon, <1>1 DEF IInv, WorkerAws
  <2>. QED
    BY <1>1, <2>3, <2>6, <2>8, <2>9, <2>10, StepsPreserve, Zenon DEF IInv, TypeOK
<1>. QED
  BY Zenon, <1>2, <1>3 DEF DeleteCertificate

\* The UPDATE that ends a handler preserves the invariant.
LEMMA WritePreserves == ASSUME IInv, NEW w \in Workers, Write(w) PROVE IInv'
<1>1. wk[w].op \in Ops
  BY Zenon DEF IInv, JobInv, PcInv, Busy, Write
<1>2. CASE \/ ~ LeaseHeld(row[wk[w].d], wk[w])
           \/ wk[w].op \in {"poll", "retry", "fail", "deprovision_failed"}
  BY <1>2, StaleWriteCalm, CalmPreserves, Zenon
<1>3. CASE LeaseHeld(row[wk[w].d], wk[w]) /\ wk[w].op = "advance"
  BY Zenon, <1>3, AdvanceWrites
<1>4. CASE LeaseHeld(row[wk[w].d], wk[w]) /\ wk[w].op = "complete"
  BY Zenon, <1>4, CompleteWrites
<1>5. CASE LeaseHeld(row[wk[w].d], wk[w]) /\ wk[w].op = "deprovisioned"
  BY Zenon, <1>5, DeprovisionedWrites
<1>. QED
  BY Zenon, <1>1, <1>2, <1>3, <1>4, <1>5 DEF Ops

----------------------------------------------------------------------------
(* The theorems. *)

\* The invariant holds of an empty table.
LEMMA InitInvariant == Init => IInv
<1>. SUFFICES ASSUME Init PROVE IInv
  BY Zenon
<1>. DEFINE r0 == [NewRow(None) EXCEPT !.state = "absent"]
<1>1. /\ r0 \in Row /\ r0.state = "absent" /\ r0.prov = "not_started" /\ r0.cert = None
      /\ r0.rule = None /\ r0.lease = None
  BY Counters, Zenon DEF NewRow, Row, Provs
<1>2. row = [d \in Domains |-> r0]
  BY Zenon DEF Init
<1>. HIDE DEF r0
<1>3. \A d \in Domains : row[d] = r0
  BY Zenon, <1>2
<1>4. \A w \in Workers : wk[w] = Idle /\ ~ Busy(w)
  BY Zenon, IdleFields DEF Init, Busy
<1>5. TypeOK
  BY <1>1, <1>2, IdleFields, BoundAssumption DEF Init, TypeOK
<1>6. RowInv
  BY ZenonT(40), <1>1, <1>3 DEF Init, RowInv, CertificateRecorded, InProgress
<1>7. JobInv
  BY Zenon, <1>4 DEF JobInv, SnapshotCurrent, Busy
<1>8. RowAws
  BY Zenon, <1>1, <1>3 DEF Init, RowAws, CompletedIsServed
<1>9. WorkerAws
  BY <1>4, Zenon DEF WorkerAws, Holds
<1>. QED
  BY Zenon, <1>5, <1>6, <1>7, <1>8, <1>9 DEF IInv

\* Every step preserves the invariant.
LEMMA NextInvariant == IInv /\ [Next]_vars => IInv'
<1>. SUFFICES ASSUME IInv, [Next]_vars PROVE IInv'
  BY Zenon
<1>1. CASE ApiStep
  <2>1. ASSUME NEW d \in Domains, NEW h \in Hosts, CreateCustomDomain(d, h) PROVE IInv'
    BY Zenon, <2>1, CreatePreserves
  <2>2. ASSUME NEW d \in Domains, DeleteCustomDomain(d) \/ RetryDeprovisioning(d) PROVE IInv'
    BY Zenon, <2>2, DeleteCalm, CalmPreserves
  <2>3. ASSUME NEW c \in Clients, NEW d \in Domains,
               \/ VerifyCustomDomain(c, d) \/ CheckCustomDomainRouting(c, d)
               \/ ActivateCustomDomain(c, d)
        PROVE  IInv'
    BY Zenon, <2>3, PendPreserves
  <2>4. ASSUME NEW c \in Clients, FinishRequest(c) PROVE IInv'
    BY Zenon, <2>4, FinishCalm, CalmPreserves
  <2>. QED
    BY Zenon, <1>1, <2>1, <2>2, <2>3, <2>4 DEF ApiStep
<1>2. CASE WorkerStep
  <2>1. PICK w \in Workers : HandlerStep(w) \/ \E d \in Domains : ClaimNextProvisioningJob(w, d)
    BY Zenon, <1>2 DEF WorkerStep
  <2>2. CASE \E d \in Domains : ClaimNextProvisioningJob(w, d)
    BY Zenon, <2>2, ClaimPreserves
  <2>3. CASE RequestCertificate(w) \/ EnsureHostRule(w) \/ AttachCertificateToListener(w)
    BY Zenon, <2>3, RequestPreserves, EnsurePreserves, AttachPreserves
  <2>4. CASE \/ handleWaitingForValidationRecord(w) \/ handleWaitingForDNS(w)
             \/ ReverifyCertificate(w) \/ GetActiveProjectGatewayIngress(w)
    BY Zenon, <2>4, DescribePreserves, ResolvePreserves
  <2>5. CASE DeleteHostRule(w) \/ DetachCertificateFromListener(w) \/ DeleteCertificate(w)
    BY Zenon, <2>5, DeleteRulePreserves, DetachPreserves, DeleteCertPreserves
  <2>6. CASE Write(w) \/ AwsError(w)
    BY Zenon, <2>6, WritePreserves, AwsErrorPreserves
  <2>7. CASE Crash(w)
    BY Zenon, <2>7, CrashCalm, CalmPreserves
  <2>. QED
    BY ZenonT(40), <2>1, <2>2, <2>3, <2>4, <2>5, <2>6, <2>7 DEF HandlerStep
<1>3. CASE EnvStep
  <2>1. ASSUME NEW d \in Domains, LeaseExpires(d) \/ RetryTimeComes(d) PROVE IInv'
    BY Zenon, <2>1, TimeCalm, CalmPreserves
  <2>2. ASSUME NEW a \in CertArns, AcmProgress(a) PROVE IInv'
    BY Zenon, <2>2, AcmPreserves
  <2>3. ASSUME NEW g \in TargetGroups \cup {None}, IngressChanges(g) PROVE IInv'
    BY Zenon, <2>3, IngressCalm, CalmPreserves
  <2>. QED
    BY ZenonT(40), <1>3, <2>1, <2>2, <2>3 DEF EnvStep
<1>4. CASE UNCHANGED vars
  <2>1. TypeOK /\ UNCHANGED <<row, wk, req, acm, attached, rules, ingress, faults>>
    BY Zenon, <1>4 DEF IInv, vars
  <2>2. Calm
    BY Zenon, <2>1, NoRowMoves DEF Calm, TypeOK
  <2>. QED
    BY Zenon, <2>2, CalmPreserves
<1>. QED
  BY Zenon, <1>1, <1>2, <1>3, <1>4 DEF Next

\* The inductive invariant holds in every reachable state.
THEOREM Invariance == Spec => []IInv
BY InitInvariant, NextInvariant, PTL DEF Spec

\* Rows, jobs, requests and AWS resources keep their types: in particular no
\* handler ever records an ARN of the wrong kind or a missing one.
THEOREM TypeCorrect == Spec => []TypeOK
<1>1. IInv => TypeOK
  BY Zenon DEF IInv
<1>. QED
  BY <1>1, Invariance, PTL

\* A worker that still holds the lease acts on a current snapshot of the row.
THEOREM LeaseProtectsSnapshot == Spec => []SnapshotCurrent
<1>1. IInv => SnapshotCurrent
  BY Zenon DEF IInv, JobInv
<1>. QED
  BY <1>1, Invariance, PTL

\* The certificate ARN is on record in every state past requesting_certificate,
\* so the "missing ARN" branches of the handlers are unreachable.
THEOREM CertificateAlwaysRecorded == Spec => []CertificateRecorded
<1>1. IInv => CertificateRecorded
  BY ZenonT(40) DEF IInv, RowInv
<1>. QED
  BY <1>1, Invariance, PTL

\* A completed domain is served: certificate attached, rule on the listener.
THEOREM CompletedDomainsServed == Spec => []CompletedIsServed
<1>1. IInv => CompletedIsServed
  BY ZenonT(40) DEF IInv, RowAws
<1>. QED
  BY <1>1, Invariance, PTL

\* A soft-deleted domain has none of its recorded resources left in AWS.
THEOREM DeletionReleases == Spec => []RecordedResourcesReleased
<1>1. IInv => RecordedResourcesReleased
  BY ZenonT(40) DEF IInv, RowAws, RecordedResourcesReleased
<1>. QED
  BY <1>1, Invariance, PTL

\* No two domains record the same certificate or the same rule.
THEOREM NothingShared == Spec => []ResourcesNotShared
<1>1. IInv => ResourcesNotShared
  BY DEF IInv, RowAws, ResourcesNotShared
<1>. QED
  BY <1>1, Invariance, PTL

----------------------------------------------------------------------------
(* Deletion wins every race. *)

\* The action of DeletionIsFinal.
RemovalKept == \A d \in Domains : row[d].prov \in Removal => row'[d].prov \in Removal

\* No calm step takes a row out of removal.
LEMMA CalmKeepsRemoval == ASSUME Calm PROVE RemovalKept
BY Zenon DEF Calm, Moves, RemovalKept

\* No UPDATE of a worker takes a row out of removal: only the lease of a
\* deprovisioning job is left on such a row.
LEMMA WriteKeepsRemoval == ASSUME IInv, NEW w \in Workers, Write(w) PROVE RemovalKept
<1>. DEFINE j == wk[w]
            r == row[j.d]
<1>1. /\ j.d \in Domains /\ j.op \in Ops /\ r \in Row /\ j \in Job
      /\ j.op = "advance" => j.prov \in InProgress
      /\ j.op = "complete" => j.prov \in InProgress
  BY Zenon DEF IInv, TypeOK, JobInv, PcInv, Busy, Write, InProgress
<1>2. \A d \in Domains :
         row'[d] = IF d = j.d /\ LeaseHeld(r, j) THEN WriteBack(r, j) ELSE row[d]
  BY Zenon, <1>1 DEF IInv, TypeOK, Write
<1>3. CASE \/ ~ LeaseHeld(r, j) \/ j.op \in {"poll", "retry", "fail", "deprovision_failed"}
  BY <1>3, StaleWriteCalm, CalmKeepsRemoval, Zenon
<1>4. CASE LeaseHeld(r, j) /\ j.op \in {"advance", "complete"}
  <2>1. r.prov \notin Removal
    BY Zenon, <1>1, <1>4 DEF LeaseHeld, InProgress, Removal
  <2>. QED
    BY ZenonT(40), <1>2, <2>1 DEF RemovalKept
<1>5. CASE LeaseHeld(r, j) /\ j.op = "deprovisioned"
  <2>1. WriteBack(r, j) = MarkDeprovisioned(r)
    BY ZenonT(40), <1>5 DEF WriteBack
  <2>2. WriteBack(r, j).prov \in Removal
    BY Zenon, <1>1, <2>1, DeprovisionedFields DEF Removal
  <2>. QED
    BY <1>2, <2>2, Zenon DEF RemovalKept
<1>. QED
  BY <1>1, <1>3, <1>4, <1>5, Zenon DEF Ops

\* No step takes a row out of removal.
LEMMA StepKeepsRemoval == IInv /\ [Next]_vars => RemovalKept
<1>. SUFFICES ASSUME IInv, [Next]_vars PROVE RemovalKept
  BY Zenon
<1>1. CASE UNCHANGED row
  BY Zenon, <1>1 DEF RemovalKept
<1>2. ASSUME NEW d \in Domains, NEW h \in Hosts, CreateCustomDomain(d, h) PROVE RemovalKept
  <2>1. row[d].prov \notin Removal
    BY Zenon, <1>2 DEF CreateCustomDomain, IInv, RowInv, Removal
  <2>2. \A e \in Domains : e # d => row'[e] = row[e]
    BY Zenon, <1>2 DEF CreateCustomDomain, IInv, TypeOK
  <2>. QED
    BY ZenonT(40), <2>1, <2>2 DEF RemovalKept
<1>3. ASSUME NEW w \in Workers, NEW d \in Domains, ClaimNextProvisioningJob(w, d)
      PROVE  RemovalKept
  <2>1. PICK t : row' = [row EXCEPT ![d].lease = t, ![d].expired = FALSE]
    BY <1>3, Zenon DEF ClaimNextProvisioningJob
  <2>2. \A e \in Domains : row'[e].prov = row[e].prov
    BY <2>1 DEF IInv, TypeOK, Row
  <2>. QED
    BY Zenon, <2>2 DEF RemovalKept
<1>4. CASE ApiStep
  <2>1. ASSUME NEW d \in Domains, DeleteCustomDomain(d) \/ RetryDeprovisioning(d)
        PROVE  RemovalKept
    BY Zenon, <2>1, DeleteCalm, CalmKeepsRemoval
  <2>2. ASSUME NEW c \in Clients, FinishRequest(c) PROVE RemovalKept
    BY Zenon, <2>2, FinishCalm, CalmKeepsRemoval
  <2>3. ASSUME NEW c \in Clients, NEW d \in Domains,
               \/ VerifyCustomDomain(c, d) \/ CheckCustomDomainRouting(c, d)
               \/ ActivateCustomDomain(c, d)
        PROVE  UNCHANGED row
    BY <2>3, Zenon DEF VerifyCustomDomain, CheckCustomDomainRouting, ActivateCustomDomain, Pend
  <2>. QED
    BY ZenonT(40), <1>1, <1>2, <1>4, <2>1, <2>2, <2>3 DEF ApiStep
<1>5. CASE WorkerStep
  <2>1. ASSUME NEW w \in Workers, HandlerStep(w), ~ Write(w) PROVE UNCHANGED row
    BY <2>1, Zenon DEF HandlerStep, RequestCertificate, handleWaitingForValidationRecord,
       handleWaitingForDNS, ReverifyCertificate, AttachCertificateToListener, GetActiveProjectGatewayIngress, EnsureHostRule,
       DeleteHostRule, DetachCertificateFromListener, DeleteCertificate, AwsError, Crash
  <2>. QED
    BY ZenonT(40), <1>1, <1>3, <1>5, <2>1, WriteKeepsRemoval DEF WorkerStep
<1>6. CASE EnvStep
  <2>1. ASSUME NEW d \in Domains, LeaseExpires(d) \/ RetryTimeComes(d) PROVE RemovalKept
    BY Zenon, <2>1, TimeCalm, CalmKeepsRemoval
  <2>2. ASSUME NEW a \in CertArns, AcmProgress(a) PROVE UNCHANGED row
    BY Zenon, <2>2 DEF AcmProgress
  <2>3. ASSUME NEW g \in TargetGroups \cup {None}, IngressChanges(g) PROVE UNCHANGED row
    BY Zenon, <2>3 DEF IngressChanges
  <2>. QED
    BY ZenonT(40), <1>1, <1>6, <2>1, <2>2, <2>3 DEF EnvStep
<1>7. CASE UNCHANGED vars
  BY Zenon, <1>1, <1>7 DEF vars
<1>. QED
  BY Zenon, <1>4, <1>5, <1>6, <1>7 DEF Next

\* Once deprovisioning is queued, no worker, request or retry brings the domain back.
THEOREM DeletionWins == Spec => DeletionIsFinal
<1>1. IInv /\ [Next]_vars =>
         [\A d \in Domains : row[d].prov \in Removal => row'[d].prov \in Removal]_vars
  BY Zenon, StepKeepsRemoval DEF RemovalKept
<1>. QED
  BY <1>1, Invariance, PTL DEF Spec, DeletionIsFinal

=============================================================================
