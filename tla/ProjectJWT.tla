----------------------------- MODULE ProjectJWT -----------------------------
(***************************************************************************)
(* JWT authentication of one project.  The configuration row is in         *)
(* PostgreSQL and the signing secret in AWS Secrets Manager, under a name  *)
(* derived from the project; the service keeps the two in step with        *)
(* compensations (internal/admin/service/project_jwt_config_service.go,    *)
(* internal/storage/project_jwt_config_repo.go,                            *)
(* internal/aws/secret_manager.go).  A gateway fetches the configuration   *)
(* with its snapshot and swaps its verifier                                *)
(* (internal/gateway/runtime/loader.go, project_jwt_manager.go).           *)
(*                                                                         *)
(* One step per transaction and per AWS call of a request.                 *)
(***************************************************************************)
EXTENDS Naturals, FiniteSets

CONSTANTS Requests,    \* requests the admin API serves at a time
          Settings,    \* everything of a configuration but the secret
          Off,         \* the settings with enabled = false
          Arns,        \* ARNs; a secret that is created anew has a new one
          Versions,    \* secret version ids
          None,        \* SQL NULL, nil
          MaxVersion,  \* bound on config_version
          MaxFaults,   \* bound on failing calls and crashes
          LostAnswers, \* whether a failing call may have taken effect
          DeleteFails  \* whether DeleteSecret may fail

ASSUME ConstantAssumption ==
    /\ Off \in Settings
    /\ None \notin Settings \cup Arns \cup Versions
    /\ MaxVersion \in Nat \ {0} /\ MaxFaults \in Nat
    /\ LostAnswers \in BOOLEAN /\ DeleteFails \in BOOLEAN

VARIABLES cfg,   \* the project's row of project_jwt_configs
          sec,   \* the secret of the project's name
          req,   \* progress of each request
          gw,    \* the gateway: its reload and its projectJWTState
          faults

vars == <<cfg, sec, req, gw, faults>>

----------------------------------------------------------------------------
(* Types. *)

Config == [live: BOOLEAN, set: Settings \cup {None}, arn: Arns \cup {None},
           sv: Versions \cup {None}, ver: 0 .. MaxVersion]
NoConfig == [live |-> FALSE, set |-> None, arn |-> None, sv |-> None, ver |-> 0]
Enabled(c) == c.live /\ c.set # Off

Secret == [state: {"none", "active", "scheduled"}, arn: Arns \cup {None},
           versions: SUBSET Versions]
NoSecret == [state |-> "none", arn |-> None, versions |-> {}]

Pcs == {"idle", "create", "restore", "put", "upsertNew", "compensate", "rotate",
        "upsertRotated", "upsertSettings", "deleteRow", "deleteSecret", "putBack"}
Request == [pc: Pcs, set: Settings \cup {None}, arn: Arns \cup {None},
            sv: Versions \cup {None}]
Done == [pc |-> "idle", set |-> None, arn |-> None, sv |-> None]

\* key is the version whose value the verifier was built from.
State == [enabled: BOOLEAN, ver: 0 .. MaxVersion, arn: Arns \cup {None},
          sv: Versions \cup {None}, key: Versions \cup {None}, set: Settings \cup {None}]
NoVerifier == [enabled |-> FALSE, ver |-> 0, arn |-> None, sv |-> None, key |-> None,
               set |-> None]

Init ==
    /\ cfg = NoConfig /\ sec = NoSecret
    /\ req = [q \in Requests |-> Done]
    /\ gw = [pc |-> "idle", up |-> FALSE, snap |-> NoConfig, st |-> NoVerifier]
    /\ faults = 0

----------------------------------------------------------------------------
(* Requests. *)

VersionsInUse == {cfg.sv, gw.snap.sv, gw.st.sv} \cup {req[q].sv : q \in Requests}
UnusedVersions == Versions \ VersionsInUse
UnusedArns ==
    Arns \ ({sec.arn, cfg.arn, gw.snap.arn, gw.st.arn} \cup {req[q].arn : q \in Requests})

Fault == faults < MaxFaults /\ faults' = faults + 1
Goto(q, r) == req' = [req EXCEPT ![q] = r]
At(q, pc) == [req[q] EXCEPT !.pc = pc]

\* A call takes effect and is answered, fails, or takes effect and reports failure.
Outcome(q, ok, failed, effect, noEffect) ==
    \/ effect /\ Goto(q, ok) /\ UNCHANGED faults
    \/ noEffect /\ Goto(q, failed) /\ Fault
    \/ LostAnswers /\ effect /\ Goto(q, failed) /\ Fault

\* Reads the row; secret says whether the request carries a new secret.  A request
\* that would change nothing, or would create without a secret, ends at once.
Configure(q, s, secret) ==
    /\ req[q].pc = "idle"
    /\ \/ cfg.live /\ secret
          /\ Goto(q, [pc |-> "rotate", set |-> s, arn |-> cfg.arn, sv |-> None])
       \/ cfg.live /\ ~secret /\ s # cfg.set
          /\ Goto(q, [pc |-> "upsertSettings", set |-> s, arn |-> cfg.arn, sv |-> cfg.sv])
       \/ ~cfg.live /\ secret
          /\ Goto(q, [pc |-> "create", set |-> s, arn |-> None, sv |-> None])
    /\ UNCHANGED <<cfg, sec, gw, faults>>

CreateSecret(q) ==
    /\ req[q].pc = "create"
    /\ \/ /\ sec.state = "none"
          /\ \E a \in UnusedArns, v \in UnusedVersions :
                Outcome(q, [At(q, "upsertNew") EXCEPT !.arn = a, !.sv = v], Done,
                        sec' = [state |-> "active", arn |-> a, versions |-> {v}],
                        UNCHANGED sec)
       \/ /\ sec.state # "none"
          /\ \/ Goto(q, At(q, "restore")) /\ UNCHANGED faults
             \/ Goto(q, Done) /\ Fault
          /\ UNCHANGED sec
    /\ UNCHANGED <<cfg, gw>>

\* An error of RestoreSecret is ignored.
RestoreSecret(q) ==
    /\ req[q].pc = "restore"
    /\ Outcome(q, At(q, "put"), At(q, "put"),
               sec' = [sec EXCEPT !.state = IF @ = "scheduled" THEN "active" ELSE @],
               UNCHANGED sec)
    /\ UNCHANGED <<cfg, gw>>

\* Mutant: an error of PutSecretValue is ignored.
UpdateSecret_Ignored(q, pc, found) ==
    \E v \in UnusedVersions :
       Outcome(q, [At(q, pc) EXCEPT !.arn = sec.arn, !.sv = v], Done,
               sec' = [sec EXCEPT !.versions = IF found THEN (@ \cap VersionsInUse) \cup {v} ELSE @],
               UNCHANGED sec)

\* PutSecretValue adds a version to an active secret.  Versions nobody refers to
\* any more are forgotten.
UpdateSecret(q, pc, found) ==
    \/ /\ found
       /\ \E v \in UnusedVersions :
             Outcome(q, [At(q, pc) EXCEPT !.arn = sec.arn, !.sv = v], Done,
                     sec' = [sec EXCEPT !.versions = (@ \cap VersionsInUse) \cup {v}],
                     UNCHANGED sec)
    \/ ~found /\ Goto(q, Done) /\ UNCHANGED <<sec, faults>>

\* In create the secret is named, in update its ARN is given.
PutSecretValue(q) ==
    /\ \/ req[q].pc = "put" /\ UpdateSecret(q, "upsertNew", sec.state = "active")
       \/ /\ req[q].pc = "rotate"
          /\ UpdateSecret(q, "upsertRotated", sec.state = "active" /\ sec.arn = req[q].arn)
    /\ UNCHANGED <<cfg, gw>>

\* INSERT ... ON CONFLICT DO UPDATE: a new row starts with version 1.
Upserted(r) ==
    [live |-> TRUE, set |-> r.set, arn |-> r.arn, sv |-> r.sv,
     ver |-> IF cfg.live THEN cfg.ver + 1 ELSE 1]

Upsert(q) ==
    /\ req[q].pc \in {"upsertNew", "upsertRotated", "upsertSettings", "putBack"}
    /\ cfg.ver < MaxVersion
    /\ Outcome(q, Done, IF req[q].pc = "upsertNew" THEN At(q, "compensate") ELSE Done,
               cfg' = Upserted(req[q]), UNCHANGED cfg)
    /\ UNCHANGED <<sec, gw>>

\* DeleteSecret schedules the secret for deletion; a secret that is gone is no error.
Scheduled(a) ==
    sec' = IF sec.arn = a /\ sec.state = "active" THEN [sec EXCEPT !.state = "scheduled"] ELSE sec

Compensate(q) ==
    /\ req[q].pc = "compensate"
    /\ Outcome(q, Done, Done, Scheduled(req[q].arn), UNCHANGED sec)
    /\ UNCHANGED <<cfg, gw>>

Delete(q) ==
    /\ req[q].pc = "idle" /\ cfg.live
    /\ Goto(q, [pc |-> "deleteRow", set |-> cfg.set, arn |-> cfg.arn, sv |-> cfg.sv])
    /\ UNCHANGED <<cfg, sec, gw, faults>>

DeleteRow(q) ==
    /\ req[q].pc = "deleteRow"
    /\ \/ cfg.live /\ Outcome(q, At(q, "deleteSecret"), Done, cfg' = NoConfig, UNCHANGED cfg)
       \/ ~cfg.live /\ Goto(q, Done) /\ UNCHANGED <<cfg, faults>>
    /\ UNCHANGED <<sec, gw>>

\* On failure the row is put back.  Secrets Manager may refuse a secret that is
\* scheduled already.
DeleteSecret(q) ==
    /\ req[q].pc = "deleteSecret"
    /\ \/ Goto(q, Done) /\ Scheduled(req[q].arn) /\ UNCHANGED faults
       \/ /\ DeleteFails /\ Goto(q, At(q, "putBack"))
          /\ \/ Fault /\ UNCHANGED sec
             \/ Fault /\ LostAnswers /\ Scheduled(req[q].arn)
             \/ sec.state = "scheduled" /\ sec.arn = req[q].arn /\ UNCHANGED <<sec, faults>>
    /\ UNCHANGED <<cfg, gw>>

\* The admin process dies.
Abandon(q) ==
    /\ req[q].pc # "idle" /\ Fault
    /\ Goto(q, Done)
    /\ UNCHANGED <<cfg, sec, gw>>

\* The recovery window of a scheduled secret ends.
Purge ==
    /\ sec.state = "scheduled"
    /\ sec' = NoSecret
    /\ UNCHANGED <<cfg, req, gw, faults>>

----------------------------------------------------------------------------
(* The gateway.  Reloads are serialised; a failed one changes nothing. *)

Fetch ==
    /\ gw.pc = "idle"
    /\ gw' = [gw EXCEPT !.pc = "apply", !.snap = cfg]
    /\ UNCHANGED <<cfg, sec, req, faults>>

Readable(c) == sec.state = "active" /\ sec.arn = c.arn /\ c.sv \in sec.versions

\* Mutant: only the ARN is compared.
SameSecret_ArnOnly(t, c) == t.enabled /\ t.arn = c.arn

SameSecret(t, c) == t.enabled /\ t.arn = c.arn /\ t.sv = c.sv

\* Mutant: a verifier is kept as long as its secret is the same.
Same_Secret(t, c) == SameSecret(t, c)

Same(t, c) == SameSecret(t, c) /\ t.ver = c.ver

Publish(t) == gw' = [pc |-> "idle", up |-> TRUE, snap |-> NoConfig, st |-> t]
Rejected == gw' = [gw EXCEPT !.pc = "idle", !.snap = NoConfig]

\* Mutant: the old verifier is dropped before the secret is read.
Unreadable_Drops == gw' = [gw EXCEPT !.pc = "idle", !.snap = NoConfig, !.st = NoVerifier]

\* The secret cannot be read: the previous verifier stays.
Unreadable == Rejected

Apply ==
    /\ gw.pc = "apply"
    /\ LET c == gw.snap
           t == gw.st
       IN  \/ /\ ~Enabled(c)
              /\ Publish([NoVerifier EXCEPT !.ver = c.ver]) /\ UNCHANGED faults
           \/ /\ Enabled(c) /\ Same(t, c)
              /\ Publish(t) /\ UNCHANGED faults
           \/ /\ Enabled(c) /\ ~Same(t, c) /\ SameSecret(t, c)
              /\ Publish([t EXCEPT !.ver = c.ver, !.sv = c.sv, !.set = c.set])
              /\ UNCHANGED faults
           \/ /\ Enabled(c) /\ ~SameSecret(t, c) /\ Readable(c)
              /\ Publish([enabled |-> TRUE, ver |-> c.ver, arn |-> c.arn, sv |-> c.sv,
                          key |-> c.sv, set |-> c.set])
              /\ UNCHANGED faults
           \/ /\ Enabled(c) /\ ~SameSecret(t, c)
              /\ \/ ~Readable(c) /\ UNCHANGED faults
                 \/ Fault
              /\ Unreadable
    /\ UNCHANGED <<cfg, sec, req>>

Restart ==
    /\ Fault
    /\ gw' = [pc |-> "idle", up |-> FALSE, snap |-> NoConfig, st |-> NoVerifier]
    /\ UNCHANGED <<cfg, sec, req>>

Next ==
    \/ \E q \in Requests :
          \/ \E s \in Settings, b \in BOOLEAN : Configure(q, s, b)
          \/ CreateSecret(q) \/ RestoreSecret(q) \/ PutSecretValue(q) \/ Upsert(q)
          \/ Compensate(q) \/ Delete(q) \/ DeleteRow(q) \/ DeleteSecret(q) \/ Abandon(q)
    \/ Purge \/ Fetch \/ Apply \/ Restart

Spec == Init /\ [][Next]_vars

\* The loader's ticker runs for ever and requests that were accepted finish.
Fairness ==
    /\ WF_vars(Fetch) /\ WF_vars(Apply)
    /\ \A q \in Requests :
          WF_vars(CreateSecret(q) \/ RestoreSecret(q) \/ PutSecretValue(q) \/ Upsert(q)
                    \/ Compensate(q) \/ DeleteRow(q) \/ DeleteSecret(q))

FairSpec == Spec /\ Fairness

----------------------------------------------------------------------------
(* Properties. *)

TypeOK ==
    /\ cfg \in Config /\ sec \in Secret
    /\ req \in [Requests -> Request]
    /\ gw \in [pc: {"idle", "apply"}, up: BOOLEAN, snap: Config, st: State]
    /\ faults \in 0 .. MaxFaults

\* The key a gateway verifies with is the value of exactly the secret version it
\* has recorded, although settings are exchanged without reading the secret again
\* (project_jwt_manager.go, "NO AWS request").
KeyMatches == gw.st.enabled => gw.st.key = gw.st.sv /\ gw.st.key # None

\* The row never refers to a version its secret does not have, whatever requests
\* overlap, fail, or lose the answer of a call: create and update only store what
\* Secrets Manager returned.
RowOwnsVersion ==
    cfg.live => /\ cfg.arn # None /\ cfg.sv # None
                /\ sec.arn = cfg.arn => cfg.sv \in sec.versions

\* A running gateway only stops verifying because its snapshot has no enabled
\* configuration ("Failed refresh therefore leaves the previous verifier active").
VerifierKept ==
    [][gw.st.enabled /\ ~gw'.st.enabled => ~gw'.up \/ ~Enabled(gw.snap)]_vars

\* With one request at a time a configured project's secret can be read, whichever
\* call fails and wherever the process dies: compensations undo what was done.
ReferencedReadable == cfg.live => Readable(cfg)

\* No delete had to put its row back.
NothingPutBack == \A q \in Requests : req[q].pc # "putBack"

\* A gateway ends up with the configuration once that stops changing, through
\* unreadable secrets, failed reloads and restarts, as long as no delete puts its
\* row back.
GatewayConverges ==
    []NothingPutBack /\ <>[][FALSE]_cfg =>
        <>[](IF Enabled(cfg) THEN gw.st.enabled /\ gw.st.set = cfg.set /\ gw.st.key = cfg.sv
             ELSE ~gw.st.enabled)

----------------------------------------------------------------------------
(* What the documentation says of the code, where the code does otherwise. *)

\* "settings only -> PostgreSQL": so an update without a secret leaves the secret as
\* it is.  It stores the version it read before a rotation finished.
RotationSticks ==
    [][\A q \in Requests : req[q].pc = "upsertSettings" /\ cfg.live /\ cfg'.live =>
          req'[q].pc # "idle" \/ cfg'.sv = cfg.sv]_vars

\* "AWS deletion is scheduled first": so a row is only deleted once its secret is.
DeleteSecretFirst == [][cfg.live /\ ~cfg'.live => ~Readable(cfg)]_vars

\* "If PostgreSQL creation fails, the newly-created AWS secret is scheduled for
\* deletion as compensation": so never the secret a stored configuration uses.
CompensationSparesLive ==
    [][\A q \in Requests : req[q].pc = "compensate" /\ cfg.live /\ Readable(cfg) =>
          sec'.state = "active"]_vars

============================================================================
