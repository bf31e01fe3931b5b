-------------------------- MODULE ProjectJWTProofs --------------------------
(***************************************************************************)
(* Proofs about ProjectJWT, for any number of concurrent requests, failing *)
(* calls, lost answers and crashes.                                        *)
(*                                                                         *)
(* The invariant says of the row, and of every request that is about to    *)
(* write one, that the version it refers to belongs to the secret as long  *)
(* as that secret exists.  The snapshot a gateway has fetched names a      *)
(* version, so the verifier it publishes has a key.                        *)
(***************************************************************************)
EXTENDS ProjectJWT, TLAPS

\* The version r refers to is a version of its secret, if that is s.
Owns(s, r) == /\ r.arn # None /\ r.sv # None
              /\ s.arn = r.arn => r.sv \in s.versions

\* The requests that hold what Secrets Manager or the row told them.
Carrying == {"upsertNew", "compensate", "upsertRotated", "upsertSettings", "deleteRow",
             "deleteSecret", "putBack"}

IInv == /\ TypeOK /\ KeyMatches
        /\ cfg.live => Owns(sec, cfg)
        /\ \A q \in Requests : req[q].pc \in Carrying => Owns(sec, req[q])
        /\ sec.state # "none" => sec.arn # None
        /\ gw.snap.live => gw.snap.sv # None

----------------------------------------------------------------------------
(* What a call to Secrets Manager may do to the secret. *)

\* It is left alone but for its state, or is gone; it gets another version; it is new.
SecretMoves ==
    \/ sec'.arn = sec.arn /\ sec'.versions = sec.versions
    \/ sec' = NoSecret
    \/ \E v \in UnusedVersions : /\ sec'.arn = sec.arn
                                 /\ sec'.versions = (sec.versions \cap VersionsInUse) \cup {v}
    \/ \E a \in UnusedArns, v \in UnusedVersions :
          sec' = [state |-> "active", arn |-> a, versions |-> {v}]

\* None of it takes a version away from the row or a request.
LEMMA OwnsKept ==
    ASSUME IInv, SecretMoves
    PROVE  /\ cfg.live => Owns(sec', cfg)
           /\ \A q \in Requests : req[q].pc \in Carrying => Owns(sec', req[q])
<1>. DEFINE R == {cfg} \cup {req[q] : q \in Requests}
<1>1. ASSUME NEW r \in R, Owns(sec, r) PROVE Owns(sec', r)
  <2>1. r.sv \in VersionsInUse /\ r.arn \notin UnusedArns
    BY DEF VersionsInUse, UnusedArns
  <2>2. CASE sec'.arn = sec.arn /\ sec'.versions = sec.versions
    BY <1>1, <2>2 DEF Owns
  <2>3. CASE sec' = NoSecret
    BY <1>1, <2>3 DEF Owns, NoSecret
  <2>4. ASSUME NEW v \in UnusedVersions, sec'.arn = sec.arn,
               sec'.versions = (sec.versions \cap VersionsInUse) \cup {v}
        PROVE  Owns(sec', r)
    BY <1>1, <2>1, <2>4 DEF Owns
  <2>5. ASSUME NEW a \in UnusedArns, NEW v \in UnusedVersions,
               sec' = [state |-> "active", arn |-> a, versions |-> {v}]
        PROVE  Owns(sec', r)
    BY <1>1, <2>1, <2>5 DEF Owns
  <2>. QED
    BY <2>2, <2>3, <2>4, <2>5 DEF SecretMoves
<1>2. cfg \in R /\ \A q \in Requests : req[q] \in R
  OBVIOUS
<1>. HIDE DEF R
<1>. QED
  BY <1>1, <1>2 DEF IInv

\* A step of request q that writes no row.
RequestMoves(q, r) ==
    /\ SecretMoves /\ sec' \in Secret /\ (sec'.state # "none" => sec'.arn # None)
    /\ req' = [req EXCEPT ![q] = r] /\ r \in Request
    /\ r.pc \in Carrying => Owns(sec', r)
    /\ faults' \in 0 .. MaxFaults
    /\ UNCHANGED gw

\* It preserves the invariant, and so does a step that also writes or deletes the row.
LEMMA RequestPreserves ==
    ASSUME IInv, NEW q \in Requests, NEW r, RequestMoves(q, r),
           cfg' \in Config, cfg'.live => Owns(sec', cfg')
    PROVE  IInv'
<1>1. \A p \in Requests : req'[p] = IF p = q THEN r ELSE req[p]
  BY DEF IInv, TypeOK, RequestMoves
<1>2. TypeOK' /\ KeyMatches'
  BY DEF IInv, TypeOK, KeyMatches, RequestMoves
<1>3. \A p \in Requests : req'[p].pc \in Carrying => Owns(sec', req'[p])
  BY <1>1, OwnsKept, Zenon DEF RequestMoves
<1>4. (sec'.state # "none" => sec'.arn # None) /\ (gw'.snap.live => gw'.snap.sv # None)
  BY DEF IInv, RequestMoves
<1>. QED
  BY <1>2, <1>3, <1>4 DEF IInv

\* A request that ends, or moves to another call with the same references.
LEMMA DoneIsRequest == Done \in Request /\ Done.pc \notin Carrying
BY DEF Done, Request, Pcs, Carrying

\* A request that moves to another call keeps its references.
LEMMA AtIsRequest ==
    ASSUME TypeOK, NEW q \in Requests, NEW pc \in Pcs
    PROVE  /\ At(q, pc) \in Request /\ At(q, pc).pc = pc
           /\ At(q, pc).arn = req[q].arn /\ At(q, pc).sv = req[q].sv
           /\ At(q, pc).set = req[q].set
BY DEF TypeOK, At, Request

----------------------------------------------------------------------------
(* Requests. *)

\* What a failing call leaves: the fault is counted.
LEMMA FaultCounted ==
    ASSUME TypeOK, Fault \/ UNCHANGED faults
    PROVE  faults' \in 0 .. MaxFaults
BY ConstantAssumption DEF TypeOK, Fault

\* Configure reads the row before it decides, so the references it takes along are
\* the row's.
LEMMA ConfigurePreserves ==
    ASSUME IInv, NEW q \in Requests, NEW s \in Settings, NEW b \in BOOLEAN, Configure(q, s, b)
    PROVE  IInv'
<1>1. UNCHANGED <<cfg, sec, gw, faults>> /\ SecretMoves
  BY DEF Configure, SecretMoves
<1>2. cfg' \in Config /\ (cfg'.live => Owns(sec', cfg')) /\ TypeOK
  BY <1>1 DEF IInv, TypeOK
<1>3. ASSUME NEW r \in Request, Goto(q, r), r.pc \in Carrying => Owns(sec', r)
      PROVE  IInv'
  <2>1. RequestMoves(q, r)
    BY <1>1, <1>2, <1>3 DEF RequestMoves, TypeOK, IInv, Goto
  <2>. QED
    BY <1>2, <2>1, RequestPreserves
<1>4. cfg.arn \in Arns \cup {None} /\ cfg.sv \in Versions \cup {None}
  BY DEF IInv, TypeOK, Config
<1>5. CASE Goto(q, [pc |-> "rotate", set |-> s, arn |-> cfg.arn, sv |-> None])
  <2>. DEFINE r == [pc |-> "rotate", set |-> s, arn |-> cfg.arn, sv |-> None]
  <2>1. r \in Request /\ r.pc \notin Carrying
    BY <1>4 DEF Request, Pcs, Carrying
  <2>. QED
    BY <1>3, <1>5, <2>1
<1>6. CASE cfg.live /\ Goto(q, [pc |-> "upsertSettings", set |-> s, arn |-> cfg.arn, sv |-> cfg.sv])
  <2>. DEFINE r == [pc |-> "upsertSettings", set |-> s, arn |-> cfg.arn, sv |-> cfg.sv]
  <2>1. r \in Request /\ Owns(sec', r)
    BY <1>1, <1>2, <1>4, <1>6 DEF Request, Pcs, Owns
  <2>. QED
    BY <1>3, <1>6, <2>1
<1>7. CASE Goto(q, [pc |-> "create", set |-> s, arn |-> None, sv |-> None])
  <2>. DEFINE r == [pc |-> "create", set |-> s, arn |-> None, sv |-> None]
  <2>1. r \in Request /\ r.pc \notin Carrying
    BY DEF Request, Pcs, Carrying
  <2>. QED
    BY <1>3, <1>7, <2>1
<1>. QED
  BY <1>5, <1>6, <1>7, Zenon DEF Configure

\* Delete reads the row as well.
LEMMA DeletePreserves ==
    ASSUME IInv, NEW q \in Requests, Delete(q)
    PROVE  IInv'
<1>. DEFINE r == [pc |-> "deleteRow", set |-> cfg.set, arn |-> cfg.arn, sv |-> cfg.sv]
<1>1. UNCHANGED <<cfg, sec, gw, faults>> /\ SecretMoves
  BY DEF Delete, SecretMoves
<1>2. cfg' \in Config /\ (cfg'.live => Owns(sec', cfg')) /\ TypeOK
  BY <1>1 DEF IInv, TypeOK
<1>3. r \in Request /\ Owns(sec', r)
  BY <1>1, <1>2 DEF Delete, Request, Pcs, Owns, TypeOK, Config
<1>4. RequestMoves(q, r)
  BY <1>1, <1>2, <1>3 DEF RequestMoves, TypeOK, IInv, Delete, Goto
<1>. QED
  BY <1>2, <1>4, RequestPreserves

\* CreateSecret, RestoreSecret and PutSecretValue hand the request the version that
\* they stored, or fail; a lost answer leaves a version nobody refers to.
LEMMA SecretCallPreserves ==
    ASSUME IInv, NEW q \in Requests,
           CreateSecret(q) \/ RestoreSecret(q) \/ PutSecretValue(q)
    PROVE  IInv'
<1>1. TypeOK /\ UNCHANGED <<cfg, gw>>
  BY ZenonT(60) DEF IInv, CreateSecret, RestoreSecret, PutSecretValue
<1>2. faults' \in 0 .. MaxFaults
  <2>1. Fault \/ UNCHANGED faults
    BY Zenon DEF CreateSecret, RestoreSecret, PutSecretValue, UpdateSecret, Outcome
  <2>. QED
    BY <1>1, <2>1, FaultCounted
<1>3. ASSUME NEW r, SecretMoves, sec' \in Secret, sec'.state # "none" => sec'.arn # None,
             Goto(q, r), r \in Request, r.pc \in Carrying => Owns(sec', r)
      PROVE  IInv'
  <2>1. RequestMoves(q, r)
    BY <1>1, <1>2, <1>3 DEF RequestMoves, Goto
  <2>2. cfg' \in Config /\ (cfg'.live => Owns(sec', cfg'))
    BY <1>1, <1>3, OwnsKept DEF TypeOK
  <2>. QED
    BY <2>1, <2>2, RequestPreserves
<1>4. ASSUME NEW pc \in Pcs \ Carrying, SecretMoves, sec' \in Secret,
             sec'.state # "none" => sec'.arn # None,
             Goto(q, At(q, pc)) \/ Goto(q, Done)
      PROVE  IInv'
  BY <1>1, <1>3, <1>4, DoneIsRequest, AtIsRequest
<1>5. UNCHANGED sec =>
         SecretMoves /\ sec' \in Secret /\ (sec'.state # "none" => sec'.arn # None)
  BY <1>1 DEF SecretMoves, TypeOK, IInv
<1>6. CASE CreateSecret(q)
  <2>1. ASSUME NEW a \in UnusedArns, NEW v \in UnusedVersions,
               Outcome(q, [At(q, "upsertNew") EXCEPT !.arn = a, !.sv = v], Done,
                       sec' = [state |-> "active", arn |-> a, versions |-> {v}],
                       UNCHANGED sec)
        PROVE  IInv'
    <3>. DEFINE r == [At(q, "upsertNew") EXCEPT !.arn = a, !.sv = v]
    <3>1. a \in Arns /\ v \in Versions /\ a # None /\ v # None
      BY ConstantAssumption DEF UnusedArns, UnusedVersions
    <3>2. r \in Request /\ r.arn = a /\ r.sv = v
      BY <1>1, <3>1, ZenonT(60) DEF At, TypeOK, Request, Pcs
    <3>. HIDE DEF r
    <3>3. CASE sec' = [state |-> "active", arn |-> a, versions |-> {v}]
      <4>1. SecretMoves /\ sec' \in Secret /\ Owns(sec', r) /\ sec'.arn # None
        BY <3>1, <3>2, <3>3 DEF SecretMoves, Secret, Owns
      <4>2. Goto(q, r) \/ Goto(q, Done)
        BY <2>1, Zenon DEF Outcome, r
      <4>. QED
        BY <1>3, <3>2, <4>1, <4>2, DoneIsRequest
    <3>4. CASE UNCHANGED sec /\ Goto(q, Done)
      BY <1>3, <1>5, <3>4, DoneIsRequest
    <3>. QED
      BY <2>1, <3>3, <3>4, Zenon DEF Outcome
  <2>2. CASE UNCHANGED sec /\ (Goto(q, At(q, "restore")) \/ Goto(q, Done))
    BY <1>4, <1>5, <2>2 DEF Pcs, Carrying
  <2>. QED
    BY <1>6, <2>1, <2>2, Zenon DEF CreateSecret
<1>7. CASE RestoreSecret(q)
  <2>1. SecretMoves /\ sec' \in Secret /\ (sec'.state # "none" => sec'.arn # None)
    BY <1>1, <1>5, <1>7 DEF RestoreSecret, Outcome, SecretMoves, TypeOK, Secret, IInv
  <2>2. Goto(q, At(q, "put"))
    BY <1>7, Zenon DEF RestoreSecret, Outcome
  <2>. QED
    BY <1>4, <2>1, <2>2 DEF Pcs, Carrying
<1>8. CASE PutSecretValue(q)
  <2>1. ASSUME NEW pc \in {"upsertNew", "upsertRotated"}, NEW v \in UnusedVersions,
               sec.state = "active",
               Outcome(q, [At(q, pc) EXCEPT !.arn = sec.arn, !.sv = v], Done,
                       sec' = [sec EXCEPT !.versions = (@ \cap VersionsInUse) \cup {v}],
                       UNCHANGED sec)
        PROVE  IInv'
    <3>. DEFINE r == [At(q, pc) EXCEPT !.arn = sec.arn, !.sv = v]
    <3>1. v \in Versions /\ v # None /\ sec.arn # None /\ sec.arn \in Arns \cup {None}
      BY <1>1, <2>1, ConstantAssumption DEF UnusedVersions, IInv, TypeOK, Secret
    <3>2. r \in Request /\ r.arn = sec.arn /\ r.sv = v
      BY <1>1, <3>1, ZenonT(60) DEF At, TypeOK, Request, Pcs
    <3>. HIDE DEF r
    <3>3. CASE sec' = [sec EXCEPT !.versions = (@ \cap VersionsInUse) \cup {v}]
      <4>1. sec' \in Secret /\ Owns(sec', r) /\ SecretMoves /\ sec'.arn # None
        BY <1>1, <3>1, <3>2, <3>3 DEF SecretMoves, Secret, Owns, TypeOK
      <4>2. Goto(q, r) \/ Goto(q, Done)
        BY <2>1, Zenon DEF Outcome, r
      <4>. QED
        BY <1>3, <3>2, <4>1, <4>2, DoneIsRequest
    <3>4. CASE UNCHANGED sec /\ Goto(q, Done)
      BY <1>3, <1>5, <3>4, DoneIsRequest
    <3>. QED
      BY <2>1, <3>3, <3>4, Zenon DEF Outcome
  <2>2. CASE UNCHANGED sec /\ Goto(q, Done)
    BY <1>3, <1>5, <2>2, DoneIsRequest
  <2>. QED
    BY <1>8, <2>1, <2>2, Zenon DEF PutSecretValue, UpdateSecret
<1>. QED
  BY <1>6, <1>7, <1>8

\* The row a request writes refers to what the request carries.
LEMMA UpsertPreserves ==
    ASSUME IInv, NEW q \in Requests, Upsert(q)
    PROVE  IInv'
<1>1. TypeOK /\ UNCHANGED <<sec, gw>> /\ SecretMoves
  BY DEF IInv, Upsert, SecretMoves
<1>2. Owns(sec', req[q]) /\ (cfg.live => Owns(sec', cfg))
  BY <1>1 DEF IInv, Upsert, Carrying
<1>3. faults' \in 0 .. MaxFaults
  BY <1>1, FaultCounted, Zenon DEF Upsert, Outcome
<1>4. cfg' \in Config /\ (cfg'.live => Owns(sec', cfg'))
  <2>1. CASE cfg' = Upserted(req[q])
    <3>1. cfg.ver + 1 \in 0 .. MaxVersion /\ 1 \in 0 .. MaxVersion
      BY <1>1, ConstantAssumption DEF Upsert, TypeOK, Config
    <3>2. cfg' \in Config /\ cfg'.arn = req[q].arn /\ cfg'.sv = req[q].sv
      BY <1>1, <2>1, <3>1 DEF Upserted, Config, TypeOK, Request
    <3>. QED
      BY <1>2, <3>2 DEF Owns
  <2>2. CASE UNCHANGED cfg
    BY <1>1, <1>2, <2>2 DEF TypeOK
  <2>. QED
    BY <2>1, <2>2, Zenon DEF Upsert, Outcome
<1>5. ASSUME NEW r \in Request, Goto(q, r), r.pc \in Carrying => Owns(sec', r)
      PROVE  IInv'
  <2>1. RequestMoves(q, r)
    BY <1>1, <1>3, <1>5 DEF RequestMoves, Goto, TypeOK, IInv
  <2>. QED
    BY <1>4, <2>1, RequestPreserves
<1>6. CASE Goto(q, Done)
  BY <1>5, <1>6, DoneIsRequest
<1>7. CASE Goto(q, At(q, "compensate"))
  <2>1. At(q, "compensate") \in Request /\ Owns(sec', At(q, "compensate"))
    BY <1>1, <1>2, AtIsRequest DEF Owns, Pcs
  <2>. QED
    BY <1>5, <1>7, <2>1
<1>. QED
  BY <1>6, <1>7, Zenon DEF Upsert, Outcome

\* Scheduling a secret for deletion leaves its versions, and a deleted row refers to
\* nothing.
LEMMA RemovalPreserves ==
    ASSUME IInv, NEW q \in Requests,
           Compensate(q) \/ DeleteRow(q) \/ DeleteSecret(q) \/ Abandon(q)
    PROVE  IInv'
<1>1. TypeOK /\ UNCHANGED gw
  BY DEF IInv, Compensate, DeleteRow, DeleteSecret, Abandon
<1>2. sec' = sec \/ sec' = [sec EXCEPT !.state = "scheduled"]
  BY DEF Compensate, DeleteRow, DeleteSecret, Abandon, Outcome, Scheduled
<1>3. /\ SecretMoves /\ sec' \in Secret /\ (sec'.state # "none" => sec'.arn # None)
      /\ sec'.arn = sec.arn /\ sec'.versions = sec.versions
  <2>1. sec.state = "active" \/ sec' = sec
    BY DEF Compensate, DeleteRow, DeleteSecret, Abandon, Outcome, Scheduled
  <2>. QED
    BY <1>1, <1>2, <2>1 DEF IInv, TypeOK, Secret, SecretMoves
<1>4. faults' \in 0 .. MaxFaults
  <2>1. Fault \/ UNCHANGED faults
    BY Zenon DEF Compensate, DeleteRow, DeleteSecret, Abandon, Outcome
  <2>. QED
    BY <1>1, <2>1, FaultCounted
<1>5. cfg' \in Config /\ (cfg'.live => Owns(sec', cfg'))
  <2>1. cfg' = cfg \/ cfg' = NoConfig
    BY Zenon DEF Compensate, DeleteRow, DeleteSecret, Abandon, Outcome
  <2>2. NoConfig \in Config /\ ~NoConfig.live
    BY ConstantAssumption DEF NoConfig, Config
  <2>. QED
    BY <1>1, <1>3, <2>1, <2>2, OwnsKept DEF TypeOK
<1>6. ASSUME NEW r \in Request, Goto(q, r), r.pc \in Carrying => Owns(sec', r)
      PROVE  IInv'
  <2>1. RequestMoves(q, r)
    BY <1>1, <1>3, <1>4, <1>6 DEF RequestMoves, Goto
  <2>. QED
    BY <1>5, <2>1, RequestPreserves
<1>7. CASE Goto(q, Done)
  BY <1>6, <1>7, DoneIsRequest
<1>8. ASSUME NEW pc \in Pcs, Goto(q, At(q, pc)), req[q].pc \in Carrying
      PROVE  IInv'
  <2>1. At(q, pc) \in Request /\ Owns(sec', At(q, pc))
    BY <1>1, <1>3, <1>8, OwnsKept, AtIsRequest DEF Owns
  <2>. QED
    BY <1>6, <1>8, <2>1
<1>9. \/ Goto(q, Done)
      \/ req[q].pc = "deleteRow" /\ Goto(q, At(q, "deleteSecret"))
      \/ req[q].pc = "deleteSecret" /\ Goto(q, At(q, "putBack"))
  BY Zenon DEF Compensate, DeleteRow, DeleteSecret, Abandon, Outcome
<1>. QED
  BY <1>7, <1>8, <1>9 DEF Pcs, Carrying

----------------------------------------------------------------------------
(* The environment and the gateway. *)

\* A purged secret has no versions left to refer to.
LEMMA PurgePreserves == ASSUME IInv, Purge PROVE IInv'
<1>1. sec' = NoSecret /\ UNCHANGED <<cfg, req, gw, faults>> /\ SecretMoves
  BY DEF Purge, SecretMoves
<1>2. TypeOK' /\ KeyMatches'
  BY <1>1 DEF IInv, TypeOK, KeyMatches, NoSecret, Secret
<1>3. sec'.state = "none"
  BY <1>1 DEF NoSecret
<1>. QED
  BY <1>1, <1>2, <1>3, OwnsKept DEF IInv

\* A snapshot names the row's version; what is published has the key it names.
LEMMA GatewayPreserves == ASSUME IInv, Fetch \/ Apply \/ Restart PROVE IInv'
<1>1. UNCHANGED <<cfg, sec, req>> /\ TypeOK
  BY DEF IInv, Fetch, Apply, Restart
<1>2. faults' \in 0 .. MaxFaults
  <2>1. Fault \/ UNCHANGED faults
    BY Zenon DEF Fetch, Apply, Restart
  <2>. QED
    BY <1>1, <2>1, FaultCounted
<1>3. NoConfig \in Config /\ ~NoConfig.live /\ NoVerifier \in State /\ ~NoVerifier.enabled
  BY ConstantAssumption DEF NoConfig, Config, NoVerifier, State
<1>. DEFINE G == [pc: {"idle", "apply"}, up: BOOLEAN, snap: Config, st: State]
<1>4. gw \in G /\ gw.snap \in Config /\ gw.st \in State /\ cfg \in Config
  BY <1>1 DEF TypeOK
<1>5. ASSUME gw' \in G, gw'.st.enabled => gw'.st.key = gw'.st.sv /\ gw'.st.key # None,
             gw'.snap.live => gw'.snap.sv # None
      PROVE  IInv'
  BY <1>1, <1>2, <1>5 DEF IInv, TypeOK, KeyMatches
<1>6. ASSUME NEW t \in State, Publish(t), t.enabled => t.key = t.sv /\ t.key # None
      PROVE  IInv'
  BY <1>3, <1>5, <1>6 DEF Publish
<1>7. CASE Fetch
  <2>1. gw' = [gw EXCEPT !.pc = "apply", !.snap = cfg]
    BY <1>7 DEF Fetch
  <2>. QED
    BY <1>4, <1>5, <2>1, ZenonT(60) DEF IInv, KeyMatches, Owns
<1>8. CASE Restart
  BY <1>3, <1>5, <1>8 DEF Restart
<1>9. CASE Apply
  <2>. DEFINE c == gw.snap
              t == gw.st
  <2>1. CASE Publish([NoVerifier EXCEPT !.ver = c.ver])
    BY <1>4, <1>6, <2>1, ZenonT(60) DEF NoVerifier, State, Config
  <2>2. CASE Publish(t)
    BY <1>4, <1>6, <2>2 DEF IInv, KeyMatches
  <2>3. CASE /\ SameSecret(t, c)
             /\ Publish([t EXCEPT !.ver = c.ver, !.sv = c.sv, !.set = c.set])
    <3>1. [t EXCEPT !.ver = c.ver, !.sv = c.sv, !.set = c.set] \in State
      BY <1>4, ZenonT(60) DEF State, Config
    <3>. QED
      BY <1>4, <1>6, <2>3, <3>1, ZenonT(60) DEF SameSecret, IInv, KeyMatches, State
  <2>4. CASE /\ Enabled(c)
             /\ Publish([enabled |-> TRUE, ver |-> c.ver, arn |-> c.arn, sv |-> c.sv,
                         key |-> c.sv, set |-> c.set])
    <3>1. c.sv # None
      BY <2>4 DEF Enabled, IInv
    <3>2. [enabled |-> TRUE, ver |-> c.ver, arn |-> c.arn, sv |-> c.sv,
           key |-> c.sv, set |-> c.set] \in State
      BY <1>4 DEF State, Config
    <3>. QED
      BY <1>6, <2>4, <3>1, <3>2
  <2>5. CASE Unreadable
    BY <1>3, <1>4, <1>5, <2>5, ZenonT(60) DEF Unreadable, Rejected, IInv, KeyMatches
  <2>. QED
    BY <1>9, <2>1, <2>2, <2>3, <2>4, <2>5, Zenon DEF Apply
<1>. QED
  BY <1>7, <1>8, <1>9

----------------------------------------------------------------------------
(* The theorems. *)

\* Nothing is configured, stored or verified with at first.
LEMMA InitInvariant == Init => IInv
BY ConstantAssumption
   DEF Init, IInv, TypeOK, KeyMatches, NoConfig, Config, NoSecret, Secret, Done, Request, Pcs,
       Carrying, NoVerifier, State

\* Each kind of step keeps the invariant.
LEMMA NextInvariant == IInv /\ [Next]_vars => IInv'
<1>1. ASSUME IInv, UNCHANGED vars PROVE IInv'
  BY <1>1 DEF vars, IInv, TypeOK, KeyMatches
<1>. QED
  BY <1>1, ConfigurePreserves, DeletePreserves, SecretCallPreserves, UpsertPreserves,
     RemovalPreserves, PurgePreserves, GatewayPreserves, Zenon DEF Next

\* The inductive invariant.
THEOREM Invariance == Spec => []IInv
BY InitInvariant, NextInvariant, PTL DEF Spec

\* Every row, secret, request and gateway state is one of the declared ones.
THEOREM TypeCorrect == Spec => []TypeOK
<1>1. IInv => TypeOK
  BY DEF IInv
<1>. QED
  BY <1>1, Invariance, PTL

\* Reconfigure never pairs the key of one secret version with the record of another.
THEOREM KeysMatch == Spec => []KeyMatches
<1>1. IInv => KeyMatches
  BY DEF IInv
<1>. QED
  BY <1>1, Invariance, PTL

\* Whatever requests overlap, fail or lose answers, Upsert stores a version of the
\* secret it names.
THEOREM RowsOwnVersions == Spec => []RowOwnsVersion
<1>1. IInv => RowOwnsVersion
  BY DEF IInv, RowOwnsVersion, Owns
<1>. QED
  BY <1>1, Invariance, PTL

\* Apply drops a verifier only for a snapshot without an enabled configuration.
THEOREM VerifiersKept == Spec => VerifierKept
<1>. DEFINE Keeps == gw.st.enabled /\ ~gw'.st.enabled => ~gw'.up \/ ~Enabled(gw.snap)
<1>1. IInv /\ [Next]_vars => [Keeps]_vars
  <2>. SUFFICES ASSUME IInv, Next PROVE Keeps
    OBVIOUS
  <2>0. gw \in [pc: {"idle", "apply"}, up: BOOLEAN, snap: Config, st: State]
    BY DEF IInv, TypeOK
  <2>1. CASE UNCHANGED gw \/ Fetch
    BY <2>0, <2>1, ZenonT(60) DEF Fetch
  <2>2. CASE Restart
    BY <2>2 DEF Restart
  <2>3. CASE Apply
    <3>. DEFINE c == gw.snap
                t == gw.st
    <3>1. \/ ~Enabled(c)
          \/ Publish(t)
          \/ SameSecret(t, c) /\ Publish([t EXCEPT !.ver = c.ver, !.sv = c.sv, !.set = c.set])
          \/ Publish([enabled |-> TRUE, ver |-> c.ver, arn |-> c.arn, sv |-> c.sv,
                      key |-> c.sv, set |-> c.set])
          \/ Rejected
      BY <2>3, Zenon DEF Apply, Unreadable
    <3>2. t \in State /\ gw.st = t
      BY <2>0
    <3>3. CASE SameSecret(t, c)
               /\ Publish([t EXCEPT !.ver = c.ver, !.sv = c.sv, !.set = c.set])
      BY <3>2, <3>3, ZenonT(60) DEF Publish, SameSecret, State
    <3>4. CASE Publish(t)
      BY <3>4 DEF Publish
    <3>5. CASE Publish([enabled |-> TRUE, ver |-> c.ver, arn |-> c.arn, sv |-> c.sv,
                        key |-> c.sv, set |-> c.set])
      BY <3>5 DEF Publish
    <3>6. CASE Rejected
      BY <2>0, <3>6 DEF Rejected
    <3>. QED
      BY <3>1, <3>3, <3>4, <3>5, <3>6
  <2>. QED
    BY <2>1, <2>2, <2>3, Zenon
       DEF Next, Configure, CreateSecret, RestoreSecret, PutSecretValue, Upsert, Compensate,
           Delete, DeleteRow, DeleteSecret, Abandon, Purge
<1>. QED
  BY <1>1, Invariance, PTL DEF Spec, VerifierKept

----------------------------------------------------------------------------
(* One request at a time. *)

\* The version r refers to can be read from secret s.
Reads(s, r) == s.state = "active" /\ s.arn = r.arn /\ r.sv \in s.versions

\* The requests that have found no row, or have deleted it.
Absent == {"create", "restore", "put", "upsertNew", "compensate", "deleteSecret", "putBack"}

\* The requests that may still write the references they hold into the row.
Holding == {"upsertNew", "upsertRotated", "upsertSettings", "deleteRow", "deleteSecret",
            "putBack"}

\* Requests come one after the other, and a call that fails has had no effect.
OneAtATime == ~LostAnswers /\ \A p, q \in Requests : p = q

\* The row, and the request that may write one, refer to what can be read; a request
\* that could take the secret away from the row only runs while there is none.
SInv == /\ cfg.live => Reads(sec, cfg)
        /\ \A q \in Requests : /\ req[q].pc \in Absent => ~cfg.live
                               /\ req[q].pc \in Holding => Reads(sec, req[q])

\* With one request, what a step leaves of the row and of that request is all there is.
LEMMA SoloStep ==
    ASSUME OneAtATime, TypeOK, NEW q \in Requests, NEW r, Goto(q, r),
           cfg'.live => Reads(sec', cfg'),
           r.pc \in Absent => ~cfg'.live, r.pc \in Holding => Reads(sec', r)
    PROVE  SInv'
<1>1. \A p \in Requests : req'[p] = r
  BY Zenon DEF OneAtATime, TypeOK, Goto
<1>. QED
  BY <1>1, Zenon DEF SInv

\* A request that ends leaves only the row to look at.
LEMMA SoloDone ==
    ASSUME OneAtATime, TypeOK, NEW q \in Requests, Goto(q, Done), cfg'.live => Reads(sec', cfg')
    PROVE  SInv'
<1>1. Done.pc \notin Absent /\ Done.pc \notin Holding
  BY DEF Done, Absent, Holding
<1>. QED
  BY <1>1, SoloStep, Zenon

\* Configure and Delete hold what the row refers to, and create only without a row.
LEMMA SoloReads ==
    ASSUME OneAtATime, TypeOK, SInv, NEW q \in Requests,
           (\E s \in Settings, b \in BOOLEAN : Configure(q, s, b)) \/ Delete(q)
    PROVE  SInv'
<1>. DEFINE N(pc, s, a, v) == [pc |-> pc, set |-> s, arn |-> a, sv |-> v]
<1>0. UNCHANGED <<cfg, sec>>
  BY DEF Configure, Delete
<1>1. PICK r : /\ Goto(q, r)
               /\ \/ cfg.live /\ (\E s : r = N("rotate", s, cfg.arn, None))
                  \/ cfg.live /\ (\E s : r = N("upsertSettings", s, cfg.arn, cfg.sv))
                  \/ cfg.live /\ (\E s : r = N("deleteRow", s, cfg.arn, cfg.sv))
                  \/ ~cfg.live /\ (\E s : r = N("create", s, None, None))
  BY Zenon DEF Configure, Delete
<1>2. cfg'.live => Reads(sec', cfg')
  BY <1>0, Zenon DEF SInv
<1>3. r.pc \in Absent => ~cfg'.live
  BY <1>0, <1>1 DEF Absent
<1>4. r.pc \in Holding => Reads(sec', r)
  BY <1>0, <1>1 DEF Holding, SInv, Reads
<1>. QED
  BY <1>1, <1>2, <1>3, <1>4, SoloStep, Zenon

\* Creating a secret, restoring and rotating it: what the row refers to stays.
LEMMA SoloSecretCall ==
    ASSUME OneAtATime, TypeOK, SInv, NEW q \in Requests,
           CreateSecret(q) \/ RestoreSecret(q) \/ PutSecretValue(q)
    PROVE  SInv'
<1>0. UNCHANGED cfg
  BY Zenon DEF CreateSecret, RestoreSecret, PutSecretValue
<1>1. CASE CreateSecret(q)
  <2>0. ~cfg'.live /\ req[q].pc = "create"
    BY <1>0, <1>1 DEF CreateSecret, SInv, Absent
  <2>1. ASSUME NEW a \in UnusedArns, NEW v \in UnusedVersions,
               Goto(q, [At(q, "upsertNew") EXCEPT !.arn = a, !.sv = v]),
               sec' = [state |-> "active", arn |-> a, versions |-> {v}]
        PROVE  SInv'
    <3>1. Reads(sec', [At(q, "upsertNew") EXCEPT !.arn = a, !.sv = v])
      BY <2>1 DEF Reads, At, TypeOK, Request
    <3>. QED
      BY <2>0, <2>1, <3>1, SoloStep, Zenon
  <2>2. CASE Goto(q, At(q, "restore"))
    <3>1. At(q, "restore").pc \notin Holding
      BY DEF At, TypeOK, Request, Holding
    <3>. QED
      BY <2>0, <2>2, <3>1, SoloStep, Zenon
  <2>3. CASE Goto(q, Done)
    BY <2>0, <2>3, SoloDone, Zenon
  <2>. QED
    BY <1>1, <2>1, <2>2, <2>3, Zenon DEF CreateSecret, Outcome, OneAtATime
<1>2. CASE RestoreSecret(q)
  <2>0. ~cfg'.live
    BY <1>0, <1>2 DEF RestoreSecret, SInv, Absent
  <2>1. Goto(q, At(q, "put"))
    BY <1>2, Zenon DEF RestoreSecret, Outcome
  <2>2. At(q, "put").pc \notin Holding
    BY DEF At, TypeOK, Request, Holding
  <2>. QED
    BY <2>0, <2>1, <2>2, SoloStep, Zenon
<1>3. CASE PutSecretValue(q)
  <2>. DEFINE N(pc, v) == [At(q, pc) EXCEPT !.arn = sec.arn, !.sv = v]
  <2>1. ASSUME NEW pc \in {"upsertNew", "upsertRotated"}, pc = "upsertNew" => ~cfg.live,
               sec.state = "active", NEW v \in UnusedVersions, Goto(q, N(pc, v)),
               sec' = [sec EXCEPT !.versions = (@ \cap VersionsInUse) \cup {v}]
        PROVE  SInv'
    <3>1. cfg.sv \in VersionsInUse
      BY DEF VersionsInUse
    <3>2. /\ sec'.state = "active" /\ sec'.arn = sec.arn
          /\ sec'.versions = (sec.versions \cap VersionsInUse) \cup {v}
      BY <2>1 DEF TypeOK, Secret
    <3>3. N(pc, v).pc = pc /\ N(pc, v).arn = sec.arn /\ N(pc, v).sv = v
      BY DEF At, TypeOK, Request
    <3>. HIDE DEF N
    <3>4. Reads(sec', N(pc, v))
      BY <3>2, <3>3 DEF Reads
    <3>5. cfg'.live => Reads(sec', cfg')
      BY <1>0, <3>1, <3>2 DEF SInv, Reads
    <3>6. N(pc, v).pc \in Absent => ~cfg'.live
      BY <1>0, <2>1, <3>3 DEF Absent
    <3>. QED
      BY <2>1, <3>4, <3>5, <3>6, SoloStep, Zenon
  <2>2. CASE Goto(q, Done) /\ UNCHANGED sec
    <3>1. cfg'.live => Reads(sec', cfg')
      BY <1>0, <2>2, Zenon DEF SInv
    <3>. QED
      BY <2>2, <3>1, SoloDone, Zenon
  <2>3. req[q].pc = "put" => ~cfg.live
    BY DEF SInv, Absent
  <2>4. CASE req[q].pc = "put" /\ UpdateSecret(q, "upsertNew", sec.state = "active")
    BY <2>1, <2>2, <2>3, <2>4, Zenon DEF UpdateSecret, Outcome, OneAtATime
  <2>5. CASE UpdateSecret(q, "upsertRotated", sec.state = "active" /\ sec.arn = req[q].arn)
    <3>1. "upsertRotated" # "upsertNew"
      OBVIOUS
    <3>. QED
      BY <2>1, <2>2, <2>5, <3>1, Zenon DEF UpdateSecret, Outcome, OneAtATime
  <2>. QED
    BY <1>3, <2>4, <2>5, Zenon DEF PutSecretValue
<1>. QED
  BY <1>1, <1>2, <1>3, Zenon

\* Upsert writes what the request holds; without an effect the row stays.
LEMMA SoloUpsert ==
    ASSUME OneAtATime, TypeOK, SInv, NEW q \in Requests, Upsert(q)
    PROVE  SInv'
<1>0. req[q].pc \in Holding /\ UNCHANGED sec
  BY DEF Upsert, Holding
<1>1. CASE cfg' = Upserted(req[q]) /\ Goto(q, Done)
  <2>1. Reads(sec', cfg')
    BY <1>0, <1>1 DEF SInv, Reads, Upserted
  <2>. QED
    BY <1>1, <2>1, SoloDone, Zenon
<1>2. CASE UNCHANGED cfg /\ Goto(q, Done)
  BY <1>0, <1>2, SoloDone, Zenon DEF SInv
<1>3. CASE UNCHANGED cfg /\ req[q].pc = "upsertNew" /\ Goto(q, At(q, "compensate"))
  <2>1. ~cfg'.live
    BY <1>3 DEF SInv, Absent
  <2>2. At(q, "compensate").pc \notin Holding
    BY DEF At, TypeOK, Request, Holding
  <2>. QED
    BY <1>3, <2>1, <2>2, SoloStep, Zenon
<1>. QED
  BY <1>1, <1>2, <1>3, Zenon DEF Upsert, Outcome, OneAtATime

\* Compensating and deleting: the secret is only scheduled once there is no row, and a
\* row that is put back finds it as it was.
LEMMA SoloRemoval ==
    ASSUME OneAtATime, TypeOK, SInv, NEW q \in Requests,
           Compensate(q) \/ DeleteRow(q) \/ DeleteSecret(q) \/ Abandon(q)
    PROVE  SInv'
<1>1. CASE Compensate(q)
  <2>1. ~cfg'.live
    BY <1>1 DEF Compensate, SInv, Absent
  <2>. QED
    BY <1>1, <2>1, SoloDone, Zenon DEF Compensate, Outcome
<1>2. CASE DeleteRow(q)
  <2>0. Reads(sec, req[q]) /\ UNCHANGED sec
    BY <1>2 DEF DeleteRow, SInv, Holding
  <2>1. CASE cfg' = NoConfig /\ Goto(q, At(q, "deleteSecret"))
    <3>1. ~cfg'.live
      BY <2>1 DEF NoConfig
    <3>2. Reads(sec', At(q, "deleteSecret"))
      BY <2>0 DEF Reads, At, TypeOK, Request
    <3>. QED
      BY <2>1, <3>1, <3>2, SoloStep, Zenon
  <2>2. CASE UNCHANGED cfg /\ Goto(q, Done)
    BY <2>0, <2>2, SoloDone, Zenon DEF SInv
  <2>. QED
    BY <1>2, <2>1, <2>2, Zenon DEF DeleteRow, Outcome, OneAtATime
<1>3. CASE DeleteSecret(q)
  <2>0. Reads(sec, req[q]) /\ ~cfg'.live
    BY <1>3 DEF DeleteSecret, SInv, Holding, Absent
  <2>1. CASE Goto(q, Done)
    BY <2>0, <2>1, SoloDone, Zenon
  <2>2. CASE Goto(q, At(q, "putBack")) /\ UNCHANGED sec
    <3>1. Reads(sec', At(q, "putBack"))
      BY <2>0, <2>2 DEF Reads, At, TypeOK, Request
    <3>. QED
      BY <2>0, <2>2, <3>1, SoloStep, Zenon
  <2>. QED
    BY <1>3, <2>1, <2>2, Zenon DEF DeleteSecret, OneAtATime
<1>4. CASE Abandon(q)
  BY <1>4, SoloDone, Zenon DEF Abandon, SInv
<1>. QED
  BY <1>1, <1>2, <1>3, <1>4, Zenon

\* The recovery window of a secret ends, or a gateway moves.
LEMMA SoloOthers ==
    ASSUME SInv, Purge \/ Fetch \/ Apply \/ Restart \/ UNCHANGED vars
    PROVE  SInv'
<1>1. CASE Purge
  <2>1. UNCHANGED <<cfg, req>> /\ \A r : ~Reads(sec, r)
    BY <1>1 DEF Purge, Reads
  <2>. QED
    BY <2>1, Zenon DEF SInv
<1>2. CASE Fetch \/ Apply \/ Restart \/ UNCHANGED vars
  <2>1. UNCHANGED <<cfg, sec, req>>
    BY <1>2 DEF Fetch, Apply, Restart, vars
  <2>. QED
    BY <2>1, Zenon DEF SInv
<1>. QED
  BY <1>1, <1>2

\* Where requests do not overlap and a failing call has no effect, the secret of a
\* configured project can be read, wherever a call fails or the process dies: Configure,
\* its compensation and Delete never leave a row without its secret.
THEOREM ReferencesReadable ==
    ASSUME ~LostAnswers, \A p, q \in Requests : p = q
    PROVE  Spec => []ReferencedReadable
<1>0. OneAtATime
  BY DEF OneAtATime
<1>1. Init => SInv
  BY DEF Init, SInv, NoConfig, Done, Absent, Holding
<1>2. TypeOK /\ SInv /\ [Next]_vars => SInv'
  BY <1>0, SoloReads, SoloSecretCall, SoloUpsert, SoloRemoval, SoloOthers, Zenon DEF Next
<1>3. SInv => ReferencedReadable
  BY Zenon DEF SInv, Reads, ReferencedReadable, Readable
<1>. QED
  BY <1>1, <1>2, <1>3, TypeCorrect, PTL DEF Spec

============================================================================
