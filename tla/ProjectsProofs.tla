---------------------------- MODULE ProjectsProofs ----------------------------
(***************************************************************************)
(* Memberships, for any number of users and of requests that overlap: the  *)
(* creator of a project stays a member, a project keeps an owner while     *)
(* requests do not overlap, and one that has lost its owners stays         *)
(* without.                                                                *)
(***************************************************************************)
EXTENDS Projects, FiniteSetTheorems, TLAPS

RoleOps == {"add", "change"}

\* What a request knows at each place.  The check that keeps the creator in is made
\* before the count and the DELETE, and stays true because owner_id is never written
\* once the project exists.
ReqOk(r, owner) ==
    /\ r = [pc |-> r.pc, op |-> r.op, target |-> r.target, arg |-> r.arg,
            seen |-> r.seen, got |-> r.got]
    /\ r.pc # "idle" => owner # None
    /\ r.pc = "active" => r.seen \in Roles /\ r.op \in RoleOps \cup {"remove", "origins", "summary"}
    /\ r.op \in RoleOps => r.target \in Users /\ r.arg \in Roles
    /\ r.op = "remove" => r.target \in Users
    /\ r.pc \in {"exists", "insert"} => r.op = "add"
    /\ r.pc \in {"count", "write"} /\ r.op = "remove" => r.target # owner

MemberInv ==
    /\ project = [owner |-> project.owner, active |-> project.active,
                  deleted |-> project.deleted, origins |-> project.origins]
    /\ project.owner \in Users \cup {None}
    /\ members \in [Users -> Roles \cup {None}]
    /\ DOMAIN req = Requests
    /\ \A q \in Requests : ReqOk(req[q], project.owner)
    /\ load \in Loads
    /\ CreatorIsMember

\* A request that was answered knows nothing.
LEMMA IdleOk == \A owner : ReqOk(Idle, owner)
BY NoneAssumption DEF ReqOk, Idle, RoleOps

\* A step of one request that writes neither owner_id nor a membership.
LEMMA Keeps ==
    ASSUME MemberInv, NEW q \in Requests, NEW new, req' = [req EXCEPT ![q] = new],
           ReqOk(new, project.owner), UNCHANGED <<members, load>>,
           project'.owner = project.owner,
           project' = [owner |-> project'.owner, active |-> project'.active,
                       deleted |-> project'.deleted, origins |-> project'.origins]
    PROVE  MemberInv'
BY DEF MemberInv, CreatorIsMember

\* A step that writes the membership of u, not removing the creator, and answers.
LEMMA Writes ==
    ASSUME MemberInv, NEW q \in Requests, Answer(q), UNCHANGED <<project, load>>,
           NEW u \in Users, NEW role \in Roles \cup {None},
           members' = [members EXCEPT ![u] = role], role = None => u # project.owner
    PROVE  MemberInv'
<1>1. members' \in [Users -> Roles \cup {None}]
  BY DEF MemberInv
<1>2. CreatorIsMember'
  BY NoneAssumption DEF MemberInv, CreatorIsMember
<1>3. \A r \in Requests : ReqOk(req'[r], project.owner)
  BY IdleOk DEF MemberInv, Answer
<1> QED  BY <1>1, <1>2, <1>3 DEF MemberInv, Answer

\* ProjectScope: what a request brings has the type its operation asks for.
LEMMA ValidateKeeps ==
    ASSUME MemberInv, NEW q \in Requests, ValidateMembership(q)
    PROVE  MemberInv'
<1>1. PICK u \in Members, op \in load \ {"cors"} : \E in \in Input(op) :
         req' = [req EXCEPT ![q] = [Idle EXCEPT !.pc = "active", !.op = op,
                   !.target = in.target, !.arg = in.arg, !.seen = members[u]]]
  BY DEF ValidateMembership
<1>2. PICK in \in Input(op) :
         req' = [req EXCEPT ![q] = [Idle EXCEPT !.pc = "active", !.op = op,
                   !.target = in.target, !.arg = in.arg, !.seen = members[u]]]
  BY <1>1
<1>3. PICK role \in Roles : role = members[u]
  BY DEF Members, MemberInv
<1>4. op \in RoleOps \cup {"remove", "origins", "summary"}
  BY LoadsAssumption DEF MemberInv, RoleOps
<1>5. /\ op \in RoleOps => in.target \in Users /\ in.arg \in Roles
      /\ op = "remove" => in.target \in Users
  BY <1>4 DEF Input, RoleOps
<1>6. PICK target, arg : target = in.target /\ arg = in.arg
  OBVIOUS
<1>7. PICK new : new = [Idle EXCEPT !.pc = "active", !.op = op, !.target = target,
                                    !.arg = arg, !.seen = role]
  OBVIOUS
<1>8. req' = [req EXCEPT ![q] = new]
  BY <1>2, <1>3, <1>6, <1>7
<1>9. new = [pc |-> "active", op |-> op, target |-> target, arg |-> arg, seen |-> role,
              got |-> None]
  BY <1>7 DEF Idle
<1>10. UNCHANGED <<project, members, load>> /\ project.owner # None
  BY DEF ValidateMembership, Live
<1>11. ReqOk(new, project.owner)
  BY <1>4, <1>5, <1>6, <1>10, <1>9 DEF ReqOk
<1> QED  BY ZenonT(40), <1>10, <1>11, <1>8, Keeps DEF MemberInv

\* Steps that answer a request, or send it on, and write no membership.
LEMMA StepKeeps ==
    ASSUME MemberInv, NEW q \in Requests,
           \/ FillOrigins(q) \/ Admit(q) \/ AlreadyMember(q) \/ ReadRole(q) \/ ReadRemovable(q)
           \/ CountOwners(q) \/ UpdateDashboardOrigins(q) \/ GetProjectSummary(q) \/ Fail(q)
    PROVE  MemberInv'
<1>0. PICK old : old = req[q] /\ ReqOk(old, project.owner)
  BY DEF MemberInv
<1>1. /\ UNCHANGED <<members, load>> /\ project'.owner = project.owner
      /\ project' = [owner |-> project'.owner, active |-> project'.active,
                     deleted |-> project'.deleted, origins |-> project'.origins]
  BY DEF MemberInv, FillOrigins, Admit, AlreadyMember, ReadRole, ReadRemovable, CountOwners,
         UpdateDashboardOrigins, StoreOrigins, Invalidate, GetProjectSummary, GetSummary,
         FillSummary, Fail
<1>2. CASE Answer(q)
  BY <1>1, <1>2, IdleOk, Keeps DEF Answer
<1>3. ASSUME NEW pc, Goto(q, pc), old.pc # "idle", pc # "active",
             pc \in {"exists", "insert"} => old.op = "add",
             pc \in {"count", "write"} /\ old.op = "remove" => old.target # project.owner
      PROVE  MemberInv'
  <2>1. PICK new : new = [old EXCEPT !.pc = pc]
    OBVIOUS
  <2>2. req' = [req EXCEPT ![q] = new]
    BY <1>0, <1>3, <2>1 DEF Goto
  <2>3. new = [pc |-> pc, op |-> old.op, target |-> old.target, arg |-> old.arg,
               seen |-> old.seen, got |-> old.got]
    BY <1>0, <2>1 DEF ReqOk
  <2>4. ReqOk(new, project.owner)
    BY <1>0, <1>3, <2>3 DEF ReqOk
  <2> QED  BY <1>1, <2>2, <2>4, Keeps
<1>4. CASE Admit(q)
  <2>1. CASE req' = [req EXCEPT ![q].pc = First[req[q].op], ![q].seen = None]
    <3>1. PICK pc : pc = First[old.op]
      OBVIOUS
    <3>2. PICK new : new = [old EXCEPT !.pc = pc, !.seen = None]
      OBVIOUS
    <3>3. req' = [req EXCEPT ![q] = new]
      BY <1>0, <2>1, <3>1, <3>2
    <3>4. new = [pc |-> pc, op |-> old.op, target |-> old.target, arg |-> old.arg,
                 seen |-> None, got |-> old.got]
      BY <1>0, <3>2 DEF ReqOk
    <3>5. /\ old.pc = "active" /\ pc \notin {"active", "insert", "count", "write"}
          /\ pc = "exists" => old.op = "add"
      BY <1>0, <1>4, <3>1 DEF Admit, ReqOk, RoleOps, First
    <3>6. ReqOk(new, project.owner)
      BY <1>0, <3>4, <3>5 DEF ReqOk
    <3> QED  BY <1>1, <3>3, <3>6, Keeps
  <2> QED  BY <1>2, <1>4, <2>1 DEF Admit
<1>5. CASE AlreadyMember(q)
  <2>1. old.pc = "exists" /\ (Answer(q) \/ Goto(q, "insert"))
    BY <1>0, <1>5 DEF AlreadyMember
  <2>2. old.op = "add"
    BY <1>0, <2>1 DEF ReqOk
  <2> QED  BY <1>2, <1>3, <2>1, <2>2
<1>6. CASE ReadRole(q)
  <2>1. old.pc = "role" /\ old.op = "change" /\ (Answer(q) \/ Goto(q, "count") \/ Goto(q, "write"))
    BY <1>0, <1>6 DEF ReadRole
  <2> QED  BY <1>2, <1>3, <2>1
<1>7. CASE ReadRemovable(q)
  <2>1. /\ old.pc = "role"
        /\ Answer(q) \/ (old.target # project.owner /\ (Goto(q, "count") \/ Goto(q, "write")))
    BY <1>0, <1>7 DEF ReadRemovable, Removable
  <2> QED  BY <1>2, <1>3, <2>1
<1>8. CASE CountOwners(q)
  <2>1. old.pc = "count" /\ (Answer(q) \/ Goto(q, "write"))
    BY <1>0, <1>8 DEF CountOwners
  <2>2. old.op = "remove" => old.target # project.owner
    BY <1>0, <2>1 DEF ReqOk
  <2> QED  BY <1>2, <1>3, <2>1, <2>2
<1>9. CASE UpdateDashboardOrigins(q)
  <2>1. Answer(q) \/ (old.pc = "store" /\ Goto(q, "invalidate"))
    BY <1>0, <1>9 DEF UpdateDashboardOrigins, StoreOrigins, Invalidate
  <2> QED  BY <1>2, <1>3, <2>1
<1>10. CASE GetProjectSummary(q)
  <2>1. CASE req' = [req EXCEPT ![q].pc = "summaryFill", ![q].got = Cardinality(Members)]
             /\ req[q].pc = "cache"
    <3>1. PICK n : n = Cardinality(Members)
      OBVIOUS
    <3>2. PICK new : new = [old EXCEPT !.pc = "summaryFill", !.got = n]
      OBVIOUS
    <3>3. req' = [req EXCEPT ![q] = new]
      BY <1>0, <2>1, <3>1, <3>2
    <3>4. new = [pc |-> "summaryFill", op |-> old.op, target |-> old.target, arg |-> old.arg,
                 seen |-> old.seen, got |-> n]
      BY <1>0, <3>2 DEF ReqOk
    <3>5. ReqOk(new, project.owner)
      BY <1>0, <2>1, <3>4 DEF ReqOk
    <3> QED  BY <1>1, <3>3, <3>5, Keeps
  <2> QED  BY <1>2, <1>10, <2>1 DEF GetProjectSummary, GetSummary, FillSummary
<1>11. CASE FillOrigins(q) \/ Fail(q)
  BY <1>2, <1>11 DEF FillOrigins, Fail
<1> QED  BY <1>4, <1>5, <1>6, <1>7, <1>8, <1>9, <1>10, <1>11

\* The three statements that write a membership.
LEMMA WriteKeeps ==
    ASSUME MemberInv, NEW q \in Requests, InsertMember(q) \/ UpdateRole(q) \/ DeleteMember(q)
    PROVE  MemberInv'
<1>1. PICK old : old = req[q] /\ ReqOk(old, project.owner)
  BY DEF MemberInv
<1>2. Answer(q) /\ UNCHANGED <<project, load>>
  BY DEF InsertMember, UpdateRole, DeleteMember
<1>3. ASSUME NEW u \in Users, NEW role \in Roles \cup {None},
             members' = [members EXCEPT ![u] = role], role = None => u # project.owner
      PROVE  MemberInv'
  BY <1>2, <1>3, Writes
<1>4. CASE InsertMember(q)
  <2>1. old.target \in Users /\ old.arg \in Roles
    BY <1>1, <1>4 DEF InsertMember, ReqOk, RoleOps
  <2>2. PICK role : role = IF members[old.target] = None THEN old.arg ELSE members[old.target]
    OBVIOUS
  <2>3. role \in Roles \cup {None} /\ role # None
    BY <2>1, <2>2, NoneAssumption DEF MemberInv
  <2>4. members' = [members EXCEPT ![old.target] = role]
    BY <1>1, <1>4, <2>2 DEF InsertMember
  <2> QED  BY <1>3, <2>1, <2>3, <2>4
<1>5. CASE UpdateRole(q)
  <2>1. old.target \in Users /\ old.arg \in Roles
    BY <1>1, <1>5 DEF UpdateRole, ReqOk, RoleOps
  <2>2. PICK role : role = IF members[old.target] = None THEN members[old.target] ELSE old.arg
    OBVIOUS
  <2>3. role \in Roles \cup {None} /\ (role = None => old.target # project.owner)
    BY <2>1, <2>2, NoneAssumption DEF MemberInv, CreatorIsMember
  <2>4. members' = [members EXCEPT ![old.target] = role]
    BY <1>1, <1>5, <2>2 DEF UpdateRole
  <2> QED  BY <1>3, <2>1, <2>3, <2>4
<1>6. CASE DeleteMember(q)
  <2>1. old.target \in Users /\ old.target # project.owner
    BY <1>1, <1>6 DEF DeleteMember, ReqOk
  <2>2. members' = [members EXCEPT ![old.target] = None]
    BY <1>1, <1>6 DEF DeleteMember
  <2> QED  BY <1>3, <2>1, <2>2
<1> QED  BY <1>4, <1>5, <1>6

\* Create finds no request under way: none is let in before the project exists.
LEMMA CreateKeeps ==
    ASSUME MemberInv, NEW u \in Users, Create(u)
    PROVE  MemberInv'
<1>1. /\ project' = [owner |-> u, active |-> project.active, deleted |-> project.deleted,
                     origins |-> project.origins]
      /\ members' = [members EXCEPT ![u] = "owner"] /\ UNCHANGED <<req, load>>
  BY DEF Create, MemberInv
<1>2. \A q \in Requests : ReqOk(req'[q], u)
  <2> SUFFICES ASSUME NEW q \in Requests
               PROVE  ReqOk(req[q], u)
    BY <1>1
  <2>1. ReqOk(req[q], project.owner) /\ project.owner = None
    BY DEF MemberInv, Create
  <2>2. req[q].pc = "idle"
    BY <2>1 DEF ReqOk
  <2> QED  BY <2>1, <2>2 DEF ReqOk
<1>3. members' \in [Users -> Roles \cup {None}] /\ members'[u] = "owner" /\ "owner" # None
  BY <1>1, RolesAssumption, NoneAssumption DEF MemberInv
<1> QED  BY <1>1, <1>2, <1>3 DEF MemberInv, CreatorIsMember

\* Every step keeps the invariant.
LEMMA MemberStep == MemberInv /\ [Next]_vars => MemberInv'
<1> SUFFICES ASSUME MemberInv, [Next]_vars
             PROVE  MemberInv'
  OBVIOUS
<1>1. ASSUME NEW u \in Users, Create(u)
      PROVE  MemberInv'
  BY <1>1, CreateKeeps
<1>2. CASE Delete \/ Suspend \/ Reactivate
  BY <1>2 DEF Delete, Suspend, Reactivate, MemberInv, CreatorIsMember
<1>3. ASSUME NEW q \in Requests, GetOrigins(q)
      PROVE  MemberInv'
  <2>1. PICK new : new = [Idle EXCEPT !.pc = "corsFill", !.op = "cors", !.got = project.origins]
    OBVIOUS
  <2>2. req' = [req EXCEPT ![q] = new] /\ UNCHANGED <<project, members, load>>
        /\ project.owner # None
    BY <1>3, <2>1 DEF GetOrigins, Live
  <2>3. new = [pc |-> "corsFill", op |-> "cors", target |-> None, arg |-> None,
               seen |-> None, got |-> project.origins]
    BY <2>1 DEF Idle
  <2>4. ReqOk(new, project.owner)
    BY <2>2, <2>3 DEF ReqOk, RoleOps
  <2> QED  BY <2>2, <2>4, Keeps DEF MemberInv
<1>4. ASSUME NEW q \in Requests, ValidateMembership(q)
      PROVE  MemberInv'
  BY <1>4, ValidateKeeps
<1>5. ASSUME NEW q \in Requests, Step(q)
      PROVE  MemberInv'
  BY <1>5, StepKeeps, WriteKeeps DEF Step, AddMember, ChangeRole, RemoveMember
<1>6. CASE OriginsExpire \/ SummaryExpires \/ UNCHANGED vars
  BY <1>6 DEF OriginsExpire, SummaryExpires, vars, MemberInv, CreatorIsMember
<1>7. CASE Restart
  BY <1>7, IdleOk DEF Restart, MemberInv, CreatorIsMember
<1> QED  BY <1>1, <1>2, <1>3, <1>4, <1>5, <1>6, <1>7 DEF Next

\* The invariant holds at first, and so always.
LEMMA MemberInvariant == Spec => []MemberInv
<1>1. Init => MemberInv
  BY IdleOk, RolesAssumption DEF Init, MemberInv, CreatorIsMember
<1> QED  BY <1>1, MemberStep, PTL DEF Spec

\* Whoever created a project stays a member of it, however many requests remove members
\* and change roles at the same time (MembershipRepo.RemoveMember, UpdateRole).
THEOREM CreatorStays == Spec => []CreatorIsMember
<1>1. MemberInv => CreatorIsMember
  BY DEF MemberInv
<1> QED  BY <1>1, MemberInvariant, PTL

----------------------------------------------------------------------------
(* Projects without an owner *)

\* A step of one request that writes neither owner_id nor a membership, and leaves the
\* request not admitted.
LEMMA StaysOwnerless ==
    ASSUME MemberInv, Ownerless, NEW q \in Requests, ~Admitted(q)',
           \A r \in Requests \ {q} : req'[r] = req[r],
           UNCHANGED members, project'.owner = project.owner
    PROVE  Ownerless'
BY DEF Ownerless, Owners, Admitted

\* RBAC lets an owner only past the gate of the members routes.
LEMMA OwnersOnly ==
    ASSUME NEW role \in Roles, NEW op \in {"add", "change", "remove"}, RBAC(role, op)
    PROVE  role = "owner"
<1>1. role \in {"viewer", "editor", "owner"}
  BY RolesAssumption DEF Weight
<1> QED  BY <1>1 DEF RBAC, MinRole, Weight

\* While a project has no owner and no request of one is under way, no step makes one.
LEMMA OwnerlessStep ==
    ASSUME MemberInv, Next, Ownerless
    PROVE  Ownerless'
<1>0. project.owner # None /\ Owners = {} /\ \A q \in Requests : ~Admitted(q)
  BY DEF Ownerless
<1>1. ASSUME NEW u \in Users, Create(u)
      PROVE  FALSE
  BY <1>0, <1>1 DEF Create
<1>2. CASE Delete \/ Suspend \/ Reactivate
  <2>1. project'.owner = project.owner /\ UNCHANGED <<members, req>>
    BY <1>2 DEF Delete, Suspend, Reactivate, MemberInv
  <2> QED  BY <2>1 DEF Ownerless, Owners, Admitted
<1>3. CASE OriginsExpire \/ SummaryExpires
  BY <1>3 DEF OriginsExpire, SummaryExpires, Ownerless, Owners, Admitted
<1>4. CASE Restart
  BY <1>4, NoneAssumption DEF Restart, Idle, Ownerless, Owners, Admitted
<1>5. ASSUME NEW q \in Requests, GetOrigins(q) \/ ValidateMembership(q) \/ Step(q)
      PROVE  Ownerless'
  <2>0. DOMAIN req = Requests /\ ReqOk(req[q], project.owner) /\ ~Admitted(q)
    BY <1>0 DEF MemberInv
  <2>1. ASSUME Answer(q), UNCHANGED members, project'.owner = project.owner
        PROVE  Ownerless'
    <3>1. ~Admitted(q)' /\ \A r \in Requests \ {q} : req'[r] = req[r]
      BY <2>0, <2>1, NoneAssumption DEF Answer, Idle, Admitted
    <3> QED  BY <2>1, <3>1, StaysOwnerless
  <2>2. CASE GetOrigins(q)
    <3>1. ~Admitted(q)' /\ \A r \in Requests \ {q} : req'[r] = req[r]
      BY <2>0, <2>2 DEF GetOrigins, Idle, Admitted
    <3> QED  BY <2>2, <3>1, StaysOwnerless DEF GetOrigins
  <2>3. CASE ValidateMembership(q)
    <3>1. PICK u \in Members, op \in load \ {"cors"} : \E in \in Input(op) :
             req' = [req EXCEPT ![q] = [Idle EXCEPT !.pc = "active", !.op = op,
                       !.target = in.target, !.arg = in.arg, !.seen = members[u]]]
      BY <2>3 DEF ValidateMembership
    <3>2. PICK role : role = members[u] /\ role # "owner"
      BY <1>0 DEF Members, Owners
    <3>3. req'[q].pc = "active" /\ req'[q].seen = role
      BY <2>0, <3>1, <3>2 DEF Idle
    <3>4. ~Admitted(q)' /\ \A r \in Requests \ {q} : req'[r] = req[r]
      BY <2>0, <3>1, <3>2, <3>3 DEF Admitted
    <3> QED  BY <2>3, <3>4, StaysOwnerless DEF ValidateMembership
  <2>4. CASE Admit(q)
    <3>1. UNCHANGED <<project, members>>
      BY <2>4 DEF Admit
    <3>2. CASE Answer(q)
      BY <2>1, <3>1, <3>2
    <3>3. CASE ~Answer(q)
      <4>1. /\ RBAC(req[q].seen, req[q].op) /\ req[q].pc = "active"
            /\ req' = [req EXCEPT ![q].pc = First[req[q].op], ![q].seen = None]
        BY <2>4, <3>3 DEF Admit
      <4>2. req[q].seen \in Roles
        BY <2>0, <4>1 DEF ReqOk
      <4>3. req[q].op \notin {"add", "change", "remove"}
        BY <2>0, <4>1, <4>2, OwnersOnly DEF Admitted
      <4>4. req'[q].op = req[q].op /\ \A r \in Requests \ {q} : req'[r] = req[r]
        BY <2>0, <4>1 DEF ReqOk
      <4>5. ~Admitted(q)'
        BY <4>3, <4>4 DEF Admitted
      <4> QED  BY <3>1, <4>4, <4>5, StaysOwnerless
    <3> QED  BY <3>2, <3>3
  <2>5. CASE FillOrigins(q) \/ FillSummary(q) \/ Invalidate(q) \/ Fail(q)
    BY <2>1, <2>5 DEF FillOrigins, FillSummary, Invalidate, Fail
  <2>6. CASE AddMember(q) \/ ChangeRole(q) \/ RemoveMember(q)
    <3>1. req[q].op \in {"add", "change", "remove"} /\ req[q].pc # "active"
      BY <2>0, <2>6 DEF AddMember, AlreadyMember, InsertMember, ChangeRole, ReadRole, UpdateRole,
                        RemoveMember, ReadRemovable, DeleteMember, ReqOk
    <3> QED  BY <2>0, <3>1 DEF Admitted
  <2>7. CASE CountOwners(q) \/ StoreOrigins(q) \/ GetSummary(q)
    <3>1. UNCHANGED members /\ project'.owner = project.owner /\ req[q].pc # "active"
      BY <2>7 DEF CountOwners, StoreOrigins, GetSummary, MemberInv
    <3>2. CASE Answer(q)
      BY <2>1, <3>1, <3>2
    <3>3. CASE ~Answer(q)
      <4>1. req'[q].op = req[q].op /\ \A r \in Requests \ {q} : req'[r] = req[r]
        BY <2>0, <2>7, <3>3 DEF CountOwners, StoreOrigins, GetSummary, Goto, ReqOk
      <4>2. ~Admitted(q)'
        BY <2>0, <3>1, <4>1 DEF Admitted
      <4> QED  BY <3>1, <4>1, <4>2, StaysOwnerless
    <3> QED  BY <3>2, <3>3
  <2> QED  BY <1>5, <2>2, <2>3, <2>4, <2>5, <2>6, <2>7
           DEF Step, UpdateDashboardOrigins, GetProjectSummary
<1> QED  BY <1>1, <1>2, <1>3, <1>4, <1>5 DEF Next

\* Only owners change roles, so a project that lost its owners never gets one back once
\* the requests under way have ended, with any number of members (RBAC, members routes).
THEOREM OwnerlessForever == Spec => OwnerlessIsFinal
<1>1. MemberInv /\ [Next]_vars => [Ownerless => Ownerless']_vars
  BY OwnerlessStep
<1> QED  BY <1>1, MemberInvariant, PTL DEF Spec, OwnerlessIsFinal

----------------------------------------------------------------------------
(* Projects that keep an owner *)

\* A request that is about to take a role away, or a member.
Demotes(r) == r.pc = "write" /\ (r.op = "remove" \/ (r.op = "change" /\ r.arg # "owner"))

\* While requests do not overlap: whoever is about to be demoted or removed leaves an
\* owner behind.
OwnerInv ==
    /\ HasOwner
    /\ \A q \in Requests : Demotes(req[q]) => Owners \ {req[q].target} # {}

\* A count above one leaves an owner besides any user; Users need not be finite.
LEMMA TwoOwners ==
    ASSUME ~LastOwner, NEW u
    PROVE  Owners \ {u} # {}
<1> SUFFICES ASSUME Owners \ {u} = {}
             PROVE  FALSE
  OBVIOUS
<1>1. Owners = {} \/ Owners = {u}
  BY Zenon
<1>2. Cardinality(Owners) = 0 \/ Cardinality(Owners) = 1
  BY <1>1, FS_EmptySet, FS_Singleton
<1> QED  BY <1>2 DEF LastOwner

\* A step of q that takes no owner away and leaves q about to demote nobody.
LEMMA OwnersGrow ==
    ASSUME MemberInv, OwnerInv, NEW q \in Requests, Owners \subseteq Owners',
           project'.owner = project.owner,
           \A r \in Requests \ {q} : req'[r] = req[r],
           Demotes(req'[q]) => Owners \ {req'[q].target} # {}
    PROVE  OwnerInv'
<1>1. HasOwner'
  BY Zenon DEF OwnerInv, HasOwner
<1>2. \A r \in Requests : Demotes(req'[r]) => Owners' \ {req'[r].target} # {}
  BY Zenon DEF OwnerInv
<1> QED  BY Zenon, <1>1, <1>2 DEF OwnerInv

\* A step of q that takes an owner away while no other request is about to write.
LEMMA OwnersShrink ==
    ASSUME MemberInv, NoOverlap, NEW q \in Requests, req[q].pc = "write", Answer(q),
           Owners' # {}
    PROVE  OwnerInv'
<1>1. \A r \in Requests : ~Demotes(req'[r])
  BY DEF NoOverlap, Demotes, Answer, Idle, MemberInv
<1> QED  BY <1>1 DEF OwnerInv, HasOwner

\* The statements that write a membership.
LEMMA OwnerWrites ==
    ASSUME MemberInv, OwnerInv, NoOverlap, NEW q \in Requests,
           InsertMember(q) \/ UpdateRole(q) \/ DeleteMember(q)
    PROVE  OwnerInv'
<1>1. PICK old : old = req[q] /\ ReqOk(old, project.owner)
  BY DEF MemberInv
<1>2. /\ Answer(q) /\ UNCHANGED project /\ ~Demotes(req'[q])
      /\ \A r \in Requests \ {q} : req'[r] = req[r]
  BY DEF InsertMember, UpdateRole, DeleteMember, Answer, Demotes, Idle, MemberInv
<1>3. project.owner # None
  BY <1>1 DEF ReqOk, InsertMember, UpdateRole, DeleteMember
<1>4. PICK t : t = old.target
  OBVIOUS
<1>5. \A u \in Users \ {t} : members'[u] = members[u]
  BY <1>1, <1>4 DEF InsertMember, UpdateRole, DeleteMember, MemberInv
<1>6. CASE Demotes(old)
  <2>1. Owners \ {t} # {}
    BY Zenon, <1>1, <1>4, <1>6 DEF OwnerInv
  <2>2. Owners \ {t} \subseteq Owners'
    BY <1>5 DEF Owners
  <2>3. req[q].pc = "write"
    BY <1>1, <1>6 DEF Demotes
  <2> QED  BY <1>2, <2>1, <2>2, <2>3, OwnersShrink
<1>7. CASE ~Demotes(old)
  <2>1. t \in Owners => t \in Owners'
    BY <1>1, <1>4, <1>7, RolesAssumption, NoneAssumption
       DEF Demotes, InsertMember, UpdateRole, DeleteMember, Owners, MemberInv
  <2>2. Owners \subseteq Owners'
    BY <1>5, <2>1 DEF Owners
  <2> QED  BY <1>2, <2>2, OwnersGrow
<1> QED  BY <1>6, <1>7

\* The statements that come before it: the role is read, and owners are counted before
\* one is taken away.
LEMMA OwnerReads ==
    ASSUME MemberInv, OwnerInv, NEW q \in Requests,
           ReadRole(q) \/ ReadRemovable(q) \/ CountOwners(q)
    PROVE  OwnerInv'
<1>1. PICK old : old = req[q] /\ ReqOk(old, project.owner)
  BY DEF MemberInv
<1>2. /\ UNCHANGED <<project, members>> /\ Owners' = Owners
      /\ Answer(q) \/ Goto(q, "count") \/ Goto(q, "write")
      /\ \A r \in Requests \ {q} : req'[r] = req[r]
  BY DEF ReadRole, ReadRemovable, CountOwners, Answer, Goto, Owners, MemberInv
<1>3. project.owner # None
  BY <1>1 DEF ReqOk, ReadRole, ReadRemovable, CountOwners
<1>4. CASE Answer(q) \/ Goto(q, "count")
  <2>1. ~Demotes(req'[q])
    BY <1>1, <1>4 DEF Answer, Goto, Idle, Demotes, MemberInv, ReqOk
  <2> QED  BY <1>2, <2>1, OwnersGrow
<1>5. CASE Goto(q, "write") /\ ~Answer(q) /\ ~Goto(q, "count")
  <2>1. /\ req'[q].target = old.target /\ req'[q].op = old.op /\ req'[q].arg = old.arg
    BY <1>1, <1>5 DEF Goto, MemberInv, ReqOk
  <2>2. CASE CountOwners(q)
    <3>1. ~LastOwner
      BY <1>5, <2>2 DEF CountOwners
    <3> QED  BY <1>2, <3>1, TwoOwners, OwnersGrow
  <2>3. CASE ReadRole(q) \/ ReadRemovable(q)
    <3>1. Demotes(req'[q]) => old.target \notin Owners
      BY <1>1, <1>5, <2>1, <2>3 DEF Demotes, ReadRole, ReadRemovable, Owners
    <3>2. Owners # {}
      BY <1>3 DEF OwnerInv, HasOwner
    <3>3. Demotes(req'[q]) => Owners \ {req'[q].target} # {}
      BY Zenon, <2>1, <3>1, <3>2
    <3> QED  BY <1>2, <3>3, OwnersGrow
  <2> QED  BY <2>2, <2>3
<1> QED  BY <1>2, <1>4, <1>5

\* All other steps of a request.
LEMMA OwnerOthers ==
    ASSUME MemberInv, OwnerInv, NEW q \in Requests,
           \/ GetOrigins(q) \/ ValidateMembership(q) \/ FillOrigins(q) \/ Admit(q)
           \/ AlreadyMember(q) \/ UpdateDashboardOrigins(q) \/ GetProjectSummary(q) \/ Fail(q)
    PROVE  OwnerInv'
<1>0. DOMAIN req = Requests /\ ReqOk(req[q], project.owner)
  BY SMTT(30) DEF MemberInv
<1>1. UNCHANGED members /\ project'.owner = project.owner /\ Owners' = Owners
  BY DEF GetOrigins, ValidateMembership, FillOrigins, Admit, AlreadyMember,
         UpdateDashboardOrigins, StoreOrigins, Invalidate, GetProjectSummary, GetSummary,
         FillSummary, Fail, Owners, MemberInv
<1>2. ASSUME NEW new, req' = [req EXCEPT ![q] = new], new.pc # "write"
      PROVE  OwnerInv'
  <2>1. ~Demotes(req'[q]) /\ \A r \in Requests \ {q} : req'[r] = req[r]
    BY <1>0, <1>2 DEF Demotes
  <2> QED  BY <1>1, <2>1, OwnersGrow
<1>3. CASE Answer(q)
  <2>1. req' = [req EXCEPT ![q] = Idle] /\ Idle.pc # "write"
    BY <1>3 DEF Answer, Idle
  <2> QED  BY Zenon, <1>2, <2>1
<1>4. ASSUME NEW pc, Goto(q, pc), pc # "write"
      PROVE  OwnerInv'
  <2>1. PICK new : new = [req[q] EXCEPT !.pc = pc]
    OBVIOUS
  <2>2. new.pc = pc
    BY <1>0, <2>1 DEF ReqOk
  <2> QED  BY <1>2, <1>4, <2>1, <2>2 DEF Goto
<1>5. CASE GetOrigins(q)
  <2>1. PICK new : new = [Idle EXCEPT !.pc = "corsFill", !.op = "cors", !.got = project.origins]
    OBVIOUS
  <2>2. req' = [req EXCEPT ![q] = new] /\ new.pc # "write"
    BY <1>5, <2>1 DEF GetOrigins, Idle
  <2> QED  BY <1>2, <2>2
<1>6. CASE ValidateMembership(q)
  <2>1. PICK u \in Members, op \in load \ {"cors"} : \E in \in Input(op) :
           req' = [req EXCEPT ![q] = [Idle EXCEPT !.pc = "active", !.op = op,
                     !.target = in.target, !.arg = in.arg, !.seen = members[u]]]
    BY <1>6 DEF ValidateMembership
  <2>2. PICK in \in Input(op) :
           req' = [req EXCEPT ![q] = [Idle EXCEPT !.pc = "active", !.op = op,
                     !.target = in.target, !.arg = in.arg, !.seen = members[u]]]
    BY <2>1
  <2>3. PICK new : new = [Idle EXCEPT !.pc = "active", !.op = op,
                            !.target = in.target, !.arg = in.arg, !.seen = members[u]]
    OBVIOUS
  <2>4. req' = [req EXCEPT ![q] = new] /\ new.pc = "active"
    BY <2>2, <2>3 DEF Idle
  <2> QED  BY ZenonT(40), <1>2, <2>4
<1>7. CASE Admit(q)
  <2>1. CASE req' = [req EXCEPT ![q].pc = First[req[q].op], ![q].seen = None]
             /\ req[q].pc = "active"
    <3>1. PICK pc : pc = First[req[q].op]
      OBVIOUS
    <3>2. PICK new : new = [req[q] EXCEPT !.pc = pc, !.seen = None]
      OBVIOUS
    <3>3. pc # "write"
      BY <1>0, <2>1, <3>1 DEF First, ReqOk, RoleOps
    <3>4. req' = [req EXCEPT ![q] = new] /\ new.pc = pc
      BY <1>0, <2>1, <3>1, <3>2 DEF ReqOk
    <3> QED  BY <1>2, <3>3, <3>4
  <2> QED  BY <1>3, <1>7, <2>1 DEF Admit
<1>8. CASE AlreadyMember(q)
  BY <1>3, <1>4, <1>8 DEF AlreadyMember
<1>9. CASE UpdateDashboardOrigins(q)
  BY <1>3, <1>4, <1>9 DEF UpdateDashboardOrigins, StoreOrigins, Invalidate
<1>10. CASE GetProjectSummary(q)
  <2>1. CASE req' = [req EXCEPT ![q].pc = "summaryFill", ![q].got = Cardinality(Members)]
    <3>1. PICK new : new = [req[q] EXCEPT !.pc = "summaryFill", !.got = Cardinality(Members)]
      OBVIOUS
    <3>2. req' = [req EXCEPT ![q] = new] /\ new.pc # "write"
      BY <1>0, <2>1, <3>1 DEF ReqOk
    <3> QED  BY <1>2, <3>2
  <2> QED  BY <1>3, <1>10, <2>1 DEF GetProjectSummary, GetSummary, FillSummary
<1>11. CASE FillOrigins(q) \/ Fail(q)
  BY <1>3, <1>11 DEF FillOrigins, Fail
<1> QED  BY <1>5, <1>6, <1>7, <1>8, <1>9, <1>10, <1>11

\* Every step keeps it as long as requests do not overlap.
LEMMA OwnerStep ==
    ASSUME MemberInv, OwnerInv, NoOverlap, [Next]_vars
    PROVE  OwnerInv'
<1>1. ASSUME NEW u \in Users, Create(u)
      PROVE  OwnerInv'
  <2>1. \A q \in Requests : req[q].pc = "idle"
    BY <1>1 DEF MemberInv, ReqOk, Create
  <2>2. u \in Owners' /\ UNCHANGED req
    BY <1>1 DEF Create, MemberInv, Owners
  <2> QED  BY <2>1, <2>2 DEF OwnerInv, HasOwner, Demotes
<1>2. CASE Delete \/ Suspend \/ Reactivate
  <2>1. project'.owner = project.owner /\ UNCHANGED <<members, req>>
    BY <1>2 DEF Delete, Suspend, Reactivate, MemberInv
  <2> QED  BY <2>1 DEF OwnerInv, HasOwner, Owners
<1>3. ASSUME NEW q \in Requests, GetOrigins(q) \/ ValidateMembership(q) \/ Step(q)
      PROVE  OwnerInv'
  BY <1>3, OwnerWrites, OwnerReads, OwnerOthers DEF Step, AddMember, ChangeRole, RemoveMember
<1>4. CASE OriginsExpire \/ SummaryExpires \/ UNCHANGED vars
  BY <1>4 DEF OriginsExpire, SummaryExpires, vars, OwnerInv, HasOwner, Owners
<1>5. CASE Restart
  <2>1. \A q \in Requests : ~Demotes(req'[q])
    BY <1>5 DEF Restart, Idle, Demotes
  <2> QED  BY <1>5, <2>1 DEF Restart, OwnerInv, HasOwner, Owners
<1> QED  BY <1>1, <1>2, <1>3, <1>4, <1>5 DEF Next

\* As long as no two requests are between reading a role and writing on the strength of
\* it, a project keeps an owner, whatever else happens meanwhile and with any number of
\* users and requests (ErrLastOwner, MembershipRepo.UpdateRole, RemoveMember).
THEOREM OwnersRemain == Spec => OwnerRemains
<1>1. Init => OwnerInv
  BY DEF Init, OwnerInv, HasOwner, Demotes, Idle
<1>2. MemberInv /\ OwnerInv /\ NoOverlap /\ [Next]_vars => OwnerInv'
  BY OwnerStep
<1>3. OwnerInv => HasOwner
  BY DEF OwnerInv
<1> QED  BY <1>1, <1>2, <1>3, MemberInvariant, PTL DEF Spec, OwnerRemains

============================================================================
