------------------------------ MODULE Projects ------------------------------
(***************************************************************************)
(* A project, its members and the caches of the admin API in front of it.  *)
(* Requests of the project group of src/internal/admin/router.go pass      *)
(* DynamicCORS, ProjectScope and RBAC before a handler runs.  Membership   *)
(* statements (src/internal/storage/tenant.go) are committed one by one,   *)
(* so that a request stops here between any two of them.  All statements   *)
(* name one project: projects do not interact.  The rest of a request does *)
(* not use the origins DynamicCORS looked up; the lookup is an operation   *)
(* of its own.                                                             *)
(***************************************************************************)
EXTENDS Naturals, FiniteSets

CONSTANTS
    Users,      \* active accounts
    Roles,      \* roles that are used, among those of RBAC
    Requests,   \* requests in progress at the same time
    Origins,    \* lists of dashboard origins
    Loads,      \* sets of operations that clients use together
    None

\* RBAC: roleWeights
Weight == [viewer |-> 0, editor |-> 1, owner |-> 2]

ASSUME RolesAssumption == "owner" \in Roles /\ Roles \subseteq DOMAIN Weight
ASSUME LoadsAssumption ==
    Loads \subseteq SUBSET {"add", "change", "remove", "origins", "summary", "cors"}
ASSUME NoneAssumption ==
    None \notin Users \cup Roles \cup Origins \cup {"add", "change", "remove"}

VARIABLES
    project,    \* row of projects
    members,    \* project_members: the role of each member
    cached,     \* OriginCache entry
    summary,    \* SummaryCache entry: of the counts, the number of members
    req,        \* requests in progress
    load        \* the operations clients use

vars == <<project, members, cached, summary, req, load>>

Project == [owner : Users \cup {None}, active : BOOLEAN, deleted : BOOLEAN,
            origins : Origins]

\* seen is the role ProjectScope found; got what the last statement read.
Request == [pc : {"idle", "corsFill", "active", "exists", "insert", "role", "count",
                  "write", "store", "invalidate", "cache", "summaryFill"},
            op : UNION Loads \cup {None}, target : Users \cup {None},
            arg : Roles \cup Origins \cup {None}, seen : Roles \cup {None},
            got : Origins \cup (0 .. Cardinality(Users)) \cup {None}]

Idle == [pc |-> "idle", op |-> None, target |-> None, arg |-> None, seen |-> None,
         got |-> None]

Members == {u \in Users : members[u] # None}

Owners == {u \in Users : members[u] = "owner"}

Live == project.owner # None /\ ~project.deleted

Init ==
    /\ project \in [owner : {None}, active : {TRUE}, deleted : {FALSE}, origins : Origins]
    /\ members = [u \in Users |-> None]
    /\ cached = None
    /\ summary = None
    /\ req = [q \in Requests |-> Idle]
    /\ load \in Loads

Goto(q, pc) == req' = [req EXCEPT ![q].pc = pc]

Answer(q) == req' = [req EXCEPT ![q] = Idle]

\* Project and owner membership are inserted in one transaction.
Create(u) ==
    /\ project.owner = None
    /\ project' = [project EXCEPT !.owner = u]
    /\ members' = [members EXCEPT ![u] = "owner"]
    /\ UNCHANGED <<cached, summary, req, load>>

\* The memberships of a deleted project stay.
Delete ==
    /\ Live
    /\ project' = [project EXCEPT !.deleted = TRUE]
    /\ UNCHANGED <<members, cached, summary, req, load>>

Suspend ==
    /\ Live
    /\ project' = [project EXCEPT !.active = FALSE]
    /\ UNCHANGED <<members, cached, summary, req, load>>

Reactivate ==
    /\ Live
    /\ project' = [project EXCEPT !.active = TRUE]
    /\ UNCHANGED <<members, cached, summary, req, load>>

----------------------------------------------------------------------------
(* Middleware *)

\* OriginCache.Get on a miss: the table is read.  A hit changes nothing, and when
\* reading fails the request goes on without the header.
GetOrigins(q) ==
    /\ "cors" \in load /\ req[q] = Idle
    /\ cached = None /\ Live
    /\ req' = [req EXCEPT ![q].pc = "corsFill", ![q].op = "cors", ![q].got = project.origins]
    /\ UNCHANGED <<project, members, cached, summary, load>>

\* What was read is stored, whatever has been invalidated since.
FillOrigins(q) ==
    /\ req[q].pc = "corsFill"
    /\ cached' = req[q].got
    /\ Answer(q)
    /\ UNCHANGED <<project, members, summary, load>>

\* What a request for op asks for: a user and a role, or origins.
Input(op) ==
    CASE op \in {"add", "change"} -> [target : Users, arg : Roles]
      [] op = "remove" -> [target : Users, arg : {None}]
      [] op = "origins" -> [target : {None}, arg : Origins]
      [] op = "summary" -> [target : {None}, arg : {None}]

\* ProjectScope lets a member u of a live project in, with the role it reads.
ValidateMembership(q) ==
    /\ req[q] = Idle /\ Live
    /\ \E u \in Members, op \in load \ {"cors"} : \E in \in Input(op) :
         req' = [req EXCEPT ![q] = [Idle EXCEPT !.pc = "active", !.op = op,
                   !.target = in.target, !.arg = in.arg, !.seen = members[u]]]
    /\ UNCHANGED <<project, members, cached, summary, load>>

IsActive == Live /\ project.active

\* The role each handler of the group asks for.
MinRole(op) == IF op = "summary" THEN "viewer" ELSE "owner"

RBAC(role, op) == Weight[role] >= Weight[MinRole(op)]

\* The first statement of each handler.
First == [add |-> "exists", change |-> "role", remove |-> "role", origins |-> "store",
          summary |-> "cache"]

\* The rest of ProjectScope, and RBAC.
Admit(q) ==
    /\ req[q].pc = "active"
    /\ IF IsActive /\ RBAC(req[q].seen, req[q].op)
       THEN req' = [req EXCEPT ![q].pc = First[req[q].op], ![q].seen = None]
       ELSE Answer(q)
    /\ UNCHANGED <<project, members, cached, summary, load>>

----------------------------------------------------------------------------
(* Membership handlers *)

AlreadyMember(q) ==
    /\ req[q].pc = "exists"
    /\ IF members[req[q].target] # None THEN Answer(q) ELSE Goto(q, "insert")
    /\ UNCHANGED <<project, members, cached, summary, load>>

\* Fails on the primary key if a row is there by now.
InsertMember(q) ==
    /\ req[q].pc = "insert"
    /\ members' = [members EXCEPT ![req[q].target] = IF @ = None THEN req[q].arg ELSE @]
    /\ Answer(q)
    /\ UNCHANGED <<project, cached, summary, load>>

AddMember(q) == AlreadyMember(q) \/ InsertMember(q)

\* Mutant: ownerCount < 1.
LastOwner_OffByOne == Cardinality(Owners) <= 0

\* ownerCount <= 1, asked before an owner is demoted or removed
LastOwner == Cardinality(Owners) <= 1

\* The count both handlers make before they take an owner away.
CountOwners(q) ==
    /\ req[q].pc = "count"
    /\ IF LastOwner THEN Answer(q) ELSE Goto(q, "write")
    /\ UNCHANGED <<project, members, cached, summary, load>>

ReadRole(q) ==
    /\ req[q].op = "change" /\ req[q].pc = "role"
    /\ CASE members[req[q].target] \in {None, req[q].arg} -> Answer(q)
         [] members[req[q].target] = "owner" /\ req[q].arg # "owner" -> Goto(q, "count")
         [] OTHER -> Goto(q, "write")
    /\ UNCHANGED <<project, members, cached, summary, load>>

\* Updates nothing when the row is gone.
UpdateRole(q) ==
    /\ req[q].op = "change" /\ req[q].pc = "write"
    /\ members' = [members EXCEPT ![req[q].target] = IF @ = None THEN @ ELSE req[q].arg]
    /\ Answer(q)
    /\ UNCHANGED <<project, cached, summary, load>>

ChangeRole(q) == ReadRole(q) \/ UpdateRole(q)

\* Mutant: owner_id is not compared.
Removable_Any(u) == members[u] # None

\* owner_id never changes, so reading it and the role are one step.
Removable(u) == u # project.owner /\ members[u] # None

ReadRemovable(q) ==
    /\ req[q].op = "remove" /\ req[q].pc = "role"
    /\ IF ~Removable(req[q].target) THEN Answer(q)
       ELSE Goto(q, IF members[req[q].target] = "owner" THEN "count" ELSE "write")
    /\ UNCHANGED <<project, members, cached, summary, load>>

DeleteMember(q) ==
    /\ req[q].op = "remove" /\ req[q].pc = "write"
    /\ members' = [members EXCEPT ![req[q].target] = None]
    /\ Answer(q)
    /\ UNCHANGED <<project, cached, summary, load>>

RemoveMember(q) == ReadRemovable(q) \/ DeleteMember(q)

----------------------------------------------------------------------------
(* Cached settings and counts *)

StoreOrigins(q) ==
    /\ req[q].pc = "store"
    /\ IF Live
       THEN Goto(q, "invalidate") /\ project' = [project EXCEPT !.origins = req[q].arg]
       ELSE Answer(q) /\ UNCHANGED project
    /\ UNCHANGED <<members, cached, summary, load>>

Invalidate(q) ==
    /\ req[q].pc = "invalidate"
    /\ cached' = None
    /\ Answer(q)
    /\ UNCHANGED <<project, members, summary, load>>

\* The table is written first, then the cache entry removed.
UpdateDashboardOrigins(q) == StoreOrigins(q) \/ Invalidate(q)

\* A hit is answered from the cache.
GetSummary(q) ==
    /\ req[q].pc = "cache"
    /\ IF summary # None \/ ~Live
       THEN Answer(q)
       ELSE req' = [req EXCEPT ![q].pc = "summaryFill", ![q].got = Cardinality(Members)]
    /\ UNCHANGED <<project, members, cached, summary, load>>

FillSummary(q) ==
    /\ req[q].pc = "summaryFill"
    /\ summary' = req[q].got
    /\ Answer(q)
    /\ UNCHANGED <<project, members, cached, load>>

GetProjectSummary(q) == GetSummary(q) \/ FillSummary(q)

\* Mutant: entries have no expiresAt.
OriginsExpire_Never == FALSE /\ UNCHANGED vars

\* ttl of the OriginCache
OriginsExpire ==
    /\ cached # None
    /\ cached' = None
    /\ UNCHANGED <<project, members, summary, req, load>>

\* ttl of the SummaryCache, which nothing invalidates
SummaryExpires ==
    /\ summary # None
    /\ summary' = None
    /\ UNCHANGED <<project, members, cached, req, load>>

\* A statement fails, or the client of the request is gone.
Fail(q) ==
    /\ req[q].pc \in {"active", "exists", "insert", "role", "count", "write",
                      "store", "cache"}
    /\ Answer(q)
    /\ UNCHANGED <<project, members, cached, summary, load>>

\* The caches are in the memory of the process.
Restart ==
    /\ req' = [q \in Requests |-> Idle]
    /\ cached' = None
    /\ summary' = None
    /\ UNCHANGED <<project, members, load>>

Step(q) ==
    \/ FillOrigins(q) \/ Admit(q)
    \/ AddMember(q) \/ ChangeRole(q) \/ RemoveMember(q) \/ CountOwners(q)
    \/ UpdateDashboardOrigins(q) \/ GetProjectSummary(q) \/ Fail(q)

Next ==
    \/ \E u \in Users : Create(u)
    \/ Delete \/ Suspend \/ Reactivate
    \/ \E q \in Requests : GetOrigins(q) \/ ValidateMembership(q) \/ Step(q)
    \/ OriginsExpire \/ SummaryExpires \/ Restart

Spec == Init /\ [][Next]_vars

\* A request that was accepted comes to its end, and time passes.
FairSpec ==
    /\ Spec
    /\ \A q \in Requests : WF_vars(Step(q))
    /\ WF_vars(OriginsExpire) /\ WF_vars(SummaryExpires)

----------------------------------------------------------------------------
(* Properties *)

TypeOK ==
    /\ project \in Project
    /\ members \in [Users -> Roles \cup {None}]
    /\ cached \in Origins \cup {None}
    /\ summary \in 0 .. Cardinality(Users) \cup {None}
    /\ req \in [Requests -> Request]
    /\ load \in Loads

\* "cannot remove the project owner": whoever created a project is a member of it for
\* ever, although the check and the DELETE are separate statements of requests that
\* overlap (MembershipRepo.RemoveMember).
CreatorIsMember == project.owner # None => members[project.owner] # None

\* At most one request is between reading a role and writing on the strength of it.
NoOverlap ==
    \A q, r \in Requests : req[q].pc \in {"count", "write"}
                             /\ req[r].pc \in {"count", "write"} => q = r

HasOwner == project.owner # None => Owners # {}

\* "cannot remove or demote the last owner of the project": a project keeps an owner
\* as long as no two such requests overlap, whatever else they interleave with
\* (UpdateRole, RemoveMember).
OwnerRemains == []NoOverlap => []HasOwner

\* Requests that were admitted, or will be on the strength of a role already read.
Admitted(q) ==
    req[q].op \in {"add", "change", "remove"} /\ (req[q].pc = "active" => req[q].seen = "owner")

Ownerless == project.owner # None /\ Owners = {} /\ \A q \in Requests : ~Admitted(q)

\* Nobody but an owner changes roles (RBAC on the members routes), so a project that
\* lost its owners never gets one back once the requests under way have ended.
OwnerlessIsFinal == [][Ownerless => Ownerless']_vars

\* A reader can put an old value back after an entry was invalidated; its ttl still
\* ends it.  Once the origins, or the members, stop changing, what the caches hold
\* is what the tables hold (OriginCache.Get, SummaryCache).
CachesConverge ==
    /\ <>[][FALSE]_(project.origins) => <>[](cached \in {None, project.origins})
    /\ <>[][FALSE]_members => <>[](summary \in {None, Cardinality(Members)})

----------------------------------------------------------------------------
(* What the documentation says of the code, where the code does otherwise. *)

\* "cannot remove or demote the last owner of the project" (ErrLastOwner), with
\* requests that overlap: each of two owners is demoted while the other one counts.
LastOwnerKept == HasOwner

=============================================================================
