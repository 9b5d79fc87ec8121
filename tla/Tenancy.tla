------------------------------ MODULE Tenancy ------------------------------
(***************************************************************************)
(* Organizations, their members and roles.  A request passes RequireOrg,   *)
(* which reads the caller's membership, and then runs statement by         *)
(* statement on what it has read.  A membership is one row: who leaves and *)
(* is invited again has a new one, with no role of the old.                *)
(*                                                                         *)
(* Plans and limits are those of PlanCatalogue; the console deletes an     *)
(* organization with everything that belongs to it.                        *)
(***************************************************************************)
EXTENDS PlanCatalogue

CONSTANTS
    Users, Roles, RoleOrg(_),   \* the organization a role id will belong to
    Requests,                   \* API requests that can be in progress
    MaxJoins,                   \* bound: memberships of a user in an organization
    MaxConsole                  \* bound: what the console does to the organizations

ASSUME TenancyAssumption ==
    /\ IsFiniteSet(Requests) /\ Requests # {} /\ IsFiniteSet(Users)
    /\ \A r \in Roles : RoleOrg(r) \in Orgs
    /\ MaxJoins \in Nat /\ MaxConsole \in Nat

VARIABLES
    org,      \* organizations: none, live or gone
    member,   \* memberships: role, and the number of the row
    roles,    \* role ids that exist
    held,     \* member_roles: organization, user, row and role
    req,      \* a request and what it has read
    room      \* history: members there may be by the limits in force so far

tenVars == <<org, member, roles, held, req, room>>

Ranks == {"none", "member", "admin", "owner"}
NoReq == [op |-> "idle"]

Members(o) == {u \in Users : member[o][u].rank # "none"}
CountMembershipsByOrg(o) == Cardinality(Members(o))

InitTenancy ==
    /\ org = [o \in Orgs |-> "none"]
    /\ member = [o \in Orgs |-> [u \in Users |-> [rank |-> "none", row |-> 0]]]
    /\ roles = {} /\ held = {}
    /\ req = [r \in Requests |-> NoReq]
    /\ room = [o \in Orgs |-> Unlimited]

\* What max_members allows now.
MaxMembers(o) == LET l == EffectiveLimits(o)
                 IN  IF "max_members" \in DOMAIN l THEN l["max_members"] ELSE Unlimited

Inviting(o) == {r \in Requests : req[r].op \in {"counted", "admitted"} /\ req[r].org = o}

Higher(a, b) == IF a > b THEN a ELSE b

\* A limit allows its number and the other requests in progress; one that
\* comes into force keeps whom it finds.
Watch ==
    room' = [o \in Orgs |->
        IF MaxMembers(o)' = Unlimited THEN Unlimited
        ELSE Higher(MaxMembers(o)' - 1 + Cardinality(Requests),
                    IF room[o] = Unlimited
                    THEN CountMembershipsByOrg(o)' + Cardinality(Inviting(o)') ELSE room[o])]

Keep == UNCHANGED catVars

-----------------------------------------------------------------------------
(* Organizations and members *)

Join(o, u, rank) == [member EXCEPT ![o][u] = [rank |-> rank, row |-> @.row + 1]]

\* The organization and its owner in one transaction, the slug being free.
Create(o, u) ==
    /\ org[o] = "none" /\ sub[o] = NoPlan
    /\ org' = [org EXCEPT ![o] = "live"]
    /\ member' = Join(o, u, "owner")
    /\ UNCHANGED <<roles, held, req>> /\ Keep

\* RequireOrg: the caller's rank is read here and used later.
RequireOrg(r, o, u, op) ==
    /\ req[r] = NoReq /\ member[o][u].rank # "none"
    /\ op \in {"invite", "remove"} => member[o][u].rank # "member"
    /\ req' = [req EXCEPT ![r] = [op |-> op, org |-> o]]
    /\ UNCHANGED <<org, member, roles, held>> /\ Keep

InviteCount(r) ==
    /\ req[r].op = "invite"
    /\ req' = [req EXCEPT ![r] = [op |-> "counted", org |-> @.org,
                                  count |-> CountMembershipsByOrg(req[r].org)]]
    /\ UNCHANGED <<org, member, roles, held>> /\ Keep

InviteLimit(r) ==
    /\ req[r].op = "counted"
    /\ req' = [req EXCEPT ![r] =
                  IF EnforceLimit(req[r].org, "max_members", req[r].count)
                  THEN [op |-> "admitted", org |-> @.org] ELSE NoReq]
    /\ UNCHANGED <<org, member, roles, held>> /\ Keep

\* ALREADY_MEMBER and the unique constraint end a request the same way.
CreateMembership(r, u, rank) ==
    /\ req[r].op = "admitted" /\ rank \in {"member", "admin"}
    /\ LET o == req[r].org IN
       IF org[o] = "live" /\ member[o][u].rank = "none" /\ member[o][u].row < MaxJoins
       THEN member' = Join(o, u, rank) ELSE UNCHANGED member
    /\ req' = [req EXCEPT ![r] = NoReq]
    /\ UNCHANGED <<org, roles, held>> /\ Keep

\* MEMBER_NOT_FOUND and CANNOT_REMOVE_OWNER otherwise.
MayRemove(o, u) == member[o][u].rank \in {"member", "admin"}

RemoveMember(r, u) ==
    /\ req[r].op = "remove"
    /\ req' = [req EXCEPT ![r] = IF MayRemove(req[r].org, u)
                                 THEN [op |-> "leaving", org |-> @.org, user |-> u] ELSE NoReq]
    /\ UNCHANGED <<org, member, roles, held>> /\ Keep

\* By user and organization, whichever row that is by now; its roles go too.
DeleteMembership(r) ==
    /\ req[r].op = "leaving"
    /\ LET o == req[r].org  u == req[r].user IN
       /\ member' = [member EXCEPT ![o][u].rank = "none"]
       /\ held' = {h \in held : h.org # o \/ h.user # u}
    /\ req' = [req EXCEPT ![r] = NoReq]
    /\ UNCHANGED <<org, roles>> /\ Keep

-----------------------------------------------------------------------------
(* Roles *)

CreateRole(r, x) ==
    /\ req[r].op = "role" /\ x \notin roles /\ RoleOrg(x) = req[r].org /\ org[req[r].org] = "live"
    /\ roles' = roles \cup {x}
    /\ req' = [req EXCEPT ![r] = NoReq]
    /\ UNCHANGED <<org, member, held>> /\ Keep

\* GetRoleByID, and FORBIDDEN for another organization's.
RoleOfOrg(o, x) == x \in roles /\ RoleOrg(x) = o

\* The role and the membership's row are looked up.
AssignRole(r, u, x) ==
    /\ req[r].op = "role"
    /\ LET o == req[r].org IN
       req' = [req EXCEPT ![r] =
                  IF RoleOfOrg(o, x) /\ member[o][u].rank # "none"
                  THEN [op |-> "assign", org |-> o, user |-> u,
                        row |-> member[o][u].row, role |-> x] ELSE NoReq]
    /\ UNCHANGED <<org, member, roles, held>> /\ Keep

\* Mutant: the row is looked up again by user.
SameMembershipByUser(q) == member[q.org][q.user].rank # "none"

\* The foreign key to the membership that was looked up.
SameMembership(q) ==
    member[q.org][q.user].rank # "none" /\ member[q.org][q.user].row = q.row

AssignMemberRole(r) ==
    /\ req[r].op = "assign"
    /\ LET q == req[r] IN
       held' = IF SameMembership(q) /\ q.role \in roles
               THEN held \cup {[org |-> q.org, user |-> q.user, row |-> q.row, role |-> q.role]}
               ELSE held
    /\ req' = [req EXCEPT ![r] = NoReq]
    /\ UNCHANGED <<org, member, roles>> /\ Keep

Abandon(r) ==
    /\ req[r] # NoReq /\ req' = [req EXCEPT ![r] = NoReq]
    /\ UNCHANGED <<org, member, roles, held>> /\ Keep

-----------------------------------------------------------------------------
(* The console *)

\* Memberships, roles, grants and the subscription cascade.
DeleteOrganization(o) ==
    /\ Edit /\ edits < MaxConsole /\ org[o] = "live"
    /\ org' = [org EXCEPT ![o] = "gone"]
    /\ member' = [member EXCEPT ![o] = [u \in Users |-> [@[u] EXCEPT !.rank = "none"]]]
    /\ held' = {h \in held : h.org # o} /\ roles' = {x \in roles : RoleOrg(x) # o}
    /\ sub' = [sub EXCEPT ![o] = NoPlan] /\ custom' = [custom EXCEPT ![o] = NoLimits]
    /\ UNCHANGED <<req, plan, price, edit, raced>>

\* Assignments and limits, for organizations that exist.
ConsoleStep ==
    /\ edits < MaxConsole
    /\ \/ \E o \in Orgs, p \in Plans : org[o] = "live" /\ AssignPlan(o, p)
       \/ \E o \in Orgs, l \in PartialLimits : SetOrgLimits(o, l)
       \/ \E p \in Plans, b \in PlanBody : UpdatePlan(p, b)
    /\ UNCHANGED <<org, member, roles, held, req>>

RequestStep(r) ==
    \/ \E o \in Orgs, u \in Users, op \in {"invite", "remove", "role"} : RequireOrg(r, o, u, op)
    \/ InviteCount(r) \/ InviteLimit(r)
    \/ \E u \in Users, rank \in Ranks : CreateMembership(r, u, rank)
    \/ \E u \in Users : RemoveMember(r, u)
    \/ DeleteMembership(r)
    \/ \E x \in Roles : CreateRole(r, x)
    \/ \E u \in Users, x \in Roles : AssignRole(r, u, x)
    \/ AssignMemberRole(r) \/ Abandon(r)

NextTenancy ==
    /\ \/ \E o \in Orgs, u \in Users : Create(o, u)
       \/ \E r \in Requests : RequestStep(r)
       \/ \E o \in Orgs : DeleteOrganization(o)
       \/ ConsoleStep
    /\ Watch

-----------------------------------------------------------------------------
(* Properties *)

\* The catalogue's invariant, and the variables' types; a live organization has one owner, who
\* nobody can remove; and the members, counted before an insert that takes no
\* lock, exceed max_members by the other requests in progress and by those
\* who were there before the limit at most (Create, Invite, RemoveMember, EnforceLimit).
TenancyInv ==
    /\ CatalogueInv
    /\ org \in [Orgs -> {"none", "live", "gone"}]
    /\ \A o \in Orgs :
          /\ \A u \in Users : member[o][u].rank \in Ranks
          /\ org[o] # "live" => Members(o) = {}
          /\ org[o] = "live" => Cardinality({u \in Users : member[o][u].rank = "owner"}) = 1
          /\ room[o] # Unlimited => CountMembershipsByOrg(o) <= room[o]

\* A role counts for the membership it was given to and for no later one, and
\* only in its own organization, whichever removals and invitations overlap
\* the assignment (AssignRole, RemoveMember).
RolesFollowMembership ==
    \A h \in held : /\ member[h.org][h.user].rank # "none"
                    /\ member[h.org][h.user].row = h.row
                    /\ h.role \in roles /\ RoleOrg(h.role) = h.org

=============================================================================
