---------------------------- MODULE Permissions ----------------------------
(***************************************************************************)
(* Who may do what: the grants of a user's roles, how they are resolved    *)
(* into capabilities, and the requests that decide by them while others    *)
(* change them.                                                            *)
(*                                                                         *)
(* A request resolves its user's grants at its first question and keeps    *)
(* the result on the user object to its end.  A question is a permission,  *)
(* a level, and whether the object asked about is the user's own; "no      *)
(* object" is answered like an object of somebody else.                    *)
(***************************************************************************)
EXTENDS Integers, FiniteSets

CONSTANTS
  Users,           \* rows of auth_user_accounts
  Roles,           \* rows of auth_roles
  Enabled,         \* those with is_active
  Perms,           \* (resource, action) pairs: rows of auth_permissions
  Grid,            \* the seeded rows of auth_role_permissions
  Assigned,        \* the first rows of auth_user_roles
  Edits,           \* grants an administrator may add
  Requests,        \* each runs once
  Nobody           \* the anonymous user

SitePerm == "admin_site:view"
AssignPerm == "role_assignment:create"
RevokePerm == "role_assignment:delete"
AccountPerm == "user_account:edit"

\* ck_role_permissions_level.
Levels == 0..9

Row == [role : Roles, perm : Perms, level : Levels, ifOwner : BOOLEAN]
Grant == [perm : Perms, level : Levels, ifOwner : BOOLEAN]
Question == [perm : Perms, level : Levels, own : BOOLEAN]

\* uk_role_permissions: one row per role, permission and level.
OneRowEach(rows) ==
  \A a, b \in rows :
    a.role = b.role /\ a.perm = b.perm /\ a.level = b.level => a = b

ASSUME PermissionAssumption ==
  /\ Enabled \subseteq Roles
  /\ {SitePerm, AssignPerm, RevokePerm, AccountPerm} \subseteq Perms
  /\ Grid \subseteq Row /\ Edits \subseteq Row /\ OneRowEach(Grid)
  /\ Assigned \subseteq Users \X Roles
  /\ Nobody \notin Users

VARIABLES
  grid,        \* auth_role_permissions
  assigned,    \* auth_user_roles
  standing,    \* accounts active and not deleted
  pc, who,     \* each request's progress and request.user
  cache,       \* cache[r]: the grants on r's user object
  basis,       \* basis[r]: the rows r resolved them from
  since        \* since[r]: the rows r's user held at any time since r began

tables == <<grid, assigned, standing>>
vars == <<tables, pc, who, cache, basis, since>>

---------------------------------------------------------------------------
\* Resolution.

Highest(levels) == CHOOSE n \in levels : \A m \in levels : m <= n

FreeLevels(rows, perm) ==
  {row.level : row \in {x \in rows : x.perm = perm /\ ~x.ifOwner}}

OwnLevels(rows, perm) ==
  {row.level : row \in {x \in rows : x.perm = perm /\ x.ifOwner}}

Unrestricted(rows) ==
  {[perm |-> p, level |-> Highest(FreeLevels(rows, p)), ifOwner |-> FALSE] :
     p \in {q \in Perms : FreeLevels(rows, q) # {}}}

\* Mutant: any unrestricted grant replaces the owner-scoped one.
OwnerOnly_Replaced(rows) ==
  {[perm |-> p, level |-> Highest(OwnLevels(rows, p)), ifOwner |-> TRUE] :
     p \in {q \in Perms : OwnLevels(rows, q) # {} /\ FreeLevels(rows, q) = {}}}

\* An owner-scoped grant survives where it reaches higher.
ReachesHigher(rows, perm) ==
  /\ OwnLevels(rows, perm) # {}
  /\ \/ FreeLevels(rows, perm) = {}
     \/ Highest(OwnLevels(rows, perm)) > Highest(FreeLevels(rows, perm))

OwnerOnly(rows) ==
  {[perm |-> p, level |-> Highest(OwnLevels(rows, p)), ifOwner |-> TRUE] :
     p \in {q \in Perms : ReachesHigher(rows, q)}}

Resolved(rows) == Unrestricted(rows) \cup OwnerOnly(rows)

HasPermission(grants, q) ==
  \E g \in grants : /\ g.perm = q.perm
                    /\ g.level >= q.level
                    /\ ~g.ifOwner \/ q.own

\* How far a list may reach: every row, the user's own, or 403.
OwnerScope(grants, perm) ==
  IF \A g \in grants : g.perm # perm THEN "refused"
  ELSE IF \E g \in grants : g.perm = perm /\ ~g.ifOwner THEN "all" ELSE "own"

---------------------------------------------------------------------------

\* The rows user u holds through an active role.
RowsOf(u, rows, holders) ==
  {row \in rows : row.role \in Enabled /\ <<u, row.role>> \in holders}

Running(r) == pc[r] \in {"begun", "resolved"}

Init ==
  /\ grid = Grid
  /\ assigned = Assigned
  /\ standing = Users
  /\ pc = [r \in Requests |-> "idle"]
  /\ who = [r \in Requests |-> Nobody]
  /\ cache = [r \in Requests |-> {}]
  /\ basis = [r \in Requests |-> {}]
  /\ since = [r \in Requests |-> {}]

\* Mutant: the user object is kept between requests.
Begin_Kept(r, u) ==
  /\ pc[r] = "idle" /\ u \in standing
  /\ who' = [who EXCEPT ![r] = u]
  /\ since' = [since EXCEPT ![r] = RowsOf(u, grid, assigned)]
  /\ \E s \in Requests :
        /\ s = r \/ (who[s] = u /\ pc[s] = "done")
        /\ pc' = [pc EXCEPT ![r] = IF s = r THEN "begun" ELSE "resolved"]
        /\ cache' = [cache EXCEPT ![r] = cache[s]]
        /\ basis' = [basis EXCEPT ![r] = basis[s]]
  /\ UNCHANGED tables

\* The session names u; an account that cannot authenticate is nobody, and
\* its request is refused.
Begin(r, u) ==
  /\ pc[r] = "idle" /\ u \in standing
  /\ pc' = [pc EXCEPT ![r] = "begun"]
  /\ who' = [who EXCEPT ![r] = u]
  /\ since' = [since EXCEPT ![r] = RowsOf(u, grid, assigned)]
  /\ UNCHANGED <<tables, cache, basis>>

\* The first question of a request.  Whether the account still stands is
\* asked of the object loaded at the beginning.
Resolve(r) ==
  /\ pc[r] = "begun"
  /\ basis' = [basis EXCEPT ![r] = RowsOf(who[r], grid, assigned)]
  /\ cache' = [cache EXCEPT ![r] = Resolved(RowsOf(who[r], grid, assigned))]
  /\ pc' = [pc EXCEPT ![r] = "resolved"]
  /\ UNCHANGED <<tables, who, since>>

End(r) == pc' = [pc EXCEPT ![r] = "done"]

\* The running requests' users hold what they now hold, too.
Track ==
  since' = [r \in Requests |->
    IF Running(r) THEN since[r] \cup RowsOf(who[r], grid', assigned') ELSE since[r]]

Ask(perm, own) == [perm |-> perm, level |-> 0, own |-> own]

May(r, perm, own) ==
  pc[r] = "resolved" /\ HasPermission(cache[r], Ask(perm, own))

\* A form of the admin site, which admits only who may view it.
MayInAdmin(r, perm, own) == May(r, SitePerm, FALSE) /\ May(r, perm, own)

\* The request does nothing to these tables, or is refused.
Leave(r) ==
  /\ Running(r)
  /\ End(r)
  /\ UNCHANGED <<tables, who, cache, basis, since>>

\* Mutant: nobody asks whether the actor may.
AssignRole_Unasked(r, u, role) ==
  /\ pc[r] = "resolved"
  /\ <<u, role>> \notin assigned
  /\ assigned' = assigned \cup {<<u, role>>}
  /\ UNCHANGED <<grid, standing, who, cache, basis>>
  /\ End(r) /\ Track

\* UserRoleAdmin saves any role; assign_role, which only scripts call, wants
\* an active one.
AssignRole(r, u, role) ==
  /\ MayInAdmin(r, AssignPerm, FALSE)
  /\ <<u, role>> \notin assigned
  /\ assigned' = assigned \cup {<<u, role>>}
  /\ UNCHANGED <<grid, standing, who, cache, basis>>
  /\ End(r) /\ Track

RevokeRole(r, u, role) ==
  /\ MayInAdmin(r, RevokePerm, FALSE)
  /\ <<u, role>> \in assigned
  /\ assigned' = assigned \ {<<u, role>>}
  /\ UNCHANGED <<grid, standing, who, cache, basis>>
  /\ End(r) /\ Track

\* RolePermissionAdmin, whose rbac_resource is role_assignment.
AddGrant(r, row) ==
  /\ MayInAdmin(r, AssignPerm, FALSE)
  /\ row \notin grid /\ OneRowEach(grid \cup {row})
  /\ grid' = grid \cup {row}
  /\ UNCHANGED <<assigned, standing, who, cache, basis>>
  /\ End(r) /\ Track

RemoveGrant(r, row) ==
  /\ MayInAdmin(r, RevokePerm, FALSE)
  /\ grid' = grid \ {row}
  /\ UNCHANGED <<assigned, standing, who, cache, basis>>
  /\ End(r) /\ Track

\* UserAccountAdmin's form, and deactivate_user_account.
SaveAccount(r, u) ==
  /\ MayInAdmin(r, AccountPerm, u = who[r])
  /\ standing' \in {standing \cup {u}, standing \ {u}}
  /\ End(r)
  /\ UNCHANGED <<grid, assigned, who, cache, basis, since>>

\* Every account that stands has sent what requests there are.
Finished ==
  /\ \A r \in Requests : pc[r] = "done" \/ (pc[r] = "idle" /\ standing = {})
  /\ UNCHANGED vars

Change(r) ==
  \/ \E u \in Users, role \in Roles : AssignRole(r, u, role) \/ RevokeRole(r, u, role)
  \/ \E row \in Edits : AddGrant(r, row)
  \/ \E row \in grid : RemoveGrant(r, row)
  \/ \E u \in Users : SaveAccount(r, u)

Next ==
  \/ \E r \in Requests : (\E u \in Users : Begin(r, u)) \/ Resolve(r) \/ Leave(r) \/ Change(r)
  \/ Finished

Spec == Init /\ [][Next]_vars
---------------------------------------------------------------------------
\* Properties

\* Every variable keeps its type, and the grid its unique key.
TypeOK ==
  /\ grid \subseteq Row /\ OneRowEach(grid)
  /\ assigned \subseteq Users \X Roles
  /\ standing \subseteq Users
  /\ pc \in [Requests -> {"idle", "begun", "resolved", "done"}]
  /\ who \in [Requests -> Users \cup {Nobody}]
  /\ cache \in [Requests -> SUBSET Grant]
  /\ basis \in [Requests -> SUBSET Row]
  /\ since \in [Requests -> SUBSET Row]

\* What a set of rows says by itself: one of them covers the question.
Entitled(rows, q) ==
  \E row \in rows : /\ row.perm = q.perm
                    /\ row.level >= q.level
                    /\ ~row.ifOwner \/ q.own

\* resolve_permissions neither loses nor invents authority: merging levels
\* and dropping owner-scoped grants leave every answer as the rows of the
\* user's roles have it.
ResolutionExact ==
  \A r \in Requests : \A q \in Question :
    HasPermission(cache[r], q) <=> Entitled(basis[r], q)

\* A list reaches exactly the rows that could be opened one by one.
ListsAgree ==
  \A r \in Requests : \A p \in Perms :
    LET scope == OwnerScope(cache[r], p)
    IN  /\ HasPermission(cache[r], Ask(p, FALSE)) <=> scope = "all"
        /\ HasPermission(cache[r], Ask(p, TRUE)) <=> scope \in {"all", "own"}

\* The grants a request decides by are ones its user held since it began:
\* what was revoked before never counts, whoever is changed meanwhile.
HeldDuringRequest ==
  \A r \in Requests : basis[r] \subseteq since[r]

\* Roles are given and taken, and grants edited, only by a request whose user
\* held the authority for it while the request ran.
Authorised(perm) ==
  \E r \in Requests : /\ pc[r] = "resolved" /\ pc'[r] = "done"
                      /\ Entitled(since[r], Ask(perm, FALSE))

ChangesAuthorised ==
  [][/\ ~(assigned' \subseteq assigned /\ grid' \subseteq grid) => Authorised(AssignPerm)
     /\ ~(assigned \subseteq assigned' /\ grid \subseteq grid') => Authorised(RevokePerm)]_vars
=============================================================================
