--------------------------- MODULE PermissionGrid ---------------------------
(***************************************************************************)
(* The permission grid of identity/constants.py and what the migrations    *)
(* 0002 to 0010 of the identity app do to the tables that hold it.         *)
(*                                                                         *)
(* A grant is one row of auth_role_permissions.  The migrations do not     *)
(* carry the grants they write: they read the grid of the release that     *)
(* runs them, so the same migration does one thing on a database it finds  *)
(* empty and another on one an older release has filled.                   *)
(***************************************************************************)
EXTENDS Integers

CONSTANT Permissions    \* the permissions whose rows an instance keeps

GridRoles ==
  {"OWNER", "ADMIN", "HR", "SALES", "DESIGN", "PROD", "PURCH", "STORE", "ACCT"}

Office == {"OWNER", "ADMIN", "HR"}
Managers == {"OWNER", "ADMIN"}
Sellers == {"OWNER", "SALES"}

Cells(level, ifOwner, roles, permissions) ==
  {[role |-> r, on |-> p, level |-> level, ifOwner |-> ifOwner] :
     r \in roles, p \in permissions \cap Permissions}

\* GRID, by the kind of its cells: y, y(1), y(2) and own.
GRID ==
  Cells(0, FALSE, GridRoles, {"document:create"})
  \cup Cells(0, FALSE, GridRoles \ {"HR"}, {"job_note:create"})
  \cup Cells(0, FALSE, GridRoles \ {"HR", "SALES"}, {"job_card:view", "job_line:view"})
  \cup Cells(0, FALSE, Office, {"admin_site:view", "user_account:view",
              "user_account:create", "user_account:edit"})
  \cup Cells(0, FALSE, Managers, {"role_assignment:create", "role_assignment:delete",
              "transition_rule:view", "transition_rule:edit",
              "audit_log:view"})
  \cup Cells(0, FALSE, Managers \cup {"SALES", "PURCH", "ACCT"}, {"client:view"})
  \cup Cells(0, FALSE, Office \cup {"SALES"}, {"client:create"})
  \cup Cells(0, FALSE, Managers \cup {"SALES", "ACCT"}, {"quotation:view"})
  \cup Cells(0, FALSE, Sellers, {"client:edit", "job_card:create", "job_card:edit",
              "job_card:cancel", "job_line:create", "job_line:edit",
              "quotation:edit"})
  \cup Cells(0, FALSE, {"OWNER", "ACCT"}, {"quotation:create", "sheet_export:view"})
  \cup Cells(1, FALSE, Office, {"employee:view", "employee:create", "employee:edit",
              "employee:delete"})
  \cup Cells(2, FALSE, {"OWNER", "HR"}, {"employee_document:view"})
  \cup Cells(0, TRUE, GridRoles, {"password:edit"})
  \cup Cells(0, TRUE, GridRoles \ Office, {"employee:view"})
  \cup Cells(0, TRUE, {"SALES"}, {"job_card:view", "job_line:view"})

---------------------------------------------------------------------------
(* What each release changed in the grid, as its migration says.           *)

First == 2      \* 0002 seeds the grid
Latest == 10

Brought(n) ==
  CASE n = 3  -> Cells(0, FALSE, Office, {"user_account:view"})
    [] n = 4  -> Cells(1, FALSE, Office, {"employee:delete"})
    [] n = 5  -> Cells(0, FALSE, {"ACCT"}, {"quotation:create"})
    [] n = 6  -> Cells(0, FALSE, {"ADMIN", "HR"}, {"client:create"})
    [] n = 7  -> {}
    [] n = 8  -> Cells(0, TRUE, {"SALES"}, {"job_card:view", "job_line:view"})
    [] n = 9  -> {}
    [] n = 10 -> Cells(0, FALSE, {"OWNER", "ACCT"}, {"sheet_export:view"})

Took(n) ==
  CASE n = 7 -> Cells(0, FALSE, {"SALES"}, {"quotation:create"})
    [] n = 8 -> Cells(0, FALSE, {"SALES"}, {"job_card:view", "job_line:view"})
    [] n = 9 -> Cells(0, FALSE, {"OWNER"}, {"quotation:approve"})
                  \cup Cells(0, FALSE, Sellers, {"quotation:share"})
    [] OTHER -> {}

\* constants.GRID in the release whose last migration is n.
GridOf ==
  LET grid[n \in First..Latest] ==
        IF n = Latest THEN GRID ELSE (grid[n + 1] \ Brought(n + 1)) \cup Took(n + 1)
  IN [n \in First..Latest |-> grid[n]]

---------------------------------------------------------------------------
(* The migrations.  update_or_create finds a row by role, permission and   *)
(* level and overwrites if_owner.                                          *)

SameKey(a, b) == a.role = b.role /\ a.on = b.on /\ a.level = b.level

Upsert(grants, rows) ==
  {g \in grants : \A r \in rows : ~SameKey(g, r)} \cup rows

Without(grants, roles, permissions) ==
  {g \in grants : g.role \notin roles \/ g.on \notin permissions}

OnPermission(grid, permission) == {g \in grid : g.on = permission}

\* update(if_owner=...) reaches the rows of every level.
WithOwner(grants, ifOwner) ==
  {IF g.role = "SALES" /\ g.on \in {"job_card:view", "job_line:view"}
     THEN [g EXCEPT !.ifOwner = ifOwner] ELSE g : g \in grants}

\* Migration n, run by a release whose grid is grid.
SeedGrid(n, grants, grid) ==
  CASE n = 2  -> Upsert(grants, grid)
    [] n = 3  -> Upsert(grants, OnPermission(grid, "user_account:view"))
    [] n = 4  -> Upsert(grants, OnPermission(grid, "employee:delete"))
    [] n = 5  -> Upsert(grants, OnPermission(grid, "quotation:create"))
    [] n = 6  -> Upsert(grants, {g \in OnPermission(grid, "client:create") :
                                   g.role \in {"ADMIN", "HR"}})
    [] n = 7  -> Without(grants, {"SALES"}, {"quotation:create"})
    [] n = 8  -> WithOwner(grants, TRUE)
    [] n = 9  -> Without(grants, GridRoles, {"quotation:approve", "quotation:share"})
    [] n = 10 -> Upsert(grants, OnPermission(grid, "sheet_export:view"))

\* Its reverse.  0002 is not reversed here: its reverse deletes roles that
\* rules and users refer to.
UnseedGrid(n, grants) ==
  CASE n = 3  -> Without(grants, GridRoles, {"user_account:view"})
    [] n = 4  -> Without(grants, GridRoles, {"employee:delete"})
    [] n = 5  -> Without(grants, {"ACCT"}, {"quotation:create"})
    [] n = 6  -> Without(grants, {"ADMIN", "HR"}, {"client:create"})
    [] n = 7  -> Upsert(grants, Cells(0, FALSE, {"SALES"}, {"quotation:create"}))
    [] n = 8  -> WithOwner(grants, FALSE)
    [] n = 9  -> Upsert(grants, Took(9))
    [] n = 10 -> Without(grants, GridRoles, {"sheet_export:view"})
=============================================================================
