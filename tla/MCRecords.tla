------------------------------ MODULE MCRecords ------------------------------
(***************************************************************************)
(* What is read, kept and changed at once: the grants of an employee       *)
(* (Permissions), the quotations of a card (QuotationChain) and the pages  *)
(* of a browser tab (QueryCache, in the scenes of MCQueryCache).  They     *)
(* share no state, so a behaviour is one of one part, and the others stay  *)
(* as they began.                                                          *)
(*                                                                         *)
(* Permissions has an administrator and a clerk, and the case that the     *)
(* docstring of resolve_permissions describes, documents seen at level 2   *)
(* when they are one's own and at level 0 whosever they are.               *)
(***************************************************************************)
EXTENDS Permissions, QuotationChain, MCQueryCache

CONSTANTS ann, carl

MCUsers == {ann, carl}
MCRoles == {"ADMIN", "CLERK", "RETIRED"}
MCEnabled == {"ADMIN", "CLERK"}
Documents == "employee_document:view"
MCPerms == {SitePerm, AssignPerm, RevokePerm, AccountPerm, Documents}

MCRow(role, perm, level, ifOwner) ==
  [role |-> role, perm |-> perm, level |-> level, ifOwner |-> ifOwner]

MCGrid ==
  {MCRow("ADMIN", SitePerm, 0, FALSE),
   MCRow("ADMIN", AssignPerm, 0, FALSE), MCRow("ADMIN", RevokePerm, 0, FALSE),
   MCRow("ADMIN", AccountPerm, 0, FALSE), MCRow("RETIRED", Documents, 9, FALSE),
   MCRow("CLERK", Documents, 2, TRUE)}

MCAssigned == {<<ann, "ADMIN">>, <<carl, "CLERK">>, <<carl, "RETIRED">>}

MCEdits ==
  {MCRow("CLERK", Documents, 0, FALSE), MCRow("ADMIN", Documents, 1, TRUE)}

---------------------------------------------------------------------------

CONSTANTS u1, u2, u3, c1, c2

\* Two uploads meet on one card; the third fills the card the admin refiles to
\* and from.
MCUploads == {u1, u2, u3}
MCCards == {c1, c2}
MCCardOf == [u \in MCUploads |-> IF u = u3 THEN c2 ELSE c1]

ASSUME PermissionAssumption /\ ChainAssumption

VARIABLE part   \* the part this behaviour is about

\* Of a tab that does nothing, one initial state stands for all.
RecordsInit ==
  /\ Init /\ ChainInit /\ SceneInit
  /\ part \in {"grants", "chain", "cache"}
  /\ part # "cache" =>
       scene = FirstScene /\ here = AtList("dashboard") /\ \A f \in Facts : ~Known(f)

GrantStep == part = "grants" /\ Next /\ UNCHANGED <<chainVars, sceneVars, part>>
ChainStep == part = "chain" /\ ChainNext /\ UNCHANGED <<vars, sceneVars, part>>
CacheStep == part = "cache" /\ SceneNext /\ UNCHANGED <<vars, chainVars, part>>

RecordsSpec ==
  /\ RecordsInit
  /\ [][GrantStep \/ ChainStep \/ CacheStep]_<<vars, chainVars, sceneVars, part>>
=============================================================================
