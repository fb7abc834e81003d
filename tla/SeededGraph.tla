---------------------------- MODULE SeededGraph ----------------------------
(***************************************************************************)
(* The stage graph the migrations leave behind: 0003 seeds six stages and  *)
(* eleven edges, 0004 to 0006 fold NEGOTIATION into QUOTATION, 0008 and    *)
(* 0009 say which stages decide a job card's status.                       *)
(***************************************************************************)
EXTENDS FiniteSets

SeededStages ==
  {"ENQUIRY", "QUOTATION", "NEGOTIATION", "ORDER_CONFIRMED", "LOST", "CANCELLED"}

SeededInitial == "ENQUIRY"

SeededActions == {"quote", "rework", "lose", "cancel", "confirm"}

SeededRoles == {"SALES", "OWNER", "ACCT"}

\* One row per role.  An administrator may make an edge a two-person gate;
\* gated is the set of actions for which that has been done.
Edge(gated, from, action, to, roles, needsNote, condition) ==
  {[from |-> from, action |-> action, role |-> role, to |-> to,
    selfApproval |-> action \notin gated, needsNote |-> needsNote,
    condition |-> condition] : role \in roles}

SeededRules(gated) ==
  UNION {
    Edge(gated, "ENQUIRY", "quote", "QUOTATION", SeededRoles, FALSE, "none"),
    Edge(gated, "ENQUIRY", "cancel", "CANCELLED", {"SALES", "OWNER"}, TRUE, "none"),
    Edge(gated, "QUOTATION", "rework", "ENQUIRY", {"SALES", "OWNER"}, TRUE, "none"),
    Edge(gated, "QUOTATION", "lose", "LOST", {"SALES", "OWNER"}, TRUE, "none"),
    Edge(gated, "QUOTATION", "cancel", "CANCELLED", {"SALES", "OWNER"}, TRUE, "none"),
    Edge(gated, "QUOTATION", "confirm", "ORDER_CONFIRMED", {"OWNER"}, FALSE, "quoted"),
    Edge(gated, "ORDER_CONFIRMED", "cancel", "CANCELLED", {"OWNER"}, TRUE, "none")}

\* Stage.cascades_job_card_status; "none" where the column is NULL.
SeededCascades ==
  [s \in SeededStages |->
     CASE s = "CANCELLED"       -> "cancelled"
       [] s = "LOST"            -> "lost"
       [] s = "ORDER_CONFIRMED" -> "won"
       [] OTHER                 -> "none"]
=============================================================================
