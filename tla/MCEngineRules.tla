---------------------------- MODULE MCEngineRules ----------------------------
(***************************************************************************)
(* TransitionEngine on a small graph with the rules an administrator can   *)
(* get wrong: an action whose two roles disagree on the destination        *)
(* (fork), one whose second role has a broken condition (go), and stages   *)
(* a line can come back to.                                                *)
(***************************************************************************)
EXTENDS TransitionEngine

CONSTANTS both, sales, line

GLines == {line}
GUsers == {both, sales}
GRoles == {"SALES", "DESIGN"}
GRolesOf == [u \in GUsers |-> IF u = both THEN GRoles ELSE {"SALES"}]
GStages == {"A", "B", "C"}
GInitial == "A"
GActions == {"go", "fork", "back", "end"}

Edge(from, action, role, to, needsNote, condition) ==
  [from |-> from, action |-> action, role |-> role, to |-> to,
   selfApproval |-> TRUE, needsNote |-> needsNote, condition |-> condition]

GRules ==
  {Edge("A", "go", "SALES", "B", FALSE, "none"),
   Edge("A", "go", "DESIGN", "B", FALSE, "broken"),
   Edge("A", "fork", "SALES", "B", FALSE, "none"),
   Edge("A", "fork", "DESIGN", "C", FALSE, "none"),
   Edge("B", "back", "SALES", "A", TRUE, "none"),
   Edge("B", "end", "SALES", "C", FALSE, "quoted")}

Ask(u, a) == [line |-> line, user |-> u, action |-> a, note |-> TRUE]

GInputs == {Ask(both, "go"), Ask(both, "fork"), Ask(sales, "back"), Ask(sales, "end")}
=============================================================================
