-------------------------- MODULE StageMigrations --------------------------
(***************************************************************************)
(* What migrations 0003 to 0009 of the pipeline app do to the stage graph. *)
(* A graph holds the active rules, the active stages, the stages whose     *)
(* lines leave the board after some hours and the status each stage gives  *)
(* its job card.  Unlike the grid's, these migrations carry their own      *)
(* rows.                                                                   *)
(***************************************************************************)
EXTENDS SeededGraph, Integers

NoGraph == [rules |-> {}, active |-> {}, hides |-> {},
            cascades |-> [s \in SeededStages |-> "none"]]

\* One row per role; no migration makes an edge a two-person gate.
Row(from, action, to, roles, needsNote, condition) ==
  {[from |-> from, action |-> action, role |-> role, to |-> to, selfApproval |-> TRUE,
    needsNote |-> needsNote, condition |-> condition] : role \in roles}

\* update_or_create on (from_stage, action_code, allowed_role).
UpsertRules(rules, rows) ==
  {a \in rules : \A b \in rows :
     ~(a.from = b.from /\ a.action = b.action /\ a.role = b.role)} \cup rows

WithoutEdges(rules, from, actions) ==
  {r \in rules : r.from # from \/ r.action \notin actions}

\* RULES of 0003, the graph with NEGOTIATION between QUOTATION and
\* ORDER_CONFIRMED.
FirstRules ==
  Row("ENQUIRY", "quote", "QUOTATION", {"SALES", "OWNER"}, FALSE, "none")
  \cup Row("ENQUIRY", "cancel", "CANCELLED", {"SALES", "OWNER"}, TRUE, "none")
  \cup Row("QUOTATION", "negotiate", "NEGOTIATION", {"SALES", "OWNER"}, FALSE, "none")
  \cup Row("QUOTATION", "rework", "ENQUIRY", {"SALES", "OWNER"}, TRUE, "none")
  \cup Row("QUOTATION", "lose", "LOST", {"SALES", "OWNER"}, TRUE, "none")
  \cup Row("QUOTATION", "cancel", "CANCELLED", {"SALES", "OWNER"}, TRUE, "none")
  \cup Row("NEGOTIATION", "confirm", "ORDER_CONFIRMED", {"OWNER"}, FALSE, "none")
  \cup Row("NEGOTIATION", "rework", "QUOTATION", {"SALES", "OWNER"}, TRUE, "none")
  \cup Row("NEGOTIATION", "lose", "LOST", {"SALES", "OWNER"}, TRUE, "none")
  \cup Row("NEGOTIATION", "cancel", "CANCELLED", {"SALES", "OWNER"}, TRUE, "none")
  \cup Row("ORDER_CONFIRMED", "cancel", "CANCELLED", {"OWNER"}, TRUE, "none")

\* A row that 0003 finds keeps its condition: the defaults do not name it.
KeepingConditions(rules, rows) ==
  {LET old == {a \in rules : a.from = b.from /\ a.action = b.action /\ a.role = b.role}
   IN IF old = {} THEN b ELSE [b EXCEPT !.condition = (CHOOSE a \in old : TRUE).condition] :
     b \in rows}

SeedFirst(g) ==
  [g EXCEPT !.rules = UpsertRules(@, KeepingConditions(@, FirstRules)),
            !.active = SeededStages]

SeedNegotiate(g) ==
  [g EXCEPT !.rules = UpsertRules(@, KeepingConditions(@,
     Row("QUOTATION", "negotiate", "NEGOTIATION", {"ACCT"}, FALSE, "none")))]

WithNegotiateCondition(g, condition) ==
  [g EXCEPT !.rules = {IF r.from = "QUOTATION" /\ r.action = "negotiate"
                         THEN [r EXCEPT !.condition = condition] ELSE r : r \in @}]

\* 0006: NEGOTIATION is folded into QUOTATION and confirm carries the gate.
SeedMerge(g) ==
  [g EXCEPT !.rules =
     UpsertRules(WithoutEdges(WithoutEdges(@, "QUOTATION", {"negotiate"}), "NEGOTIATION",
                              {"confirm", "rework", "lose", "cancel"}),
       Row("QUOTATION", "confirm", "ORDER_CONFIRMED", {"OWNER"}, FALSE, "quoted")
       \cup KeepingConditions(@, Row("ENQUIRY", "quote", "QUOTATION", {"ACCT"}, FALSE, "none"))),
   !.active = @ \ {"NEGOTIATION"}]

\* Mutant: the stage comes back, the rules out of it do not.
UnseedMerge_StageOnly(g) == [g EXCEPT !.active = @ \cup {"NEGOTIATION"}]

UnseedMerge(g) ==
  [g EXCEPT !.rules =
     UpsertRules({r \in WithoutEdges(@, "QUOTATION", {"confirm"}) :
                    ~(r.from = "ENQUIRY" /\ r.action = "quote" /\ r.role = "ACCT")},
       {r \in FirstRules : r.from = "NEGOTIATION"}
       \cup Row("QUOTATION", "negotiate", "NEGOTIATION", {"SALES", "OWNER", "ACCT"},
                FALSE, "quoted")),
   !.active = @ \cup {"NEGOTIATION"}]

WithCascade(g, stages, statusOf) ==
  [g EXCEPT !.cascades = [s \in SeededStages |-> IF s \in stages THEN statusOf[s] ELSE @[s]]]

Nothing == [s \in SeededStages |-> "none"]

SeedStages(n, g) ==
  CASE n = 3 -> SeedFirst(g)
    [] n = 4 -> SeedNegotiate(g)
    [] n = 5 -> WithNegotiateCondition(g, "quoted")
    [] n = 6 -> SeedMerge(g)
    [] n = 7 -> [g EXCEPT !.hides = {"CANCELLED"}]
    [] n = 8 -> WithCascade(g, {"CANCELLED", "LOST"}, SeededCascades)
    [] n = 9 -> WithCascade(g, {"ORDER_CONFIRMED"}, SeededCascades)

\* 0003 is not reversed here: rows of the append-only history refer to its
\* stages.
UnseedStages(n, g) ==
  CASE n = 4 -> [g EXCEPT !.rules = {r \in @ : ~(r.from = "QUOTATION" /\ r.role = "ACCT"
                                                 /\ r.action = "negotiate")}]
    [] n = 5 -> WithNegotiateCondition(g, "none")
    [] n = 6 -> UnseedMerge(g)
    [] n = 7 -> [g EXCEPT !.hides = {}]
    [] n = 8 -> WithCascade(g, {"CANCELLED", "LOST"}, Nothing)
    [] n = 9 -> WithCascade(g, {"ORDER_CONFIRMED"}, Nothing)

EdgeOf(r) == <<r.from, r.action, r.role>>

\* The edges whose rules a migration writes or deletes, forward or backward.
Writes(n) ==
  CASE n = 3 -> {EdgeOf(r) : r \in FirstRules}
    [] n = 4 -> {<<"QUOTATION", "negotiate", "ACCT">>}
    [] n = 6 -> {EdgeOf(r) : r \in {x \in FirstRules : x.from = "NEGOTIATION"
                                                   \/ x.action = "negotiate"}}
                \cup {<<"QUOTATION", "negotiate", "ACCT">>, <<"ENQUIRY", "quote", "ACCT">>,
                      <<"QUOTATION", "confirm", "OWNER">>}
    [] OTHER -> {}

\* The graph of a database that only ever saw migrations up to n.
GraphOf ==
  LET graph[n \in 2..9] == IF n = 2 THEN NoGraph ELSE SeedStages(n, graph[n - 1])
  IN [n \in 2..9 |-> graph[n]]
=============================================================================
