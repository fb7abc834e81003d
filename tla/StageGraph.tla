----------------------------- MODULE StageGraph -----------------------------
(***************************************************************************)
(* The stage graph a job line travels on, and the questions the engine and *)
(* the board ask of it: which rules a user could use from a stage, and     *)
(* what each of those rules says about one particular move.                *)
(*                                                                         *)
(* A rule is one row of pipeline_transition_rules.  A condition expression *)
(* is kept as what its evaluation does: "none" (no expression), "quoted"   *)
(* (has_quotation_pdf, the one the migrations seed) or "broken" (one the   *)
(* evaluator rejects).                                                     *)
(***************************************************************************)
EXTENDS FiniteSets, Integers

CONSTANTS
  Users,          \* rows of auth_user_accounts
  Roles,          \* active roles
  RolesOf,        \* RolesOf[u]: the roles user u holds
  Stages,         \* rows of pipeline_stages
  InitialStage,   \* the one stage with is_initial
  Actions,        \* action codes
  Rules           \* active rows of pipeline_transition_rules

Conditions == {"none", "quoted", "broken"}

Rule == [from : Stages, action : Actions, role : Roles, to : Stages,
         selfApproval : BOOLEAN, needsNote : BOOLEAN, condition : Conditions]

\* uk_transition_rules and ck_transition_rules_loop, the two constraints the
\* table puts on its rows.
ASSUME GraphAssumption ==
  /\ InitialStage \in Stages /\ IsFiniteSet(Stages)
  /\ RolesOf \in [Users -> SUBSET Roles]
  /\ Rules \subseteq Rule
  /\ \A a, b \in Rules :
        a.from = b.from /\ a.action = b.action /\ a.role = b.role => a = b
  /\ \A a \in Rules : a.from # a.to

---------------------------------------------------------------------------

\* Mutant: whose role the rule is for is not asked.
CandidateRules_AnyRole(user, stage, action) ==
  {rule \in Rules : rule.from = stage /\ rule.action = action}

\* Active rules matching the line's stage, the action and the user's roles.
CandidateRules(user, stage, action) ==
  {rule \in Rules : /\ rule.from = stage
                    /\ rule.action = action
                    /\ rule.role \in RolesOf[user]}

\* What _check_note, _check_self_approval and _check_condition answer for a
\* rule, in that order; mover is who made the line's latest move.
NoteMissing(rule, note) == rule.needsNote /\ ~note

SelfApproved(rule, user, mover) == ~rule.selfApproval /\ mover = user

ConditionVerdict(rule, quoted) ==
  CASE rule.condition = "none"   -> "permit"
    [] rule.condition = "quoted" -> IF quoted THEN "permit" ELSE "422"
    [] rule.condition = "broken" -> "config"

Verdict(rule, user, mover, note, quoted) ==
  IF NoteMissing(rule, note) THEN "422"
  ELSE IF SelfApproved(rule, user, mover) THEN "403"
  ELSE ConditionVerdict(rule, quoted)

\* Two roles may define one action with two destinations: nothing in the
\* schema forbids it, and the engine refuses to choose.
Conflicting(rules) == Cardinality({rule.to : rule \in rules}) > 1

\* The stages no rule leaves.
DeadEnds == {s \in Stages : \A rule \in Rules : rule.from # s}
=============================================================================
