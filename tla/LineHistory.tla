---------------------------- MODULE LineHistory ----------------------------
(***************************************************************************)
(* What the pipeline promises of one job line, as if every move happened   *)
(* in a single instant: a line leaves the stage it is at, along a rule its *)
(* mover's role allows, and the move is appended to the line's history     *)
(* once.  JobLineTransition's docstring states it: the history is          *)
(* append-only and the current stage caches its latest row.                *)
(***************************************************************************)
EXTENDS StageGraph, Sequences

CONSTANTS
  Lines,     \* job lines
  MoveIds    \* identities of transition rows

VARIABLES
  stage,     \* stage[l]: sales_job_lines.current_stage_id
  history    \* history[l]: the line's rows of pipeline_job_line_transitions

vars == <<stage, history>>

Move == [id : MoveIds, from : Stages, to : Stages, action : Actions,
         by : Users, note : BOOLEAN]

Used(id) == \E l \in Lines : \E i \in 1..Len(history[l]) : history[l][i].id = id

Init ==
  /\ stage = [l \in Lines |-> InitialStage]
  /\ history = [l \in Lines |-> <<>>]

Advance(l, id, user, action, note) ==
  /\ ~Used(id)
  /\ \E rule \in CandidateRules(user, stage[l], action) :
        /\ rule.condition # "broken"
        /\ ~NoteMissing(rule, note)
        /\ stage' = [stage EXCEPT ![l] = rule.to]
        /\ history' = [history EXCEPT ![l] = Append(@,
             [id |-> id, from |-> stage[l], to |-> rule.to, action |-> action,
              by |-> user, note |-> note])]

Next ==
  \E l \in Lines, id \in MoveIds, user \in Users, action \in Actions, note \in BOOLEAN :
     Advance(l, id, user, action, note)

Spec == Init /\ [][Next]_vars
=============================================================================
