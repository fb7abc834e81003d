----------------------------- MODULE AdminDesk -----------------------------
(***************************************************************************)
(* The Django admin's job line form beside the transition engine.          *)
(*                                                                         *)
(* current_stage is read-only on the form, but the form saves the whole    *)
(* row: the view loads it when the POST arrives, lays the submitted fields *)
(* over it and writes every column back, current_stage_id as it was        *)
(* loaded.  The load takes no lock; the UPDATE waits for the row's.        *)
(***************************************************************************)
EXTENDS TransitionEngine

CONSTANTS
  Desks,    \* POSTs of the admin's form; each runs once
  Closed    \* the desk has not loaded a row, or is through

VARIABLE form   \* form[d]: the line d loaded and the stage it stood at

deskVars == <<vars, form>>

DeskInit == Init /\ form = [d \in Desks |-> Closed]

\* change_view's get_object, its permission check passed.
OpenForm(d, l) ==
  /\ form[d] = Closed
  /\ form' = [form EXCEPT ![d] = [line |-> l, stage |-> stage[l]]]
  /\ UNCHANGED vars

\* save_model: UPDATE of all columns, and the commit that ends the request.
\* It asks for NO KEY UPDATE, which the engine's FOR UPDATE excludes and the
\* foreign keys' KEY SHARE does not.
SaveForm(d) ==
  /\ form[d] # Closed
  /\ owner[form[d].line] = NoOne
  /\ stage' = [stage EXCEPT ![form[d].line] = form[d].stage]
  /\ form' = [form EXCEPT ![d] = Closed]
  /\ UNCHANGED <<history, quoted, locks, order, pc, req, seen, mover, dest, reply>>

DeskNext ==
  \/ Next /\ UNCHANGED form
  \/ \E d \in Desks : SaveForm(d) \/ \E l \in Lines : OpenForm(d, l)

DeskSpec == DeskInit /\ [][DeskNext]_deskVars
---------------------------------------------------------------------------

\* models.py of JobLine.current_stage: "Denormalised cache of the latest
\* transition.  Written only by the apply_transition() trigger"; the schema
\* review: "Lost-update and stale-write both impossible."
CacheIsLatestMove ==
  \A l \in Lines : stage[l] = StageAfter(l, Len(history[l]))
=============================================================================
