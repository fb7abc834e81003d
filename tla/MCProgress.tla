----------------------------- MODULE MCProgress -----------------------------
(***************************************************************************)
(* What must eventually happen to a card's requests and to the office's    *)
(* sheet.  The two share no state here, so a behaviour is one of one part, *)
(* and the other stays as it began.                                        *)
(***************************************************************************)
EXTENDS MCJobCardLifecycle, JobSheet

CONSTANT Press

ASSUME SheetAssumption

VARIABLE part   \* the part this behaviour is about

ProgressInit == Init /\ SheetInit /\ part \in {"card", "sheet"}

CardStep == part = "card" /\ Next /\ UNCHANGED <<sheetVars, part>>
SheetStep == part = "sheet" /\ SheetNext /\ UNCHANGED <<vars, part>>

\* A worker runs the request it took, and the database grants a lock to the
\* waiters in turn; the loop never stops, and a press that began is carried
\* through.  Nothing forces a request to arrive, or a line, or a press.
FairProgress ==
  /\ ProgressInit
  /\ [][CardStep \/ SheetStep]_<<vars, sheetVars, part>>
  /\ \A r \in Requests : WF_vars(part = "card" /\ Step(r))
  /\ WF_sheetVars(part = "sheet" /\ Tick)
  /\ WF_sheetVars(part = "sheet" /\ SyncStep(Sidecar))
  /\ WF_sheetVars(part = "sheet" /\ syncPc[Press] # "idle" /\ SyncStep(Press))
=============================================================================
