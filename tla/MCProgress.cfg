SPECIFICATION FairProgress
CONSTANTS
  olga = olga
  NoStage = NoStage
  Workers = 3
  Requests = {r1, r2, r3}
  MaxLines = 2
  Inputs <- MCContenders
  Cascades <- SeededCascades
  Users <- MCUsers
  Roles <- SeededRoles
  RolesOf <- MCRolesOf
  Stages <- SeededStages
  InitialStage <- SeededInitial
  Actions <- SeededActions
  Rules <- MCRules
  Press = Press
  Presses = {Press}
  MaxCards = 2
  MaxChanges = 3
  MaxFailures = 1
  Sidecar = Sidecar
  BlankRow = BlankRow
INVARIANT UndisturbedIsExact
PROPERTIES EveryRequestEnds SheetCatchesUp
