SPECIFICATION FairSpec
CONSTANTS
  both = both
  sales = sales
  line = line
  NoOne = NoOne
  MaxClock = 0
  Requests = {r1, r2, r3}
  Lines <- GLines
  Inputs <- GInputs
  Users <- GUsers
  Roles <- GRoles
  RolesOf <- GRolesOf
  Stages <- GStages
  InitialStage <- GInitial
  Actions <- GActions
  Rules <- GRules
PROPERTIES AtomicMoves DeadEndsAreFinal EveryRequestEnds
