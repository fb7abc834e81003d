SPECIFICATION DeskSpec
CONSTANTS
  olga = olga
  line = line
  NoOne = NoOne
  MaxClock = 0
  Closed = Closed
  Desks = {desk}
  Requests = {r1}
  Lines <- DLines
  Inputs <- DInputs
  Users <- DUsers
  Roles <- SeededRoles
  RolesOf <- DRolesOf
  Stages <- SeededStages
  InitialStage <- SeededInitial
  Actions <- SeededActions
  Rules <- DRules
INVARIANT CacheIsLatestMove
