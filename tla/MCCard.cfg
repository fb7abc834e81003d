SPECIFICATION HistorySpec
CONSTANTS
  olga = olga
  NoStage = NoStage
  Workers = 3
  Requests = {r1, r2, r3, r4}
  MaxLines = 2
  Inputs <- MCInputs
  Cascades <- SeededCascades
  Users <- MCUsers
  Roles <- SeededRoles
  RolesOf <- MCRolesOf
  Stages <- SeededStages
  InitialStage <- SeededInitial
  Actions <- SeededActions
  Rules <- MCRules
SYMMETRY MCSymmetry
INVARIANTS Founded CardComesLast QuotedIsNotOpen
PROPERTIES KeptSerially
