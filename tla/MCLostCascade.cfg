SPECIFICATION Spec
CONSTANTS
  olga = olga
  NoStage = NoStage
  Workers = 2
  Requests = {r1, r2}
  MaxLines = 2
  Inputs <- MCTwoCancels
  Cascades <- SeededCascades
  Users <- MCUsers
  Roles <- SeededRoles
  RolesOf <- MCRolesOf
  Stages <- SeededStages
  InitialStage <- SeededInitial
  Actions <- SeededActions
  Rules <- MCRules
SYMMETRY MCSymmetry
PROPERTY CardInStep
