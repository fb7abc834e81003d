SPECIFICATION Spec
CONSTANTS
  olga = olga
  sam = sam
  line = line
  NoOne = NoOne
  MaxClock = 0
  Requests = {r1, r2, r3, r4}
  Lines <- MCLines
  Inputs <- MCRevisit
  Users <- MCUsers
  Roles <- SeededRoles
  RolesOf <- MCRolesOf
  Stages <- SeededStages
  InitialStage <- SeededInitial
  Actions <- SeededActions
  Rules <- MCRules
SYMMETRY MCSymmetry
INVARIANT TwoPerson
