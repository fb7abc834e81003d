SPECIFICATION Spec
CONSTANTS
  olga = olga
  sam = sam
  line = line
  NoOne = NoOne
  MaxClock = 1
  Requests = {r1, r2, r3}
  Lines <- MCLines
  Inputs <- MCInputs
  Users <- MCUsers
  Roles <- SeededRoles
  RolesOf <- MCRolesOf
  Stages <- SeededStages
  InitialStage <- SeededInitial
  Actions <- SeededActions
  Rules <- MCRules
SYMMETRY MCSymmetry
INVARIANTS HistoryIsWalk  TwoPersonUnlessOverlapped TriggerNeverWaits AnswersAreTrue
