SPECIFICATION PagesSpec
CONSTANTS
  acme = acme
  brand_new = brand_new
  bala = bala
  Nobody = Nobody
  Unset = Unset
  Clients = {acme, brand_new}
  OnFile = {acme}
  Contacts = {bala}
  DefaultOf <- MCDefaultOf
  HomeOf <- MCHomeOf
  Policies = {"partial", "full"}
  BaseDefault = "partial"
  NumLines = 2
  MaxTries = 2
  AskedNos = {2, 32767}
  MaxLineNo = 32767
  MaxExtra = 1
  MaxEdits = 1
  olga = olga
  sam = sam
  line = line
  tab = tab
  Lines = {line}
  Viewers = {tab}
  UserOf <- BUserOf
  InScope <- BInScope
  SequenceNo <- BSequenceNo
  Hiding = {"CANCELLED"}
  MaxVersion = 4
  NoUser = NoUser
  Users <- BUsers
  Roles <- SeededRoles
  RolesOf <- BRolesOf
  Stages <- SeededStages
  InitialStage <- SeededInitial
  Actions <- SeededActions
  Rules <- BRules
  NoOne = NoOne
  Requests = {r1, r2, r3}
  Incumbents = {incumbent}
  Nothing = Nothing
INVARIANTS OffersAreTrue HiddenIsSettled OwnMoveShown CreatedMeansWhole NumberedInTurn FormIsTheClients CardsAccountedFor RefusedOnlyWhenBeaten
PROPERTIES PrimaryStands
CHECK_DEADLOCK FALSE
