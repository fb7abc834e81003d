SPECIFICATION PlatformSpec
CONSTANTS
  web = web
  sheets_sync = sheets_sync
  j1 = j1
  Containers = {web, sheets_sync}
  Permissions <- MCPermissions
  Releases <- MCReleases
  StaffAtStart <- MCStaff
  Newcomers <- MCNewcomers
  Jobs = {j1}
  MaxClients = 2
  MaxCrashes = 1
  MaxRetreats = 1
  CLIENT = CLIENT
  JOB = JOB
  Series = {CLIENT, JOB}
  Limit <- MCLimit
  Issued <- MCIssued
  Requests = {r1, r2, r3, r4}
  NoOne = NoOne
  u1 = u1
  u2 = u2
  Users <- MCUsers
  Nobody = Nobody
  Keys = {k1}
  Initial = 1
  Ahead = 2
  MaxDepth = 3
  MaxRows = 2
  MaxQuarter = 2
  NoKey = NoKey
SYMMETRY MCSymmetry
CHECK_DEADLOCK FALSE
INVARIANTS Gapless Attributed RowsHaveBytes PartitionUnlessIdle SeedsAsReleased RowsAccountedFor CodesNeverReissued
