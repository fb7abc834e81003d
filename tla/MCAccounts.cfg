SPECIFICATION Spec
CONSTANTS
  Accounts = {anna}
  Clients = {c1, c2}
  MaxFailures = 2
  LockSpan = 1
  MaxClock = 1
  MaxHashes = 3
  MaxStreak = 3
  TypedCounts = {0}
  TypedLocks = {0, 2}
  NoAccount = NoAccount
SYMMETRY MCSymmetry
CONSTRAINT MCOneCaveat
CHECK_DEADLOCK FALSE
INVARIANTS CountIsStreak PasswordStands MustMeansIssued RemovedStayOut
