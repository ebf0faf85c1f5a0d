SPECIFICATION Spec
CONSTANTS
  ScanHealth = 1
  MaxFailures = 2
  Timeout = 2
  Grace = 1
  Gap = 1
  Interval = 2
  KillTime = 1
  MaxSequence = 2
  MaxAge = 6
  DogFaults = 1
  Admins = {admin}
  Releases = {v1, v2}
  NoRelease = NoRelease
  NoAdmin = NoAdmin
  NoInode = NoInode
  Inodes = {i1, i2}
  MaxKills = 2
  InstFaults = {"write", "start", "stop"}
INVARIANTS
  ProtectionIsRecent
  OutcomesAreTrue
PROPERTIES
  OnlyRollbackUncovers
  AccountsKept
CHECK_DEADLOCK FALSE
