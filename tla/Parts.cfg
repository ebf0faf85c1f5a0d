SPECIFICATION Spec
CONSTANTS
  Procs = {1, 2, 3, 4}
  Reaper = 0
  MaxCaptured = 3
  CapFaults = {"root", "time", "survive"}
  Order <- MCOrder
  Evidence <- MCEvidence
  Kinships <- MCKinships
  NoOne = "none"
  Parent = "parent"
  MaxCorrelated = 3
  MaxCount = 12
  MaxProbes = 6
  MaxRuns = 6
  MaxScans = 7
  MaxIdle = 3
  Allocations = {"A"}
  Budget <- MCBudget
  MaxInteger = 2
  Ttl = 0
  MaxRevision = 4
  StoreFaults = 1
  MaxCounter = 4
  Serials = {1, 2, 3}
  VmFaults = 2
  Cases = {"human_stop", "controller_crash", "no_stop_control", "identity_failure"}
  Deadline = 2
  Overtime = 1
  ExitTime = 1
  Control = 1
  WinFaults = 1
  Tasks = {"g", "a"}
  Gate = "g"
  Paths = {"target", "users"}
  RootPaths = {"target"}
  Target = "target"
  MaxVersion = 1
  MaxRevoked = 1
  GateFaults = 1
INVARIANTS
  CaptureIsClosed
  LooksAddUp
  VerdictIsObserved
PROPERTIES
  HumansDecide
  
CHECK_DEADLOCK FALSE
