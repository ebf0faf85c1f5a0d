CONSTANTS
  Runs = {r1, r2}
  NoRun = NoRun
  MaxCrashes = 0
  Faults = {"survivors", "launch"}
SPECIFICATION Spec
INVARIANTS
  OneActiveWorkload
CONSTRAINT OneRecorded
SYMMETRY RunSymmetry
CHECK_DEADLOCK FALSE
