CONSTANTS
  Runs = {r1}
  NoRun = NoRun
  MaxCrashes = 0
  Faults = {"survivors"}
SPECIFICATION Spec
INVARIANTS
  KillReceiptStands
CHECK_DEADLOCK FALSE
