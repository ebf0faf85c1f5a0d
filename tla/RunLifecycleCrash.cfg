CONSTANTS
  Runs = {r1}
  NoRun = NoRun
  MaxCrashes = 1
  Faults = {"watch", "write", "survivors", "launch", "stop"}
SPECIFICATION Spec
INVARIANTS
  KillReceiptAfterEmptiness
  NeverStuck
  NoAdoption
PROPERTIES
  AllowedOnlyWhenGone
  RestartFreesIndex
CHECK_DEADLOCK FALSE
