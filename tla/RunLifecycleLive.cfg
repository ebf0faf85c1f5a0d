CONSTANTS
  Runs = {r1}
  NoRun = NoRun
  MaxCrashes = 0
  Faults = {"survivors", "launch"}
SPECIFICATION FairSpec
PROPERTIES
  RequestsAnswered
  BarrierLifted
  TripSettled
CHECK_DEADLOCK FALSE
