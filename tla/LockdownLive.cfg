CONSTANTS
  Runs = {r1, r2}
  Names = {p}
  Argvs = {a}
  Exes = {e}
  Profiles = {c, d}
  Protected = {r2}
  NoApproval = NoApproval
  NoRun = NoRun
  Nobody = Nobody
  NoExe = NoExe
  NoProfile = NoProfile
  MaxIncidents = 2
  MaxTime = 2
  MaxCrashes = 0
  Faults = {}
SPECIFICATION LiveSpec
PROPERTIES
  
  RevokedIsContained
  ResponseEnds
CHECK_DEADLOCK FALSE
