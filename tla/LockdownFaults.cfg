CONSTANTS
  Runs = {r1, r2}
  Names = {p}
  Argvs = {a, b}
  Exes = {e, f}
  Profiles = {c, d}
  Protected = {r1, r2}
  NoApproval = NoApproval
  NoRun = NoRun
  Nobody = Nobody
  NoExe = NoExe
  NoProfile = NoProfile
  MaxIncidents = 2
  MaxTime = 3
  MaxCrashes = 1
  Faults = {"write", "survivors", "launch", "digest"}
SPECIFICATION FaultsSpec
INVARIANTS
  CompletedMeansRevoked
  OneIncidentPerIdentity
  NeverStuck
PROPERTIES
  IncidentsKept
  ExactRevocation
SYMMETRY RunSymmetry
CHECK_DEADLOCK FALSE
