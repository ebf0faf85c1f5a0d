SPECIFICATION DiscSpec
CONSTANTS
  Tasks = {"p1", "p2", "p3"}
  Runs = {"r1"}
  Host = "host"
  Home <- MCHome
  Launched <- MCLaunched
  Matches <- MCMatches
  Workers = {"w1"}
  MaxFaults = 1
INVARIANT AdmissionSound
PROPERTIES NotRelabelled MatchesEnforced
CHECK_DEADLOCK FALSE
