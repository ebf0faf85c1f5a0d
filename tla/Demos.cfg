SPECIFICATION Spec
CONSTANTS
  Others = {"o1"}
  AdmissionFaults = 1
  Campaigns = {"A", "B"}
  Removing = {"A"}
  Offers <- MCOffers
  FkFaults = 1
  Nobody = "nobody"
  Launches = {1, 2, 3}
  MaxTerminal = 1
  BndFaults = 2
  MaxPackets = 1
  MaxRestarts = 1
  MaxEvents = 1
  MaxFailing = 1
  MaxResumes = 1
  Publishers = {"q1", "q2"}
  HandoffFaults = 1
  MaxWrites = 2
  StagingFaults = 1
INVARIANTS
  NothingIsLeft
  AuthorityKept
PROPERTIES
  StopHolds
  ResultsAreTrue
  FilesHold
CHECK_DEADLOCK FALSE
