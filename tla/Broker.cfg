SPECIFICATION FairServiceSpec
CONSTANTS
  Runs = {r1}
  Ops = {o1, o2}
  Procs = {service, controller}
  Service = service
  Clients = {c1}
  MaxConns = 3
  CtlKinds = {"revoke", "admit", "dispatch", "register"}
  NoRun = NoRun
  NoOp = NoOp
  NoProc = NoProc
  NoEvent = NoEvent
  MaxRuns = 1
  MaxActions = 1
  MaxPending = 1
  MaxCrashes = 1
  Faults = {"write"}
INVARIANTS AppendIsReplayable ReceiptsAreDurable ConfirmedIsApplied
PROPERTIES ImplementsLedger StopFences PacketsTaken
CHECK_DEADLOCK FALSE
