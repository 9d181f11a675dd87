SPECIFICATION Spec
CONSTANTS
  p1 = p1
  p2 = p2
  Ports = {p1, p2}
  MaxNonce = 3
  MaxAuthority = 2
  Supervisor = "external"
  Targets = {{p1},{p2},{p1,p2}}
  Commands = {"stop","pause"}
  LeaseChoices = {"none"}
  OtherControllers = FALSE
  OperatorHolds = FALSE
  DiskFaults = {"unsure"}
INVARIANTS NoOrphanTraffic PromotionAccepted RunsWereStarted
PROPERTIES ClosedRunsTerminal LedgerKept
SYMMETRY PortSymmetry
