SPECIFICATION FairSpec
CONSTANTS
  p1 = p1
  p2 = p2
  Ports = {p1}
  MaxNonce = 3
  MaxAuthority = 2
  Supervisor = "systemd"
  Targets = {{p1}}
  Commands = {"stop", "pause", "resume", "update"}
  LeaseChoices = {"none", "armed"}
  OtherControllers = FALSE
  OperatorHolds = FALSE
  DiskFaults = {"no"}
INVARIANTS TypeOK AtMostOnceStart RelativeUpdateOnce OwnedIsCurrent
PROPERTIES NothingLeftBehind SessionFrozen LeaseOutlivesTraffic OperationsEnd
