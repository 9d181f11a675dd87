SPECIFICATION Spec
CONSTANTS
  p1 = p1
  p2 = p2
  Ports = {p1, p2}
  MaxNonce = 2
  MaxAuthority = 1
  Supervisor = "systemd"
  Targets = {{p1}}
  Commands = {"stop"}
  LeaseChoices = {"none"}
  OtherControllers = TRUE
  OperatorHolds = TRUE
  DiskFaults = {}
INVARIANTS NoOrphanTraffic NoPortLeak
