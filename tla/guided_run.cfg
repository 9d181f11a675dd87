SPECIFICATION Spec
CONSTANTS
  MaxNonce = 2
  MaxTime = 6
  MaxFaults = 2
  Faults = {"disk", "rpc", "crash"}
  Clients = {"stop"}
  MaxRun = 2
  Window = 2
  Margin = 2
INVARIANTS TypeOK EvidenceIsOwn DocumentValid SettledIsQuiet
PROPERTIES FailClosed SettledOnce
