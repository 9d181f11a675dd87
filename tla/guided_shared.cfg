SPECIFICATION Spec
CONSTANTS
  MaxNonce = 2
  MaxTime = 5
  MaxFaults = 1
  Faults = {"crash", "trex", "controller"}
  Clients = {"start", "stop"}
  MaxRun = 2
  Window = 1
  Margin = 2
INVARIANTS PassIsEarned
