SPECIFICATION FairSpec
CONSTANTS
  MaxNonce = 2
  MaxTime = 5
  MaxFaults = 2
  Faults = {"disk", "rpc", "crash"}
  Clients = {}
  MaxRun = 1
  Window = 2
  Margin = 2
PROPERTIES RunsEnd TrafficEnds
