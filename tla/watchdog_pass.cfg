SPECIFICATION FairSpec
CONSTANTS
  MaxNonce = 1
  MaxTime = 5
  MaxFaults = 0
  Faults = {}
  Clients = {}
  MaxRun = 1
  Window = 1
  Margin = 2
INVARIANTS WatchdogNeverPasses
