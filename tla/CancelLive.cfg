CONSTANTS
  Jobs = {j1}
  NoJob = NoJob
  Inputs = {"cancel", "pause", "resume", "budget", "workercrash", "approve", "kill"}
  MaxAttempts = 3
  KindAttempts = 3
  Slots = 1
  MaxQueue = 2
  LiveHandoff = FALSE
  BootWithinLease = TRUE
  MaxSpawns = 2
  MaxCrashes = 0
SPECIFICATION FairSpec
PROPERTIES
  CancelLeadsToEnd
