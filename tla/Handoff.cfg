CONSTANTS
  Jobs = {j1}
  NoJob = NoJob
  Inputs = {"pause", "resume", "cancel", "workercrash", "enqrace", "enqfail"}
  MaxAttempts = 3
  KindAttempts = 3
  Slots = 1
  MaxQueue = 2
  LiveHandoff = TRUE
  BootWithinLease = TRUE
  MaxSpawns = 2
  MaxCrashes = 2
SPECIFICATION Spec
INVARIANTS
  LeaseHeld
PROPERTIES
  ImplementsContract
