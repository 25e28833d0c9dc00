CONSTANTS
  Jobs = {j1}
  NoJob = NoJob
  Inputs = {"cancel", "kill", "approve", "mutate", "reject", "spawnfail", "badtree", "hold", "workercrash"}
  MaxAttempts = 3
  KindAttempts = 3
  Slots = 1
  MaxQueue = 2
  LiveHandoff = FALSE
  BootWithinLease = TRUE
  MaxSpawns = 2
  MaxCrashes = 1
SPECIFICATION Spec
INVARIANTS
  ExecutedOnce
  TerminalAgreement
PROPERTIES
  ImplementsContract
  EndsStand
