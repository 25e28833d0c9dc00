CONSTANTS
  Jobs = {j1}
  NoJob = NoJob
  Inputs = {"cancel", "pause", "resume", "park", "workercrash", "budget", "signal", "hold"}
  MaxAttempts = 3
  KindAttempts = 3
  Slots = 1
  MaxQueue = 2
  LiveHandoff = FALSE
  BootWithinLease = TRUE
  MaxSpawns = 2
  MaxCrashes = 1
SPECIFICATION Spec
INVARIANTS
  TypeOK
  Supervised
  FrozenIsPaused
  OneLiveRow
  SlotsBound
PROPERTIES
  JobsStayOver
