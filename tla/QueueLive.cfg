CONSTANTS
  Jobs = {j1, j2}
  NoJob = NoJob
  Inputs = {"budget", "cancel"}
  MaxAttempts = 2
  KindAttempts = 3
  Slots = 1
  MaxQueue = 2
  LiveHandoff = FALSE
  BootWithinLease = TRUE
  MaxSpawns = 1
  MaxCrashes = 0
SPECIFICATION FairSpec
INVARIANT
  SlotsBound
PROPERTIES
  QueueMoves
