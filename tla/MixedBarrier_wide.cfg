CONSTANTS
  Threads = {t1, t2, t3}
  Controller = t1
  NoThread = NoThread
  MayAbort = FALSE
  GenerationModulus = 8
  SnapshotModulus = 4
  InitialGenerations = {0,3,4,7}
  MaxWaits = 2
SPECIFICATION HSpec
INVARIANT MetAtBarrier
CHECK_DEADLOCK FALSE
