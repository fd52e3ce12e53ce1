CONSTANTS
  Threads = {t1, t2, t3}
  Controller = t1
  NoThread = NoThread
  MayAbort = TRUE
  GenerationModulus = 3
  SnapshotModulus = 3
  InitialGenerations = {0, 2}
SPECIFICATION FairSpec
PROPERTY AbortFrees
CHECK_DEADLOCK FALSE
