CONSTANTS
  Size = 3
  BufferSize = 6
  Threshold = 2
  BlockSizes = {1, 3, 5, 6}
  Tasks = {"SerFloats", "DeserDoubles"}
  MayTerminate = TRUE
  GenerationModulus = 4
  SnapshotModulus = 4
  InitialGenerations = {3}
SPECIFICATION FairSpec
INVARIANTS TypeOK CompleteResult WorkersQuiescent DistinctSlots ConPointerNotRaced
PROPERTIES CallReturns TerminationCompletes
CHECK_DEADLOCK FALSE
