SPECIFICATION Spec
CONSTANTS
  BlockSize = 2
  MaxBlocks = 1
  HeapAddresses = {1, 2, 3}
  MaxArrays = 7
INVARIANTS TypeOK OwnArrays AssertionExact
PROPERTY RefinesCalls
