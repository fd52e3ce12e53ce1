CONSTANTS
  w1 = w1
  w2 = w2
  Writers = {w1, w2}
  r1 = r1
  r2 = r2
  Readers = {r1, r2}
  Nobody = Nobody
  BufferSize = 3
  FillSize = 3
  Sizes = {0, 1, 2, 3, 4, 7}
  MaxBytes = 14
  Lengths = {0, 3, 5, 7}
  ReadSizes = {0, 1, 2, 4}
SPECIFICATION FairSpec
INVARIANTS StreamsTypeOK InOrder AllVisible BufferMirrorsStream
PROPERTIES RefinesSource ReadBytesEnds
