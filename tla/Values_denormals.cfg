SPECIFICATION Spec
CONSTANTS
  ByteBits = 5
  TypeBits = 3
  SizeBits = 13
  FirstBytes = 2
  BlockBytes = 2
  SingleExpBits = 5
  SinglePrecision = 4
  SingleBoost = 6
  DoubleExpBits = 6
  DoublePrecision = 6
  DoubleBoost = 9
  Sizes <- None
  Numbers <- None
  Singles <- AllSingles
  Doubles <- None
  BooleanVectors <- None
  IntegerTypes <- Types
INVARIANT FloatsAsTested
