CONSTANTS
  Null = Null
  Class <- PackedClass
  Members <- PackedMembers
  Sendable = {"written"}
  Readable = {"lacking", "other"}
  MaxMessages = 1
  MaxReads = 2
  MaxDepth = 2
  MayTruncate = FALSE
SPECIFICATION Spec
INVARIANT InStep
