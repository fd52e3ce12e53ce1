CONSTANTS
  Null = Null
  Class <- MixedClass
  Members <- MixedMembers
  Sendable <- MixedWritten
  Readable <- MixedRead
  MaxMessages = 1
  MaxReads = 1
  MaxDepth = 3
  MayTruncate = FALSE
SPECIFICATION Spec
INVARIANTS RoundTrip NeverMisreads FailuresJustified ClosuresLive MismatchReported
