CONSTANTS
  Null = Null
  Class <- LongClass
  Members <- LongMembers
  Sendable = {"written", "short"}
  Readable = {"reordered", "short"}
  MaxMessages = 2
  MaxReads = 3
  MaxDepth = 3
  MayTruncate = TRUE
SPECIFICATION FairSpec
INVARIANTS TypeOK RoundTrip StreamInStep FailuresJustified ArraysReturned CleanWhenIdle
PROPERTIES DeadAfterFailure EnterReturns
