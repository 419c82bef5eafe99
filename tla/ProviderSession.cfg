CONSTANTS
  Providers = {"anthropic", "openai"}
  NumTurns = 2
  MaxPasses = 2
  Cancellable = {1}
  EventCap = 1
  Replies <- RepliesWithNothing
SPECIFICATION FairSpec
INVARIANTS
  CompletedIsKnown
  FailedIsForgotten
PROPERTIES
  CancelEndsStream
  ImplementsTurnStream
