CONSTANTS
  Providers = {"anthropic", "openai"}
  NumTurns = 1
  MaxPasses = 2
  Cancellable = {}
  EventCap = 8
  Replies <- RepliesOfBothKinds
SPECIFICATION Spec
INVARIANT SentOnce
