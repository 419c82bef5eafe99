CONSTANTS
  NumCalls = 2
  ToolOutcomes <- MCCommandOutcomes
SPECIFICATION Spec
INVARIANTS
  FailedExecutionCascades
