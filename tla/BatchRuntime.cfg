CONSTANTS
  NumCalls = 3
  ToolOutcomes <- MCHandlerOutcomes
SPECIFICATION FairSpec
INVARIANTS
  TypeOK
  PlanPartitions
  ReportComplete
  EventsTellTheRun
PROPERTIES
  FailureEndsRun
  ImplementsContract
