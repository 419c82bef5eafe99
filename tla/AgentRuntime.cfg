CONSTANTS
  NumStops = 2
  EventCap = 4
  MaxReports = 2
SPECIFICATION FairSpec
INVARIANTS
  TypeOK
  OneEnding
  OneLateEvent
PROPERTIES
  CancelledNeverCompletes
  EndingIsTold
  ImplementsTaskContract
