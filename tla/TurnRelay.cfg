CONSTANTS
  Modes <- AllModes
  StreamCap = 2
  OutCap = 1
  MaxEvents = 3
  MaxToolEvents = 1
SPECIFICATION FairSpec
INVARIANTS
  TypeOK
  AnswerTellsTheTurn
  TaskTellsTheTurn
PROPERTIES
  RelaysTurnStream
  NobodyLeftBehind
