CONSTANTS
  NumTurns = 2
  Sessions <- TwoSessions
  NoSession <- Unnamed
  MaxCrashes = 1
SPECIFICATION FairSpec
INVARIANTS
  NothingForgotten
  SurvivesCrash
PROPERTIES
  FinalizeEnds
