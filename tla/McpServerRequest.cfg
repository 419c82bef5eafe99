CONSTANTS
  NumCalls = 1
  NotesCap = 1
  MaxMessages = 2
  ServerIds <- MCSameIds
SPECIFICATION Spec
INVARIANT AnswersAreResponses
