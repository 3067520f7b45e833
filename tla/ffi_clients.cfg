SPECIFICATION FairSpec
CONSTANTS
  Programs <- AllPrograms
  Cell <- TheCells
  Typed <- Messages
  Leftover <- Behind
  Events <- SomeEvents
  StringBuffer = 4
  PayloadBuffer = 4
  MaxCommands = 2
  MaxEvents = 1
  PollLimit = 1
CHECK_DEADLOCK FALSE
INVARIANTS TypeOK AnswerIsOwn FreshReads NodeFirst PayloadDecodes ShownIsSent
PROPERTIES CallsReturn ExampleEnds Synchronous
