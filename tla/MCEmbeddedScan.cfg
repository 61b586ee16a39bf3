SPECIFICATION MCFairSpec
CONSTANTS
  owner = owner
  w1 = w1
  m1 = m1
  Caller <- MCCaller
  Owner = owner
  ArgsCase <- MCArgs
  Outcome <- MCOutcome
  MaxWrites = 4
  Module <- MCModule
INVARIANTS
  StreamsReleased
  AnswerExact
PROPERTIES
  NoWriteAfterClose
  Answered
  ReaderEnds
  ImplementsContract
CHECK_DEADLOCK FALSE
