SPECIFICATION Spec
CONSTANTS
  Runs = {1, 2}
  InitialCourts <- MCCourts
  Intents <- MCIntents
  MaxAttempts = 2
  MaxCommands = 2
  MaxModelSteps = 2
INVARIANTS
  OwnWordsOnRecord
  MotionIsRuledAtOnce
  
PROPERTIES
  ImplementsLedger
  EveryRequestEnds
CONSTRAINT TwoRequests
CHECK_DEADLOCK FALSE
