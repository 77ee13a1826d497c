SPECIFICATION Spec
CONSTANTS
  LateMicFailures = FALSE
  MaxVersion = 3
  MaxQuestions = 2
  MaxFaults = 1
  MaxUnadopted = 1
INVARIANTS
  PutToCourtOnce
  
PROPERTIES
  ObjectionIsAnswered
  EveryRecordingEnds
CONSTRAINT FaultsComeFirst
CHECK_DEADLOCK FALSE
