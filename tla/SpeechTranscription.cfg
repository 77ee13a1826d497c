CONSTANTS
  MaxUtterances = 2
  MaxFrames = 3
  InputFrames = 2
  UtteranceLimit = 3
  Recognizers = 1
  MaxFaults = 1
SPECIFICATION Spec
INVARIANTS
  OutputIsFenced
  FinalIsOfAllAudio
  CreditIsHonoured
  WorkHoldsRecognizer
  EndIsUnderWay
CONSTRAINT FewFrames
CHECK_DEADLOCK FALSE
