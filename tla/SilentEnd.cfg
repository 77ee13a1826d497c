CONSTANTS
  MaxUtterances = 2
  MaxFrames = 3
  InputFrames = 2
  UtteranceLimit = 2
  Recognizers = 1
  MaxFaults = 1
SPECIFICATION Spec
INVARIANT SilenceEndsUtterance
CHECK_DEADLOCK FALSE
