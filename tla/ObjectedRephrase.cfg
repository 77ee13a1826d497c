SPECIFICATION Spec
CONSTANTS
  Runs = {1, 2}
  InitialCourts <- MCCourts
  Intents <- MCIntents
  MaxAttempts = 2
  MaxCommands = 2
  MaxModelSteps = 2
INVARIANT PendingObjectionCanBeRuled
CHECK_DEADLOCK FALSE
