SPECIFICATION FairSpec
CONSTANTS
  first = first
  second = second
  None = None
  Nobody = Nobody
  Me = me
  Callers = {me, other}
  Jobs <- MCJobs
  Responses <- MCResponses
  ResponseOf <- MCResponseOf
  SequenceOf <- MCSequenceOf
  Frames <- MCFrames
  Finals = {second}
  Clips = {second}
  MaxDepth = 2
  Tombstones = 2
  WindowSize = 1
  MaxFrames = 2
INVARIANTS
  CreditIsReturned
PROPERTIES
  ProviderRunsAlone
  NothingAfterCancelled
  LaneIsFreed
CONSTRAINT CancelsMeetTheLane
