CONSTANTS
  PageCount = 2
  Clips = {c1, c2}
  Utterances = {u1}
  RetryDelays = 1
  MaxQueue = 2
  RowLimit = 2
SPECIFICATION AuditSpec
CONSTRAINT FewSpans
INVARIANT
  AuditIsExact
PROPERTY
  CloseSettles
CHECK_DEADLOCK FALSE
