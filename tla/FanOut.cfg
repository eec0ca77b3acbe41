CONSTANTS
  r1 = r1  r2 = r2
  n1 = n1  n2 = n2
  d1 = d1
  NoAnswer = NoAnswer
  Free = Free
  Requests <- TwoRequests
  NodeList <- TwoNodes
  SourceOf <- OneSource
  Capacity = 1
SPECIFICATION FairSpec
INVARIANT NothingRunsAfterAnswer
PROPERTIES ImplementsGather EveryStatementAnswered
CHECK_DEADLOCK FALSE
