CONSTANTS
  g1 = g1  g2 = g2
  a = a  b = b
  NoCaller = NoCaller
  Callers <- TwoCallers
  Shared <- OneGenerator
  PerCall <- OtherGenerator
  WorkerId <- DifferentWorkers
  SeqSize = 2
  WorkerSize = 2
  TimeLimit = 8
  MaxClock = 3
  MaxSetbacks = 1
SPECIFICATION FairSpec
INVARIANTS Increasing WorkersDisjoint
PROPERTY GenerateReturns
CHECK_DEADLOCK FALSE
