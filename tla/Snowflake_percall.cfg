CONSTANTS
  g1 = g1  g2 = g2
  a = a  b = b
  NoCaller = NoCaller
  Callers <- TwoCallers
  Shared <- NoGenerator
  PerCall <- TwoGenerators
  WorkerId <- ConfiguredWorker
  SeqSize = 2
  WorkerSize = 2
  TimeLimit = 8
  MaxClock = 2
  MaxSetbacks = 1
SPECIFICATION Spec
INVARIANT PrimaryKeysUnique
CHECK_DEADLOCK FALSE
