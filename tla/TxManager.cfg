CONSTANTS
  g1 = g1  g2 = g2
  d1 = d1  d2 = d2
  NoCaller = NoCaller
  Callers <- TwoCallers
  Sources <- TwoSources
  Instants <- Ticks
  PerSecond = 4
  Letters = 2
  Capacity <- Pools
  MaxMade = 4
SPECIFICATION FairSpec
INVARIANTS RegisteredAreActive NoBranchLeaks
PROPERTIES NilMeansCommitted ErrorMeansClosed CallsReturn
CHECK_DEADLOCK FALSE
