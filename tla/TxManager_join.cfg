CONSTANTS
  g1 = g1  g2 = g2
  d1 = d1  d2 = d2
  NoCaller = NoCaller
  Callers <- TwoCallers
  Sources <- TwoSources
  Instants <- TwoTicks
  PerSecond = 1
  Letters = 2
  Capacity <- Pools
  MaxMade = 3
SPECIFICATION Spec
PROPERTY JoinsOnlyActive
CHECK_DEADLOCK FALSE
