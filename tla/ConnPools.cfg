CONSTANTS
  g1 = g1  g2 = g2
  d1 = d1  d2 = d2  d3 = d3
  NoCaller = NoCaller
  Callers <- TwoCallers
  Names <- ThreeNames
  Configured <- TwoUsable
  CloseFails <- Stubborn
  MaxPools = 4
  MaxCloses = 1
SPECIFICATION FairSpec
INVARIANT OnePoolPerName
PROPERTIES StableWhileRead HandsOutOpenPool AtomicGetOrCreate CallsReturn
