SPECIFICATION Spec
CONSTANTS
  s1 = s1
  s2 = s2
  v1 = v1
  v2 = v2
  HalfWord = 32768
  NoRow = NoRow
  Idle = Idle
  Rules <- MCRules
  Sources <- MCSources
  Values <- MCValues
  Sessions <- TwoSessions
  Keys <- TwoKeys
  Home <- TwoHomes
  Physical <- OrderNodes
  Statements <- PlacedStatements
  Faulty <- OneFaulty
PROPERTY ActsAsOneTable
INVARIANT RowsAtHome
SYMMETRY Symmetric
