SPECIFICATION Spec
CONSTANTS
  HalfWord = 32768
  Rules <- ShippedRules
  Shards <- OrderShards
  Rows <- MCRows
  Statements <- KeyedStatements
INVARIANTS NoMatchSkipped
