SPECIFICATION Spec
CONSTANTS
  HalfWord = 32768
  Rules <- WorkingRules
  Shards <- WorkingShards
  Rows <- MCRows
  Statements <- MCStatements
INVARIANTS NoMatchSkipped OnlyRightNodes LayoutMeansItsNodes HintsObeyed NodesGetTheirTable
