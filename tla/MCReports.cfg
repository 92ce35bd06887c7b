SPECIFICATION Spec
CONSTANTS
  Cards <- MCCards
  HandSize = 8
  Differences <- MCDifferences
  ReportDeals <- MCReportDeals
  Scripts <- MCScripts
  ExprDeals <- MCExprDeals
  Statements <- MCStatements
  MaxStatements = 3
  MaxShapes = 2
  MaxProduce = 3
INVARIANT StatsOfThisHand
INVARIANT ConditionIsOfThisDeal
INVARIANT ScoringIsLawful
INVARIANT CountedWhereItBelongs
INVARIANT TablesAgree
INVARIANT MadeOrFailed
CHECK_DEADLOCK FALSE
