SPECIFICATION Spec
CONSTANTS
  Cards <- MCCards
  HandSize = 0
  Differences <- MCImpsOnly
  ReportDeals <- MCReportDeals
  Scripts <- MCScripts
  ExprDeals <- MCExprDeals
  Statements <- MCStatements
  MaxStatements = 0
  MaxShapes = 2
  MaxProduce = 0
INVARIANT ImpsAreLawful
CHECK_DEADLOCK FALSE
