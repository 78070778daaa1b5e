\* Two sales compete for one piece that may be adjusted away; one crash.
SPECIFICATION FairSpec
CONSTANTS
  Product = {p1}
  Terminal = {t1}
  Session = {x1}
  Sale = {s1, s2}
  Return = {}
  Opening <- MCOpeningOne
  MaxQuantity = 1
  Tender <- MCOneTender
  Float = {0}
  MaxManual = 0
  MaxAdjustments = 1
  MaxCrashes = 1
  NoTerminal = NoTerminal
  NoSession = NoSession
  NoSale = NoSale
  NoHandler = NoHandler
INVARIANT CommittedStockCovered
PROPERTIES CashSettles EventsSettle
CHECK_DEADLOCK FALSE
