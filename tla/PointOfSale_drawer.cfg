\* Cash handed over with change to give: what a closed session expects.
SPECIFICATION Spec
CONSTANTS
  Product = {p1}
  Terminal = {t1}
  Session = {x1}
  Sale = {s1}
  Return = {r1}
  Opening <- MCOpeningOne
  MaxQuantity = 1
  Tender <- MCCashOnly
  Float = {0}
  MaxManual = 0
  MaxAdjustments = 0
  MaxCrashes = 2
  NoTerminal = NoTerminal
  NoSession = NoSession
  NoSale = NoSale
  NoHandler = NoHandler
INVARIANT ExpectedIsInTheDrawer
CHECK_DEADLOCK FALSE
