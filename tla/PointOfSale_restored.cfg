\* A returned sale is cancelled: what it brings back to the stock.
SPECIFICATION Spec
CONSTANTS
  Product = {p1}
  Terminal = {t1}
  Session = {x1}
  Sale = {s1}
  Return = {r1}
  Opening <- MCOpeningOne
  MaxQuantity = 1
  Tender <- MCOneTender
  Float = {0}
  MaxManual = 0
  MaxAdjustments = 0
  MaxCrashes = 2
  NoTerminal = NoTerminal
  NoSession = NoSession
  NoSale = NoSale
  NoHandler = NoHandler
INVARIANT RestoredNeverExceedsSold
CHECK_DEADLOCK FALSE
