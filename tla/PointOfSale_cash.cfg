\* Two terminals, two sessions; a sale, its return, a supply or withdrawal, one crash: effects once and in the right session.
SPECIFICATION Spec
CONSTANTS
  Product = {p1}
  Terminal = {t1, t2}
  Session = {x1, x2}
  Sale = {s1}
  Return = {r1}
  Opening <- MCOpeningOne
  MaxQuantity = 1
  Tender <- MCOneTender
  Float = {1}
  MaxManual = 1
  MaxAdjustments = 0
  MaxCrashes = 1
  NoTerminal = NoTerminal
  NoSession = NoSession
  NoSale = NoSale
  NoHandler = NoHandler
SYMMETRY MCSymmetry
INVARIANTS SessionsFitEvents CashMatchesDocuments ClosedExpectationIsCurrent StockMatchesDocuments
PROPERTIES ImplementsDelivery
CHECK_DEADLOCK FALSE
