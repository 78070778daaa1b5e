\* Two sessions, two lines and three sales in parts, checkouts, transfers, merges
\* and late effects; one order in the kitchen, rerouted and cut by a crash.
SPECIFICATION MCSpec
CONSTANTS
  Table = {t1, t2}
  Session = {s1, s2}
  Line = {l1, l2}
  Sale = {b1, b2, b3}
  MaxQuantity = 2
  NoTable = NoTable
  NoSession = NoSession
  NoSale = NoSale
  Order = {o1}
  Product = {p1, p2}
  Station = {k1, k2}
  Direct = Direct
  NoRoute = NoRoute
  MaxChanges = 2
  MaxCrashes = 1
SYMMETRY MCSymmetry
INVARIANTS
  BilledWithinOrdered
  ClosedIsBilled
  CheckoutIsLive
  KitchenIsTold
CHECK_DEADLOCK FALSE
