\* Two orders, three sales, one effect cut by a crash, stock for some of them.
SPECIFICATION Spec
CONSTANTS
  Order = {o1, o2}
  Sale = {s1, s2, s3}
  Opening = 3
  MaxQuantity = 2
  MaxCrashes = 1
  NoOrder = NoOrder
  NoSale = NoSale
SYMMETRY MCSymmetry
INVARIANTS StockCoversPending LiveOrderKeepsReservation FulfilledMatchesDocuments
CHECK_DEADLOCK FALSE
