\* One attempt whose start is answered with doubt after the checkout.
SPECIFICATION Spec
CONSTANTS
  Intent = {i1}
  Sale = {s1}
  MaxTotal = 1
  MaxAsking = 1
  MaxCrashes = 0
  NoSale = NoSale
SYMMETRY MCSymmetry
INVARIANT ReturnsStayBlocked
CHECK_DEADLOCK FALSE
