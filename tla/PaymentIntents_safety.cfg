\* Two attempts on one sale, up to two calls of a kind waiting, one restart.
SPECIFICATION Spec
CONSTANTS
  Intent = {i1, i2}
  Sale = {s1}
  MaxTotal = 2
  MaxAsking = 2
  MaxCrashes = 1
  NoSale = NoSale
SYMMETRY MCSymmetry
INVARIANTS VerifiedIsPaid ChargedOnceAndKept TakenWithinTotal
CHECK_DEADLOCK FALSE
