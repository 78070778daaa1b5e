\* One document, three requests at a time, three correction letters, two restarts.
SPECIFICATION Spec
CONSTANTS
  Doc = {d1}
  MaxCorrections = 3
  Call = {c1, c2, c3}
  MaxCrashes = 2
  Idle = Idle
SYMMETRY MCSymmetry
INVARIANTS SentOnceAndHeard OfflineQueueAgrees CorrectionsInOrder
CHECK_DEADLOCK FALSE
