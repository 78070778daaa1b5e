\* A sale is cancelled while its document waits to be sent.
SPECIFICATION Spec
CONSTANTS
  Doc = {d1}
  MaxCorrections = 1
  Call = {c1}
  MaxCrashes = 0
  Idle = Idle
PROPERTY NoSendAfterCancel
CHECK_DEADLOCK FALSE
