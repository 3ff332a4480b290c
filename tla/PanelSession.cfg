SPECIFICATION SessionSpec
CONSTANTS
  Accounts = {ada, bob}
  Admins = {ada}
  NoOne = NoOne
  Ops = {o1, o2}
  First = o1
  MaxMeddling = 1
INVARIANTS
  SessionTypeOK
  PageFitsUser
  ShownIsSignedIn
PROPERTIES
  Opens
CHECK_DEADLOCK FALSE
