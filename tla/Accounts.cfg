\* One contact, two accounts in succession, two devices and two requests at a time.
CONSTANTS
  Device = {d1, d2}
  Req = {q1, q2}
  MaxUsers = 2
  MaxSessions = 2
  MaxRotations = 0
  Contact = {c1}
  Form = {f1, f2}
  MaxCodes = 2
SPECIFICATION AccountsSpec
CONSTRAINT Focus
INVARIANTS
  ClosedStaysClosed
  LiveIsListed
  OneAccountPerCode
PROPERTIES
  DeletedIsOut
CHECK_DEADLOCK FALSE
