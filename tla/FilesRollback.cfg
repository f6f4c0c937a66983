\* One request at a time, which may fail after it has deleted objects.
CONSTANTS
  avatar = avatar
  Request = {r1}
  Temp = {t1}
  NoTemp = NoTemp
  Name = {avatar}
  NameOf <- MCNameOf
  Avatar = avatar
  MaxRows = 2
  LateFailures = TRUE
SPECIFICATION Spec
CHECK_DEADLOCK FALSE
INVARIANT RowsHaveObjects
