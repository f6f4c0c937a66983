\* Two requests at a time, three rows in all (MCFiles bounds the keys they name).
CONSTANTS
  avatar = avatar
  Request = {r1, r2}
  Temp = {t1, t2}
  Name = {avatar}
  NoTemp = NoTemp
  NameOf <- MCNameOf
  Avatar = avatar
  MaxRows = 3
  LateFailures = FALSE
SPECIFICATION Spec
SYMMETRY Symmetry
CONSTRAINTS RemovalsApart FewKeys FewMisused
CHECK_DEADLOCK FALSE
INVARIANTS
  RowsHaveObjects
PROPERTIES
  UploadsSurvive
