\* Two members, one of which is followed, a custom group, a writer and a reader.
CONSTANTS
  User = {u1, u2}
  Watched = {u1}
  Custom = {g1}
  Code = {a}
  Writer = {w1}
  Reader = {r1}
SPECIFICATION TeamSpec
CONSTRAINT OtherStays
INVARIANTS
  SerialIsTrue
PROPERTIES
  StaleEnds
CHECK_DEADLOCK FALSE
