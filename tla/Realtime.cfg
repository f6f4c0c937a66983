\* Two connections of one team, two events, a queue of one.
CONSTANTS
  Conn = {c1, c2}
  Team = {t1}
  Task = {k1, k2, k3}
  NoTask = NoTask
  SEND_QUEUE_MAXSIZE = 1
  MaxEvents = 2
SPECIFICATION Spec
CHECK_DEADLOCK FALSE
INVARIANTS
  NothingLostButOverflow
PROPERTIES
  EventsArrive
  IdleEnds
