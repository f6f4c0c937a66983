\* Two requests in flight on one leg and every state of the order, one on two legs.
CONSTANTS
  Worker = {w1, w2}
  Driver = {d1}
  NoDriver = NoDriver
  Container = {c1}
  NoContainer = NoContainer
  MaxLegs = 2
  Stop = {}
  MaxSeq = 1
SPECIFICATION Spec
CONSTRAINT Overlap
SYMMETRY Symmetry
PROPERTIES
  StatusStepsSeen
  DeletedStaysDeleted
  CancelSticks
