\* Two legs and two stops of one container, one driver.
CONSTANTS
  Driver = {d1}
  NoDriver = NoDriver
  Container = {c1}
  NoContainer = NoContainer
  MaxLegs = 2
  Stop = {s1, s2}
  MaxSeq = 2
SPECIFICATION Spec
CONSTRAINT Parts
SYMMETRY Symmetry
INVARIANTS
  TypeOK
  CancelledNotHeld
  OrderAgrees
  ReissueLineage
  OneAnswer
  WorkAgrees
PROPERTIES
  AutomationNeverOverrides
  RespectsGraph
  GenerationKeepsProtected
