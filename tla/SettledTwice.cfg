\* Two builds of the settlements of one driver.
CONSTANTS
  Leg = {l1, l2}
  Clerk = {k1, k2}
  MaxSettlements = 2
  MaxCharges = 1
  Editor = {}
  MaxInvoices = 1
  MaxLines = 1
  Qty = {1}
  Unit = {10}
SPECIFICATION Spec
SYMMETRY Symmetry
INVARIANT SettledOnce
