\* One request at a time on each side, but for two that write a status.
CONSTANTS
  Leg = {l1, l2}
  Clerk = {k1, k2}
  MaxSettlements = 2
  MaxCharges = 2
  Editor = {e1}
  MaxInvoices = 1
  MaxLines = 2
  Qty = {0, 1, 2}
  Unit = {10}
SPECIFICATION Spec
CONSTRAINT SmallSides
SYMMETRY Symmetry
INVARIANTS
  PayrollTypeOK
  InvoiceTypeOK
  SettledOnce
  ConfirmedIsResolved
  PayrollTotalAgrees
  InvoiceTotalAgrees
PROPERTIES
  ConfirmedIsFrozen
  IssuedIsFrozen
  StatusFollowsLoaded
