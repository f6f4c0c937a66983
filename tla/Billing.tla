------------------------------- MODULE Billing -------------------------------
(***************************************************************************)
(* The two sides of the money of a completed leg: what the driver is paid  *)
(* (Payroll) and what the customer is charged (Invoice).  They share no    *)
(* row, so a step of the one leaves the other alone.                       *)
(***************************************************************************)
EXTENDS Payroll, Invoice

vars == <<payrollVars, invoiceVars>>

Init == PayrollInit /\ InvoiceInit

Next ==
  \/ PayrollNext /\ UNCHANGED invoiceVars
  \/ InvoiceNext /\ UNCHANGED payrollVars

Spec == Init /\ [][Next]_vars
=============================================================================
