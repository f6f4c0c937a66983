------------------------------ MODULE MCBilling ------------------------------
(***************************************************************************)
(* Small instances of Billing for TLC.                                     *)
(***************************************************************************)
EXTENDS Billing, TLC

Symmetry == Permutations(Leg) \cup Permutations(Clerk) \cup Permutations(Editor)

(* Two payroll requests overlap only if both are about to write a status   *)
(* of one settlement: they confirm, pay or void it, each on the status it  *)
(* loaded.  No leg is due then and there is no charge, for neither decides *)
(* a status.                                                               *)
OnlyStatusesOverlap ==
  LET busy == {w \in Clerk : ~Idle(w)} IN
  Cardinality(busy) > 1 =>
     /\ \A w \in busy : clerk[w].at = "save" /\ clerk[w].mine = {}
     /\ \A v, w \in busy : clerk[v].id = clerk[w].id
     /\ due = {} /\ charged = 0

(* Bound: either settlements or invoices are made, not both, for they      *)
(* share nothing.                                                          *)
OneSide ==
  \/ invoice = [i \in InvoiceId |-> [is_active |-> FALSE, status |-> "DRAFT",
                                     charge_total |-> NoItems]]
     /\ created = 0 /\ \A w \in Editor : editor[w] = NoEditorRequest
  \/ due = {} /\ built = 0 /\ \A w \in Clerk : clerk[w] = NoClerkRequest

SmallSides == OneSide /\ OnlyStatusesOverlap
=============================================================================
