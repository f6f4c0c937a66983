------------------------------- MODULE Invoice -------------------------------
(***************************************************************************)
(* Invoices and their lines: InvoiceService and InvoiceRepository.  A      *)
(* line is edited only while its invoice is DRAFT, and every edit ends in  *)
(* the sum of the lines, kept in charge_total.                             *)
(*                                                                         *)
(* Requests are split as in Payroll: the step that loads the header and    *)
(* the line, the one that adds up the lines, the commit.  An UPDATE writes *)
(* only the columns that changed since the line was loaded, and fails when *)
(* the line is gone.                                                       *)
(*                                                                         *)
(* A sum is symbolic: the amount of each line that it adds up.  What an    *)
(* invoice cost, customers, dates and notes decide nothing here.           *)
(***************************************************************************)
EXTENDS Naturals, FiniteSets

CONSTANTS
  Editor,       \* the invoice requests that may be in flight at a time
  MaxInvoices,  \* bound: how many invoices are ever created
  MaxLines,     \* bound: how many lines are ever inserted
  Qty,          \* values of a line's quantity
  Unit          \* values of a line's unit_amount

ASSUME InvoiceBounds == MaxInvoices \in Nat /\ MaxLines \in Nat

ASSUME OneUnit == 1 \in Qty

VARIABLES
  invoice,   \* invoice headers
  item,      \* invoice_line: the lines of each invoice
  created,   \* how many invoices were inserted
  lines,     \* how many lines were inserted
  editor     \* what the session of each invoice request holds

invoiceVars == <<invoice, item, created, lines, editor>>

-----------------------------------------------------------------------------

InvoiceId == 1 .. MaxInvoices
LineId    == 1 .. MaxLines

InvoiceStatus == {"DRAFT", "ISSUED", "PAID", "VOID"}

(* _ALLOWED of invoice/state_machine.py. *)
InvoiceEdge ==
  {<<"DRAFT", "ISSUED">>, <<"DRAFT", "VOID">>, <<"ISSUED", "PAID">>,
   <<"ISSUED", "VOID">>,  <<"ISSUED", "DRAFT">>, <<"PAID", "VOID">>}

(* amount <<q, u>> stands for the product of q and u.  Nothing makes the    *)
(* amount of a prefilled line the product of its own columns: it is copied *)
(* from an addon of the order, whose columns are independent.              *)
Line ==
  [source : {"PREFILL", "MANUAL"}, quantity : Qty, unit_amount : Unit,
   amount : Qty \X Unit]

ItemMap == UNION {[S -> Line] : S \in SUBSET LineId}
SumMap  == UNION {[S -> Qty \X Unit] : S \in SUBSET LineId}

NoItems == [l \in {} |-> {}]

(* quantity or Decimal("1"): no quantity charges one unit, and so does a   *)
(* quantity of zero, which nothing refuses.                                *)
Charged(q) == IF q = 0 THEN 1 ELSE q

(* Mutant: a line keeps the amount it had. *)
Priced_Once(row, q, u) == [row EXCEPT !.quantity = q, !.unit_amount = u]

(* A line with another quantity and unit amount, its amount recomputed;    *)
(* the column keeps a quantity of zero.                                    *)
Priced(row, q, u) ==
  [row EXCEPT !.quantity = q, !.unit_amount = u, !.amount = <<Charged(q), u>>]

(* Mutant: a line is inserted before it has an amount. *)
NewLine_Unpriced(q, u) ==
  [source |-> "MANUAL", quantity |-> q, unit_amount |-> u, amount |-> <<>>]

NewLine(q, u) ==
  [source |-> "MANUAL", quantity |-> q, unit_amount |-> u,
   amount |-> <<Charged(q), u>>]

(* The SUM of update_charge_total. *)
SumOf(items) == [l \in DOMAIN items |-> items[l].amount]

(* seen is the status of the header as loaded, loaded its charge_total.    *)
(* before and after are the line of the request as it loaded it and as it  *)
(* changed it: before is empty for a new line, after for a deleted one.    *)
EditorRequest ==
  [at : {"idle", "edit", "sum", "save"}, id : InvoiceId \cup {0},
   seen : InvoiceStatus, new : InvoiceStatus, before : ItemMap, after : ItemMap,
   loaded : SumMap, total : SumMap]

NoEditorRequest ==
  [at |-> "idle", id |-> 0, seen |-> "DRAFT", new |-> "DRAFT",
   before |-> NoItems, after |-> NoItems, loaded |-> NoItems, total |-> NoItems]

InvoiceRow ==
  [is_active : BOOLEAN, status : InvoiceStatus, charge_total : SumMap]

InvoiceTypeOK ==
  /\ invoice \in [InvoiceId -> InvoiceRow]
  /\ item \in [InvoiceId -> ItemMap]
  /\ created \in 0 .. MaxInvoices
  /\ lines \in 0 .. MaxLines
  /\ editor \in [Editor -> EditorRequest]

InvoiceInit ==
  /\ invoice = [i \in InvoiceId |-> [is_active |-> FALSE, status |-> "DRAFT",
                                     charge_total |-> NoItems]]
  /\ item = [i \in InvoiceId |-> NoItems]
  /\ created = 0 /\ lines = 0
  /\ editor = [w \in Editor |-> NoEditorRequest]

-----------------------------------------------------------------------------
(* Sessions *)

Column(row, old, new, col) == IF new[col] # old[col] THEN new[col] ELSE row[col]

(* The lines of an invoice once the edit of the request is flushed.        *)
Edited(items, r) ==
  LET gone == DOMAIN r.before \ DOMAIN r.after IN
  [l \in (DOMAIN items \ gone) \cup DOMAIN r.after |->
     IF l \notin DOMAIN r.after THEN items[l]
     ELSE IF l \notin DOMAIN r.before THEN r.after[l]
     ELSE [col \in DOMAIN r.after[l] |->
             Column(items[l], r.before[l], r.after[l], col)]]

Load(w, i, request) ==
  /\ editor[w].at = "idle" /\ invoice[i].is_active
  /\ editor' = [editor EXCEPT ![w] = request]

(* Mutant: the status of the invoice is not consulted. *)
LoadDraft_Any(w, i, request) == Load(w, i, request)

(* _assert_draft on the header as loaded. *)
LoadDraft(w, i, request) ==
  invoice[i].status = "DRAFT" /\ Load(w, i, request)

Edit(i, before, after) ==
  [NoEditorRequest EXCEPT !.id = i, !.before = before, !.after = after,
                          !.loaded = invoice[i].charge_total]

-----------------------------------------------------------------------------
(* Requests *)

(* The lines _prefill_from_do makes of the containers and addons of the    *)
(* order; a quantity of zero becomes one.                                  *)
Prefilled == {row \in Line : row.source = "PREFILL" /\ row.quantity # 0}

(* create with its prefilled lines, all in one transaction.                *)
CreateInvoice(w, prefill) ==
  LET i     == created + 1
      items == [l \in lines + 1 .. lines + Cardinality(DOMAIN prefill) |->
                  prefill[l - lines]]
  IN
  /\ editor[w].at = "idle" /\ created < MaxInvoices
  /\ lines' = lines + Cardinality(DOMAIN prefill) /\ lines' <= MaxLines
  /\ created' = i
  /\ item' = [item EXCEPT ![i] = items]
  /\ invoice' = [invoice EXCEPT
       ![i] = [is_active |-> TRUE, status |-> "DRAFT",
               charge_total |-> SumOf(items)]]
  /\ UNCHANGED editor

AddLine(w, i, q, u) ==
  /\ lines < MaxLines /\ lines' = lines + 1
  /\ LoadDraft(w, i, [Edit(i, NoItems, [l \in {lines + 1} |-> NewLine(q, u)])
                        EXCEPT !.at = "sum"])
  /\ UNCHANGED <<invoice, item, created>>

UpdateLine(w, i, l, q, u) ==
  /\ l \in DOMAIN item[i]
  /\ LoadDraft(w, i, [Edit(i, [k \in {l} |-> item[i][l]],
                              [k \in {l} |-> Priced(item[i][l], q, u)])
                        EXCEPT !.at = "edit"])
  /\ UNCHANGED <<invoice, item, created, lines>>

DeleteLine(w, i, l) ==
  /\ l \in DOMAIN item[i]
  /\ LoadDraft(w, i, [Edit(i, [k \in {l} |-> item[i][l]], NoItems)
                        EXCEPT !.at = "edit"])
  /\ UNCHANGED <<invoice, item, created, lines>>

TransitionInvoice(w, i, target) ==
  /\ <<invoice[i].status, target>> \in InvoiceEdge
  /\ Load(w, i, [NoEditorRequest EXCEPT !.at = "save", !.id = i,
                                        !.seen = invoice[i].status,
                                        !.new = target])
  /\ UNCHANGED <<invoice, item, created, lines>>

(* The edit is flushed, which locks the line until the commit and fails if *)
(* the line to change is gone.                                             *)
FlushLine(w) ==
  LET r == editor[w] IN
  /\ r.at = "edit"
  /\ DOMAIN r.before \cap DOMAIN r.after \subseteq DOMAIN item[r.id]
  /\ \A v \in Editor \ {w} : editor[v].at \in {"sum", "save"} =>
        DOMAIN editor[v].before \cap DOMAIN r.before = {}
  /\ editor' = [editor EXCEPT ![w].at = "sum"]
  /\ UNCHANGED <<invoice, item, created, lines>>

(* update_charge_total adds up what is committed and the edit.             *)
SumLines(w) ==
  LET r == editor[w] IN
  /\ r.at = "sum"
  /\ editor' = [editor EXCEPT ![w].at = "save",
                              ![w].total = SumOf(Edited(item[r.id], r))]
  /\ UNCHANGED <<invoice, item, created, lines>>

SaveInvoice(w) ==
  LET r == editor[w] IN
  /\ r.at = "save"
  /\ invoice' = [invoice EXCEPT
       ![r.id].status = IF r.new # r.seen THEN r.new ELSE @,
       ![r.id].charge_total = IF r.total # r.loaded THEN r.total ELSE @]
  /\ item' = [item EXCEPT ![r.id] = Edited(@, r)]
  /\ editor' = [editor EXCEPT ![w] = NoEditorRequest]
  /\ UNCHANGED <<created, lines>>

(* delete, in any status; its lines stay. *)
DeleteInvoice(w, i) ==
  /\ editor[w].at = "idle" /\ invoice[i].is_active
  /\ invoice' = [invoice EXCEPT ![i].is_active = FALSE]
  /\ UNCHANGED <<item, created, lines, editor>>

FailInvoice(w) ==
  /\ editor[w].at # "idle"
  /\ editor' = [editor EXCEPT ![w] = NoEditorRequest]
  /\ UNCHANGED <<invoice, item, created, lines>>

InvoiceNext ==
  \E w \in Editor :
     \/ \E n \in 0 .. MaxLines :
           \E prefill \in [1 .. n -> Prefilled] : CreateInvoice(w, prefill)
     \/ \E i \in 1 .. created :
           \/ \E q \in Qty, u \in Unit :
                 \/ AddLine(w, i, q, u)
                 \/ \E l \in LineId : UpdateLine(w, i, l, q, u)
           \/ \E l \in LineId : DeleteLine(w, i, l)
           \/ \E target \in InvoiceStatus : TransitionInvoice(w, i, target)
           \/ DeleteInvoice(w, i)
     \/ FlushLine(w) \/ SumLines(w) \/ SaveInvoice(w) \/ FailInvoice(w)

-----------------------------------------------------------------------------
(* Properties of requests one at a time, which an overlap violates *)

(* The charge of an invoice is the sum of its lines, and the amount of a   *)
(* manual line the product of its columns, but for a quantity of zero,     *)
(* which is charged as one (add_line, update_line, update_charge_total).   *)
InvoiceTotalAgrees ==
  \A i \in InvoiceId :
     /\ invoice[i].charge_total = SumOf(item[i])
     /\ \A l \in DOMAIN item[i] : item[i][l].source = "MANUAL" =>
          item[i][l].amount = <<Charged(item[i][l].quantity), item[i][l].unit_amount>>

LinesFrozen ==
  \A i \in InvoiceId :
     invoice[i].status # "DRAFT" =>
        /\ item'[i] = item[i]
        /\ invoice'[i].charge_total = invoice[i].charge_total

(* What a customer was charged does not change: the lines of an invoice    *)
(* are edited only while it is DRAFT (invoice/state_machine.py).           *)
IssuedIsFrozen == [][LinesFrozen]_invoiceVars
=============================================================================
