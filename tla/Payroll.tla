------------------------------- MODULE Payroll -------------------------------
(***************************************************************************)
(* The settlements of one driver for one period: PayrollService and        *)
(* PayrollRepository.  A settlement has lines, one for each leg it pays,   *)
(* written when it is built and never changed, and charges, inserted with  *)
(* it or one at a time while it is DRAFT.                                  *)
(*                                                                         *)
(* Every request has its own session at READ COMMITTED, locks no row it    *)
(* reads and commits at its end (get_write_db): it is a step that reads,   *)
(* one that writes what it decided on what it read, and, for add_charge,   *)
(* one in between that adds up the charges.  A charge in the course of     *)
(* being inserted locks its parent's unique key (team_id, id), which no    *)
(* update of a header touches, so it keeps nobody out.                     *)
(*                                                                         *)
(* Amounts are symbolic: a total is the set of the charges it adds up.     *)
(***************************************************************************)
EXTENDS Naturals, FiniteSets

CONSTANTS
  Leg,             \* legs of the driver in the period
  Clerk,           \* the payroll requests that may be in flight at a time
  MaxSettlements,  \* bound: how many settlements are ever built
  MaxCharges       \* bound: how many charges are ever inserted

ASSUME PayrollBounds == MaxSettlements \in Nat /\ MaxCharges \in Nat

VARIABLES
  due,         \* the legs that are active, COMPLETED and the driver's
  settlement,  \* payroll_settlement
  line,        \* payroll_line: the legs of each settlement and their source
  charge,      \* payroll_charge: the charges of each settlement
  built,       \* how many settlements were inserted
  charged,     \* how many charges were inserted
  clerk        \* what the session of each payroll request holds

payrollVars == <<due, settlement, line, charge, built, charged, clerk>>

-----------------------------------------------------------------------------

SettlementId == 1 .. MaxSettlements
ChargeId     == 1 .. MaxCharges

PayrollStatus == {"DRAFT", "CONFIRMED", "PAID", "VOID"}

SettlementRow ==
  [is_active : BOOLEAN, status : PayrollStatus, addon_total : SUBSET ChargeId]

LineMap == UNION {[S -> {"RESOLVED", "UNRESOLVED"}] : S \in SUBSET Leg}
NoLines == [l \in {} |-> "RESOLVED"]

(* legs are those a build collected; id is the settlement of any other     *)
(* request, seen its loaded status, new the status it will have, mine its  *)
(* new charges and total the sum it will write.                            *)
ClerkRequest ==
  [at : {"idle", "build", "sum", "save"}, legs : SUBSET Leg,
   id : SettlementId \cup {0}, seen : PayrollStatus, new : PayrollStatus,
   mine : SUBSET ChargeId, total : SUBSET ChargeId]

NoClerkRequest ==
  [at |-> "idle", legs |-> {}, id |-> 0, seen |-> "DRAFT", new |-> "DRAFT",
   mine |-> {}, total |-> {}]

PayrollTypeOK ==
  /\ due \subseteq Leg
  /\ settlement \in [SettlementId -> SettlementRow]
  /\ line \in [SettlementId -> LineMap]
  /\ charge \in [SettlementId -> SUBSET ChargeId]
  /\ built \in 0 .. MaxSettlements
  /\ charged \in 0 .. MaxCharges
  /\ clerk \in [Clerk -> ClerkRequest]

PayrollInit ==
  /\ due = {}
  /\ settlement = [s \in SettlementId |->
                     [is_active |-> FALSE, status |-> "DRAFT", addon_total |-> {}]]
  /\ line = [s \in SettlementId |-> NoLines]
  /\ charge = [s \in SettlementId |-> {}]
  /\ built = 0 /\ charged = 0
  /\ clerk = [w \in Clerk |-> NoClerkRequest]

-----------------------------------------------------------------------------

(* Mutant: a draft settlement does not settle its legs yet.                *)
Settled_Final ==
  UNION {DOMAIN line[s] :
           s \in {t \in 1 .. built : settlement[t].status \in {"CONFIRMED", "PAID"}}}

(* The subquery of collect_settleable_legs: the legs on a line of a        *)
(* settlement that is not VOID, deleted or not.                            *)
Settled ==
  UNION {DOMAIN line[s] :
           s \in {t \in 1 .. built : settlement[t].status # "VOID"}}

Idle(w) == clerk[w].at = "idle"

Decide(w, request) ==
  /\ Idle(w)
  /\ clerk' = [clerk EXCEPT ![w] = request]

KeepTables == UNCHANGED <<due, settlement, line, charge, built>>

(* The driver completes a leg; a leg is deleted, or given to another       *)
(* driver after it was completed.                                          *)
LegCompletes(l) ==
  /\ l \notin due
  /\ due' = due \cup {l}
  /\ UNCHANGED <<settlement, line, charge, built, charged, clerk>>

LegLeaves(l) ==
  /\ l \in due
  /\ due' = due \ {l}
  /\ UNCHANGED <<settlement, line, charge, built, charged, clerk>>

(* build, and build_period for each of its drivers, which skips a driver   *)
(* without legs: the legs are collected ...                                *)
CollectLegs(w) ==
  /\ Decide(w, [NoClerkRequest EXCEPT !.at = "build", !.legs = due \ Settled])
  /\ KeepTables /\ UNCHANGED charged

(* ... and the settlement, its lines and n charges for the addons of its   *)
(* legs are committed together.  The resolver finds a rate for the legs in *)
(* rated.                                                                  *)
Build(w, rated, n) ==
  LET s   == built + 1
      new == charged + 1 .. charged + n
  IN
  /\ clerk[w].at = "build" /\ built < MaxSettlements
  /\ rated \subseteq clerk[w].legs
  /\ n > 0 => clerk[w].legs # {} /\ charged + n <= MaxCharges
  /\ settlement' = [settlement EXCEPT
       ![s] = [is_active |-> TRUE, status |-> "DRAFT", addon_total |-> new]]
  /\ line' = [line EXCEPT
       ![s] = [l \in clerk[w].legs |->
                 IF l \in rated THEN "RESOLVED" ELSE "UNRESOLVED"]]
  /\ charge' = [charge EXCEPT ![s] = new]
  /\ built' = s /\ charged' = charged + n
  /\ clerk' = [clerk EXCEPT ![w] = NoClerkRequest]
  /\ UNCHANGED due

(* A request that loaded settlement s and will give it a status.           *)
SetStatus(w, s, status) ==
  /\ settlement[s].is_active
  /\ Decide(w, [NoClerkRequest EXCEPT
                  !.at = "save", !.id = s, !.seen = settlement[s].status,
                  !.new = status])
  /\ KeepTables /\ UNCHANGED charged

(* Mutant: unresolved lines do not block. *)
Confirm_Unresolved(w, s) ==
  settlement[s].status = "DRAFT" /\ SetStatus(w, s, "CONFIRMED")

Confirm(w, s) ==
  /\ settlement[s].status = "DRAFT"
  /\ \A l \in DOMAIN line[s] : line[s][l] # "UNRESOLVED"
  /\ SetStatus(w, s, "CONFIRMED")

(* Mutant: a draft is paid without being confirmed. *)
MarkPaid_Draft(w, s) ==
  /\ settlement[s].status \in {"DRAFT", "CONFIRMED"}
  /\ SetStatus(w, s, "PAID")

MarkPaid(w, s) ==
  /\ settlement[s].status = "CONFIRMED"
  /\ SetStatus(w, s, "PAID")

(* Mutant: a void settlement takes the status of a cancelled container.    *)
Void_Cancelled(w, s) == SetStatus(w, s, "CANCELLED")

(* void, whatever the status. *)
Void(w, s) == SetStatus(w, s, "VOID")

(* Mutant: the status is not consulted. *)
AddCharge_Any(w, s) ==
  /\ settlement[s].is_active
  /\ charged < MaxCharges /\ charged' = charged + 1
  /\ Decide(w, [NoClerkRequest EXCEPT
                  !.at = "sum", !.id = s, !.seen = settlement[s].status,
                  !.new = settlement[s].status, !.mine = {charged + 1}])
  /\ KeepTables

(* add_charge: the charge is inserted into a settlement loaded as DRAFT,   *)
AddCharge(w, s) ==
  /\ settlement[s].is_active /\ settlement[s].status = "DRAFT"
  /\ charged < MaxCharges /\ charged' = charged + 1
  /\ Decide(w, [NoClerkRequest EXCEPT !.at = "sum", !.id = s,
                                      !.mine = {charged + 1}])
  /\ KeepTables

(* Mutant: the sum misses the new charge, which is not flushed yet.        *)
SumCharges_Before(w) ==
  LET r == clerk[w] IN
  /\ r.at = "sum"
  /\ clerk' = [clerk EXCEPT ![w].at = "save", ![w].total = charge[r.id]]
  /\ KeepTables /\ UNCHANGED charged

(* update_totals adds up what is committed and the charge of the request.  *)
SumCharges(w) ==
  LET r == clerk[w] IN
  /\ r.at = "sum"
  /\ clerk' = [clerk EXCEPT ![w].at = "save",
                            ![w].total = charge[r.id] \cup r.mine]
  /\ KeepTables /\ UNCHANGED charged

(* The flush and commit of the request: only what it changed is written.   *)
SaveSettlement(w) ==
  LET r == clerk[w] IN
  /\ r.at = "save"
  /\ settlement' = [settlement EXCEPT
       ![r.id].status = IF r.new # r.seen THEN r.new ELSE @,
       ![r.id].addon_total = IF r.mine # {} THEN r.total ELSE @]
  /\ charge' = [charge EXCEPT ![r.id] = @ \cup r.mine]
  /\ clerk' = [clerk EXCEPT ![w] = NoClerkRequest]
  /\ UNCHANGED <<due, line, built, charged>>

(* delete, in any status. *)
DeleteSettlement(w, s) ==
  /\ Idle(w) /\ settlement[s].is_active
  /\ settlement' = [settlement EXCEPT ![s].is_active = FALSE]
  /\ UNCHANGED <<due, line, charge, built, charged, clerk>>

FailPayroll(w) ==
  /\ ~Idle(w)
  /\ clerk' = [clerk EXCEPT ![w] = NoClerkRequest]
  /\ KeepTables /\ UNCHANGED charged

PayrollNext ==
  \/ \E l \in Leg : LegCompletes(l) \/ LegLeaves(l)
  \/ \E w \in Clerk :
        \/ CollectLegs(w)
        \/ \E rated \in SUBSET Leg, n \in 0 .. 1 : Build(w, rated, n)
        \/ \E s \in 1 .. built :
              \/ Confirm(w, s)   \/ MarkPaid(w, s) \/ Void(w, s)
              \/ AddCharge(w, s) \/ DeleteSettlement(w, s)
        \/ SumCharges(w) \/ SaveSettlement(w) \/ FailPayroll(w)

-----------------------------------------------------------------------------
(* Whatever the overlap *)

(* No settlement with a leg whose rate was not found is ever confirmed or  *)
(* paid (confirm): the lines a request checks are the lines for good.      *)
ConfirmedIsResolved ==
  \A s \in SettlementId : settlement[s].status \in {"CONFIRMED", "PAID"} =>
     \A l \in DOMAIN line[s] : line[s][l] = "RESOLVED"

(* The changes of status a request decides on, other than to VOID.         *)
Edge == {<<"DRAFT", "CONFIRMED">>, <<"CONFIRMED", "PAID">>}

StatusFollows ==
  \A s \in SettlementId :
     LET status == settlement'[s].status IN
     status # settlement[s].status /\ status # "VOID" =>
        \E w \in Clerk :
           clerk[w].id = s /\ <<clerk[w].seen, status>> \in Edge

(* A settlement is paid only after somebody confirmed it: the status PAID  *)
(* is written by a request that loaded it CONFIRMED, even if it is not any *)
(* more, and CONFIRMED by one that loaded it DRAFT (confirm, mark_paid).   *)
StatusFollowsLoaded == [][StatusFollows]_payrollVars

-----------------------------------------------------------------------------
(* One request at a time *)

(* A leg is paid at most once: it is on the lines of at most one           *)
(* settlement that is not void (collect_settleable_legs).                  *)
SettledOnce ==
  \A s, t \in 1 .. built :
     s # t /\ settlement[s].status # "VOID" /\ settlement[t].status # "VOID"
        => DOMAIN line[s] \cap DOMAIN line[t] = {}

ChargesFrozen ==
  \A s \in SettlementId :
     settlement[s].status \in {"CONFIRMED", "PAID"} =>
        /\ charge'[s] = charge[s]
        /\ settlement'[s].addon_total = settlement[s].addon_total

(* The charges of a settlement are frozen once it is confirmed             *)
(* (PayrollStatus, add_charge).                                            *)
ConfirmedIsFrozen == [][ChargesFrozen]_payrollVars

(* The total of a settlement is the sum of its charges (update_totals).    *)
PayrollTotalAgrees ==
  \A s \in SettlementId : settlement[s].addon_total = charge[s]
=============================================================================
