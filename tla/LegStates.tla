------------------------------ MODULE LegStates ------------------------------
(***************************************************************************)
(* The rows of the dispatch tables, the two hand-written state machines    *)
(* (leg/state_machine.py, delivery_order/state_machine.py) and the two     *)
(* derived states computed from rows (compute_dispatch_status, and the     *)
(* work_state computed by derive_and_save_state).  Everything here is a    *)
(* constant-level definition: Dispatch and DispatchRC give it state.       *)
(*                                                                         *)
(* Timestamps are abstracted to "is set"; places, rates, trucks, chassis   *)
(* and notes of a leg decide nothing here and are left out.                *)
(***************************************************************************)
EXTENDS Naturals

CONSTANTS
  Driver,        \* rows of the driver table
  NoDriver,      \* leg.driver_id IS NULL
  Container,     \* the containers of the delivery order
  NoContainer,   \* leg.container_id IS NULL (bobtail and dry-run legs)
  MaxLegs,       \* bound: how many leg rows are ever inserted
  Stop,          \* identifiers of the container_stop rows ever inserted
  MaxSeq         \* bound: the largest container_stop.sequence_no requested

ASSUME NullAssumption == NoDriver \notin Driver /\ NoContainer \notin Container
ASSUME BoundAssumption == MaxLegs \in Nat \ {0} /\ MaxSeq \in Nat \ {0}

-----------------------------------------------------------------------------
(* Legs *)

LegId == 1 .. MaxLegs

LegStatus ==
  {"PENDING", "ASSIGNED", "IN_TRANSIT", "COMPLETED", "FAILED", "DRY_RUN"}

(* _ALLOWED of leg/state_machine.py.  No edge enters or leaves DRY_RUN.    *)
LegEdge ==
  {<<"PENDING", "ASSIGNED">>,     <<"PENDING", "IN_TRANSIT">>,
   <<"ASSIGNED", "IN_TRANSIT">>,  <<"ASSIGNED", "PENDING">>,
   <<"IN_TRANSIT", "COMPLETED">>, <<"IN_TRANSIT", "FAILED">>,
   <<"FAILED", "PENDING">>}

(* The statuses reissue_dry_run accepts. *)
Reissuable == {"ASSIGNED", "IN_TRANSIT"}

(* Mutant: completed legs are regenerated like planned ones.               *)
Protected_UnderWayOnly == {"IN_TRANSIT"}

(* _PROTECTED of leg/generator.py: legs a regeneration must not replace.   *)
Protected == {"IN_TRANSIT", "COMPLETED"}

(* accepted and rejected are accepted_at and rejected_at IS NOT NULL;      *)
(* reissued_from is 0 for a leg that is no reissue.                        *)
LegRow ==
  [is_active    : BOOLEAN,
   status       : LegStatus,
   driver_id    : Driver \cup {NoDriver},
   accepted     : BOOLEAN,
   rejected     : BOOLEAN,
   container_id : Container \cup {NoContainer},
   reissued_from : LegId \cup {0}]

(* A freshly inserted row: PENDING by the column default. *)
NewLeg(c, d, orig) ==
  [is_active |-> TRUE, status |-> "PENDING", driver_id |-> d,
   accepted |-> FALSE, rejected |-> FALSE, container_id |-> c,
   reissued_from |-> orig]

(* The value of a leg identifier no row has yet. *)
BlankLeg == [NewLeg(NoContainer, NoDriver, 0) EXCEPT !.is_active = FALSE]

(* Mutants: assigning restarts any leg; assigning writes a status of the   *)
(* driver application that the column does not have.                       *)
Assigned_Always(row, d) == [row EXCEPT !.driver_id = d, !.status = "ASSIGNED"]
Assigned_AsOffer(row, d) == [row EXCEPT !.driver_id = d, !.status = "OFFERED"]

(* assign_driver: a PENDING leg becomes ASSIGNED, any other keeps its      *)
(* status; accepted_at and rejected_at keep what they were.                *)
Assigned(row, d) ==
  [row EXCEPT !.driver_id = d,
              !.status = IF @ = "PENDING" THEN "ASSIGNED" ELSE @]

(* unassign_driver: the offer is wiped, an ASSIGNED leg is PENDING again.  *)
Unassigned(row) ==
  [row EXCEPT !.driver_id = NoDriver, !.accepted = FALSE, !.rejected = FALSE,
              !.status = IF @ = "ASSIGNED" THEN "PENDING" ELSE @]

(* accept_offer and reject_offer of the driver application.                *)
Accepted(row) == [row EXCEPT !.accepted = TRUE]
Rejected(row) == [row EXCEPT !.rejected = TRUE, !.driver_id = NoDriver]

(* A leg that keeps its order DISPATCHING: active, still to be dispatched  *)
(* and without a driver.                                                   *)
NeedsDriver(row) ==
  row.is_active /\ row.driver_id = NoDriver
                /\ row.status \in {"PENDING", "ASSIGNED"}

-----------------------------------------------------------------------------
(* The delivery order *)

DeliveryStatus ==
  {"PLANNING", "DISPATCHING", "DISPATCHED", "YARD_STAGED", "FINAL_DELIVERY",
   "EMPTY_STAGED", "COMPLETED"}

(* _ALLOWED of delivery_order/state_machine.py. *)
OrderEdge ==
  {<<"PLANNING", "DISPATCHING">>,     <<"PLANNING", "DISPATCHED">>,
   <<"DISPATCHING", "DISPATCHED">>,   <<"DISPATCHING", "PLANNING">>,
   <<"DISPATCHING", "YARD_STAGED">>,  <<"DISPATCHING", "FINAL_DELIVERY">>,
   <<"DISPATCHED", "DISPATCHING">>,   <<"DISPATCHED", "YARD_STAGED">>,
   <<"DISPATCHED", "FINAL_DELIVERY">>, <<"DISPATCHED", "PLANNING">>,
   <<"YARD_STAGED", "FINAL_DELIVERY">>, <<"YARD_STAGED", "DISPATCHED">>,
   <<"FINAL_DELIVERY", "EMPTY_STAGED">>, <<"FINAL_DELIVERY", "COMPLETED">>,
   <<"FINAL_DELIVERY", "YARD_STAGED">>,
   <<"EMPTY_STAGED", "COMPLETED">>,   <<"EMPTY_STAGED", "FINAL_DELIVERY">>,
   <<"COMPLETED", "EMPTY_STAGED">>}

DispatchPhase == {"PLANNING", "DISPATCHING", "DISPATCHED"}

OrderRow ==
  [is_active : BOOLEAN, status : DeliveryStatus,
   is_on_hold : BOOLEAN, cancelled : BOOLEAN]

(* Mutant: the derivation forgets that an order may be on hold.            *)
AutoDerived_OnHold(do) ==
  do.is_active /\ ~do.cancelled /\ do.status \in DispatchPhase

(* The early returns of derive_do_dispatch_state: outside these states the *)
(* derivation leaves the order alone.                                      *)
AutoDerived(do) ==
  /\ do.is_active
  /\ ~do.is_on_hold
  /\ ~do.cancelled
  /\ do.status \in DispatchPhase

(* compute_dispatch_status over a set of leg rows. *)
DispatchStatus(rows) ==
  IF \A r \in rows : ~r.is_active THEN "PLANNING"
  ELSE IF \E r \in rows : NeedsDriver(r) THEN "DISPATCHING"
  ELSE "DISPATCHED"

(* derive_do_dispatch_state: the order after it ran over these leg rows.   *)
DerivedOrder(do, rows) ==
  IF AutoDerived(do) THEN [do EXCEPT !.status = DispatchStatus(rows)] ELSE do

-----------------------------------------------------------------------------
(* Containers and their stops *)

WorkState ==
  {"DRAFT", "PLANNED", "IN_TRANSIT", "AT_STOP", "WAITING_PLAN", "HOLD",
   "COMPLETED", "CANCELLED"}

ManualWork == {"HOLD", "CANCELLED"}

(* container_stop, with arrived for actual_arrival IS NOT NULL.  The row   *)
(* of an identifier not yet inserted has sequence_no 0.                    *)
StopRow ==
  [is_active : BOOLEAN, container_id : Container \cup {NoContainer},
   sequence_no : 0 .. MaxSeq, arrived : BOOLEAN]

BlankStop ==
  [is_active |-> FALSE, container_id |-> NoContainer, sequence_no |-> 0,
   arrived |-> FALSE]

(* The middle of derive_and_save_state: the state of a container from its  *)
(* active stops and its active legs.                                       *)
DerivedWork(stops, legs) ==
  LET lastBy(s, S) == \A t \in S : t.sequence_no <= s.sequence_no
      arrivals == {s \in stops : s.arrived}
      terminusReached == \E s \in arrivals : lastBy(s, stops)
  IN  IF stops = {} THEN "DRAFT"
      ELSE IF legs = {} THEN "PLANNED"
      ELSE IF \A r \in legs : r.status = "COMPLETED"
           THEN IF terminusReached THEN "COMPLETED" ELSE "AT_STOP"
      ELSE IF \E r \in legs : r.status = "IN_TRANSIT" THEN "IN_TRANSIT"
      ELSE IF arrivals = {} THEN "PLANNED"
      ELSE IF terminusReached THEN "WAITING_PLAN" ELSE "AT_STOP"
=============================================================================
