------------------------------ MODULE Dispatch ------------------------------
(***************************************************************************)
(* One delivery order with its containers, legs and stops, served one      *)
(* request at a time.  An action is one request: the body of the service   *)
(* method with every derivation it runs before the commit of the request.  *)
(*                                                                         *)
(* assign_driver, unassign_driver, reissue_dry_run and transition commit   *)
(* first and derive afterwards, each derivation with a commit of its own   *)
(* and its exceptions swallowed.  What such a request still has to derive  *)
(* is the variable hook; DeriveContainer and DeriveOrder run it, LoseHook  *)
(* is the swallowed exception (or the process dying after the commit).     *)
(* delete derives before its commit and swallows a failure as well.        *)
(* Requests that overlap are the subject of DispatchRC.                    *)
(*                                                                         *)
(* staleOrder and staleWork record the paths on which the code changes     *)
(* what a derived status depends on and derives nothing, or loses the      *)
(* derivation: they are history, no action reads them.                     *)
(***************************************************************************)
EXTENDS LegStates

VARIABLES
  leg,         \* the leg table
  issued,      \* how many leg rows were inserted; their ids are 1 .. issued
  order,       \* the delivery_order row
  live,        \* the containers whose row is active
  work,        \* container.work_state
  stop,        \* the container_stop table
  hook,        \* the derivations the last request still owes
  staleOrder,  \* order.status may be out of date and nothing will derive it
  staleWork    \* the containers whose work_state may be out of date likewise

legVars   == <<leg, issued>>
tripVars  == <<live, stop>>
vars == <<leg, issued, order, live, work, stop, hook, staleOrder, staleWork>>

-----------------------------------------------------------------------------

NoHook == [container |-> NoContainer, order |-> FALSE]

TypeOK ==
  /\ leg \in [LegId -> LegRow]
  /\ issued \in 0 .. MaxLegs
  /\ order \in OrderRow
  /\ live \subseteq Container
  /\ work \in [Container -> WorkState]
  /\ stop \in [Stop -> StopRow]
  /\ hook \in [container : Container \cup {NoContainer}, order : BOOLEAN]
  /\ staleOrder \in BOOLEAN
  /\ staleWork \subseteq Container

(* A new order: POST /delivery-orders sets no status, so it is PLANNING,   *)
(* and its containers start as DRAFT.                                      *)
Init ==
  /\ leg = [l \in LegId |-> BlankLeg]
  /\ issued = 0
  /\ order = [is_active |-> TRUE, status |-> "PLANNING",
              is_on_hold |-> FALSE, cancelled |-> FALSE]
  /\ live = Container
  /\ work = [c \in Container |-> "DRAFT"]
  /\ stop = [s \in Stop |-> BlankStop]
  /\ hook = NoHook
  /\ staleOrder = FALSE
  /\ staleWork = {}

-----------------------------------------------------------------------------
(* Reading and deriving *)

Rows(legs) == {legs[l] : l \in LegId}

ActiveLegs(legs, c) ==
  {r \in Rows(legs) : r.is_active /\ r.container_id = c}

ActiveStops(stops, c) ==
  {r \in {stops[s] : s \in Stop} : r.is_active /\ r.container_id = c}

(* Mutant: the derivation looks for an active container row.               *)
Rederived_LiveOnly(c, legs, stops) ==
  IF c \in live /\ work[c] \notin ManualWork
  THEN [work EXCEPT ![c] = DerivedWork(ActiveStops(stops, c),
                                       ActiveLegs(legs, c))]
  ELSE work

(* derive_and_save_state over given tables: HOLD and CANCELLED stay.       *)
Rederived(c, legs, stops) ==
  IF c \in Container /\ work[c] \notin ManualWork
  THEN [work EXCEPT ![c] = DerivedWork(ActiveStops(stops, c),
                                       ActiveLegs(legs, c))]
  ELSE work

(* The derivations run over the tables as the request leaves them.         *)
DeriveWork(c, legs, stops) ==
  /\ work' = Rederived(c, legs, stops)
  /\ staleWork' = staleWork \ {c}

DeriveStatus(legs) ==
  /\ order' = DerivedOrder(order, Rows(legs))
  /\ staleOrder' = (staleOrder /\ ~AutoDerived(order))

(* A leg changes and nothing is derived for the order, for container c.    *)
SkipStatus(before, after) ==
  /\ UNCHANGED order
  /\ staleOrder' = (staleOrder \/ NeedsDriver(before) # NeedsDriver(after)
                               \/ before.is_active # after.is_active)

SkipWork(cs) ==
  /\ UNCHANGED work
  /\ staleWork' = staleWork \cup (cs \cap Container)

(* A request starts when the one before it is over. *)
Idle == hook = NoHook

Active(l) == l \in 1 .. issued /\ leg[l].is_active

-----------------------------------------------------------------------------
(* Dispatchers: legs.  LegService *)

(* create: the row and both derivations are one transaction.               *)
CreateLeg(c, d) ==
  LET legs == [leg EXCEPT ![issued + 1] = NewLeg(c, d, 0)] IN
  /\ Idle /\ issued < MaxLegs
  /\ leg' = legs /\ issued' = issued + 1
  /\ DeriveWork(c, legs, stop) /\ DeriveStatus(legs)
  /\ UNCHANGED <<tripVars, hook>>

(* create_bulk derives nothing.  A request with several items is a         *)
(* sequence of these steps.                                                *)
CreateLegBulk(c, d) ==
  LET row == NewLeg(c, d, 0) IN
  /\ Idle /\ issued < MaxLegs
  /\ leg' = [leg EXCEPT ![issued + 1] = row] /\ issued' = issued + 1
  /\ SkipWork({c}) /\ SkipStatus(leg[issued + 1], row)
  /\ UNCHANGED <<tripVars, hook>>

(* update: PUT may set driver_id and container_id.  Only the container the *)
(* leg ends up in is derived again.                                        *)
UpdateLeg(l, d, c) ==
  LET row  == [leg[l] EXCEPT !.driver_id = d, !.container_id = c]
      legs == [leg EXCEPT ![l] = row]
      left == {leg[l].container_id} \ {c, NoContainer}
  IN
  /\ Idle /\ Active(l)
  /\ leg' = legs
  /\ work' = Rederived(c, legs, stop)
  /\ staleWork' = (staleWork \ {c}) \cup left
  /\ SkipStatus(leg[l], row)
  /\ UNCHANGED <<issued, tripVars, hook>>

(* update_bulk: the same columns, no derivation.                           *)
UpdateLegBulk(l, d, c) ==
  LET row == [leg[l] EXCEPT !.driver_id = d, !.container_id = c] IN
  /\ Idle /\ Active(l)
  /\ leg' = [leg EXCEPT ![l] = row]
  /\ SkipWork(IF c = leg[l].container_id THEN {} ELSE {c, leg[l].container_id})
  /\ SkipStatus(leg[l], row)
  /\ UNCHANGED <<issued, tripVars, hook>>

(* Mutant: a leg without a container owes nothing.                         *)
Owe_WithContainer(c, o) ==
  hook' = [container |-> c, order |-> o /\ c # NoContainer]

(* Commit of a request that derives afterwards: the hooks it owes.         *)
Owe(c, o) == hook' = [container |-> c, order |-> o]

(* assign_driver, whatever the status of the leg.                          *)
AssignDriver(l, d) ==
  /\ Idle /\ Active(l)
  /\ leg' = [leg EXCEPT ![l] = Assigned(@, d)]
  /\ Owe(leg[l].container_id, TRUE)
  /\ UNCHANGED <<issued, tripVars, order, work, staleOrder, staleWork>>

UnassignDriver(l) ==
  /\ Idle /\ Active(l)
  /\ leg' = [leg EXCEPT ![l] = Unassigned(@)]
  /\ Owe(leg[l].container_id, TRUE)
  /\ UNCHANGED <<issued, tripVars, order, work, staleOrder, staleWork>>

(* apply_load_type: n legs, one for each step of the template, replace     *)
(* those the container has unless one of them is under way or done.        *)
ApplyLoadType(c, n, replace_existing) ==
  LET existing == {l \in 1 .. issued : leg[l].is_active
                                       /\ leg[l].container_id = c}
      legs == [l \in LegId |->
                 IF l \in existing THEN [leg[l] EXCEPT !.is_active = FALSE]
                 ELSE IF l \in issued + 1 .. issued + n
                      THEN NewLeg(c, NoDriver, 0)
                 ELSE leg[l]]
  IN
  /\ Idle /\ c \in live
  /\ n > 0 /\ issued + n <= MaxLegs
  /\ existing # {} => replace_existing
  /\ \A l \in existing : leg[l].status \notin Protected
  /\ leg' = legs /\ issued' = issued + n
  /\ DeriveWork(c, legs, stop) /\ DeriveStatus(legs)
  /\ UNCHANGED <<tripVars, hook>>

(* Mutant: the copy is inserted and the leg stays as it was. *)
ReissueDryRun_KeepOriginal(l) ==
  /\ Idle /\ Active(l) /\ issued < MaxLegs
  /\ leg[l].status \in Reissuable
  /\ leg' = [leg EXCEPT
               ![issued + 1] = NewLeg(leg[l].container_id, NoDriver, l)]
  /\ issued' = issued + 1
  /\ Owe(leg[l].container_id, TRUE)
  /\ UNCHANGED <<tripVars, order, work, staleOrder, staleWork>>

(* reissue_dry_run: the leg ends as DRY_RUN, a PENDING copy takes over.    *)
ReissueDryRun(l) ==
  /\ Idle /\ Active(l) /\ issued < MaxLegs
  /\ leg[l].status \in Reissuable
  /\ leg' = [leg EXCEPT ![l].status = "DRY_RUN",
                        ![issued + 1] = NewLeg(leg[l].container_id, NoDriver, l)]
  /\ issued' = issued + 1
  /\ Owe(leg[l].container_id, TRUE)
  /\ UNCHANGED <<tripVars, order, work, staleOrder, staleWork>>

(* delete: soft, with both derivations in the transaction, in one try that *)
(* swallows what they raise.  The deletion is committed all the same, with *)
(* neither of them done if that of the container fails.                    *)
DeleteLeg(l) ==
  LET c    == leg[l].container_id
      row  == [leg[l] EXCEPT !.is_active = FALSE]
      legs == [leg EXCEPT ![l] = row]
  IN
  /\ Idle /\ Active(l)
  /\ leg' = legs
  /\ \/ DeriveWork(c, legs, stop) /\ DeriveStatus(legs)
     \/ DeriveWork(c, legs, stop) /\ SkipStatus(leg[l], row)
     \/ SkipWork({c}) /\ SkipStatus(leg[l], row)
  /\ UNCHANGED <<issued, tripVars, hook>>

(* delete_bulk: soft, no derivation. *)
DeleteLegBulk(l) ==
  LET row == [leg[l] EXCEPT !.is_active = FALSE] IN
  /\ Idle /\ Active(l)
  /\ leg' = [leg EXCEPT ![l] = row]
  /\ SkipWork({leg[l].container_id}) /\ SkipStatus(leg[l], row)
  /\ UNCHANGED <<issued, tripVars, hook>>

(* transition: an edge of the graph; only COMPLETED owes a derivation, and *)
(* none is ever owed for the order.                                        *)
TransitionLeg(l, target) ==
  LET row == [leg[l] EXCEPT !.status = target] IN
  /\ Idle /\ Active(l)
  /\ <<leg[l].status, target>> \in LegEdge
  /\ leg' = [leg EXCEPT ![l] = row]
  /\ IF target = "COMPLETED"
     THEN Owe(row.container_id, FALSE) /\ UNCHANGED <<work, staleWork>>
     ELSE SkipWork({row.container_id}) /\ UNCHANGED hook
  /\ SkipStatus(leg[l], row)
  /\ UNCHANGED <<issued, tripVars>>

-----------------------------------------------------------------------------
(* Drivers.  DriverMobileService, service_v3, LegDriverSegmentService *)

(* checkpoint_leg: transition of a leg that is the driver's own.           *)
Checkpoint(d, l, target) ==
  leg[l].driver_id = d /\ TransitionLeg(l, target)

AcceptOffer(d, l) ==
  /\ Idle /\ Active(l) /\ leg[l].driver_id = d
  /\ ~leg[l].accepted /\ ~leg[l].rejected
  /\ leg' = [leg EXCEPT ![l] = Accepted(@)]
  /\ UNCHANGED <<issued, tripVars, order, work, hook, staleOrder, staleWork>>

(* Mutant: an accepted offer can still be rejected.                        *)
RejectOffer_Late(d, l) ==
  /\ Idle /\ Active(l) /\ leg[l].driver_id = d
  /\ leg' = [leg EXCEPT ![l] = Rejected(@)]
  /\ SkipStatus(leg[l], Rejected(leg[l]))
  /\ UNCHANGED <<issued, tripVars, work, hook, staleWork>>

(* reject_offer clears the driver, keeps the status and derives nothing.   *)
RejectOffer(d, l) ==
  /\ Idle /\ Active(l) /\ leg[l].driver_id = d
  /\ ~leg[l].accepted
  /\ leg' = [leg EXCEPT ![l] = Rejected(@)]
  /\ SkipStatus(leg[l], Rejected(leg[l]))
  /\ UNCHANGED <<issued, tripVars, work, hook, staleWork>>

(* report_stop_arrive and report_stop_depart: both fill actual_arrival if  *)
(* it is empty, for a driver with an active leg of the container.          *)
ReportStop(d, s) ==
  LET stops == [stop EXCEPT ![s].arrived = TRUE] IN
  /\ Idle /\ stop[s].is_active
  /\ \E r \in ActiveLegs(leg, stop[s].container_id) : r.driver_id = d
  /\ stop' = stops
  /\ DeriveWork(stop[s].container_id, leg, stops)
  /\ UNCHANGED <<legVars, live, order, hook, staleOrder>>

(* create, update and delete of a driver segment end in                    *)
(* _refresh_leg_active_driver: the leg, active or not, takes the driver of *)
(* its last segment, which is d or none at all.  The segments themselves   *)
(* are not modelled.                                                       *)
RefreshActiveDriver(l, d) ==
  LET row == [leg[l] EXCEPT !.driver_id = d] IN
  /\ Idle /\ l \in 1 .. issued
  /\ leg' = [leg EXCEPT ![l] = row]
  /\ SkipStatus(leg[l], row)
  /\ UNCHANGED <<issued, tripVars, work, hook, staleWork>>

-----------------------------------------------------------------------------
(* Stops.  ContainerStopService; every operation derives in its transaction *)

(* The unique key (container_id, sequence_no) counts inactive rows too.    *)
UniqueSequence(stops) ==
  \A s, t \in Stop :
     /\ s # t /\ stops[s].sequence_no = stops[t].sequence_no
     /\ stops[s].container_id = stops[t].container_id
     => stops[s].sequence_no = 0

(* A stop is kept, and its container derived, by this transaction.         *)
SaveStops(c, stops) ==
  /\ Idle
  /\ UniqueSequence(stops)
  /\ stop' = stops
  /\ DeriveWork(c, leg, stops)
  /\ UNCHANGED <<legVars, live, order, hook, staleOrder>>

(* create: n is the sequence number asked for, or the next free one.       *)
CreateStop(s, c, n, arrived) ==
  /\ stop[s].sequence_no = 0
  /\ SaveStops(c, [stop EXCEPT ![s] = [is_active |-> TRUE, container_id |-> c,
                                       sequence_no |-> n, arrived |-> arrived]])

UpdateStop(s, n, arrived) ==
  /\ stop[s].is_active
  /\ SaveStops(stop[s].container_id,
               [stop EXCEPT ![s].sequence_no = n, ![s].arrived = arrived])

(* reorder: the stops in S, which may be inactive, are renumbered by f.    *)
ReorderStops(c, S, f) ==
  /\ S # {}
  /\ \A s \in S : stop[s].container_id = c /\ stop[s].sequence_no # 0
  /\ SaveStops(c, [s \in Stop |-> IF s \in S
                                  THEN [stop[s] EXCEPT !.sequence_no = f[s]]
                                  ELSE stop[s]])

DeleteStop(s) ==
  /\ stop[s].is_active
  /\ SaveStops(stop[s].container_id, [stop EXCEPT ![s].is_active = FALSE])

-----------------------------------------------------------------------------
(* The order and its containers.  DeliveryOrderService, ContainerService *)

(* transition: a manual edge, on hold and cancelled or not.  The order is  *)
(* where the dispatcher put it until the next derivation.                  *)
TransitionOrder(target) ==
  /\ Idle /\ order.is_active
  /\ <<order.status, target>> \in OrderEdge
  /\ order' = [order EXCEPT !.status = target]
  /\ staleOrder' = TRUE
  /\ UNCHANGED <<legVars, tripVars, work, hook, staleWork>>

(* set_hold: legs may change while the order is on hold, and lifting the   *)
(* hold derives nothing.                                                   *)
SetHold(on_hold) ==
  /\ Idle /\ order.is_active /\ ~order.cancelled
  /\ order' = [order EXCEPT !.is_on_hold = on_hold]
  /\ staleOrder' = (staleOrder \/ order.is_on_hold)
  /\ UNCHANGED <<legVars, tripVars, work, hook, staleWork>>

(* Mutant: cancelling leaves the hold on. *)
CancelOrder_KeepHold ==
  /\ Idle /\ order.is_active /\ ~order.cancelled
  /\ order' = [order EXCEPT !.cancelled = TRUE]
  /\ UNCHANGED <<legVars, tripVars, work, hook, staleOrder, staleWork>>

CancelOrder ==
  /\ Idle /\ order.is_active /\ ~order.cancelled
  /\ order' = [order EXCEPT !.cancelled = TRUE, !.is_on_hold = FALSE]
  /\ UNCHANGED <<legVars, tripVars, work, hook, staleOrder, staleWork>>

(* delete, and delete_bulk, of the order: its legs and containers stay.    *)
DeleteOrder ==
  /\ Idle /\ order.is_active
  /\ order' = [order EXCEPT !.is_active = FALSE]
  /\ UNCHANGED <<legVars, tripVars, work, hook, staleOrder, staleWork>>

(* delete, and delete_bulk, of a container: its legs and stops stay.       *)
DeleteContainer(c) ==
  /\ Idle /\ c \in live
  /\ live' = live \ {c}
  /\ UNCHANGED <<legVars, stop, order, work, hook, staleOrder, staleWork>>

-----------------------------------------------------------------------------
(* Derivations after the commit *)

DeriveContainer ==
  /\ hook.container # NoContainer
  /\ DeriveWork(hook.container, leg, stop)
  /\ hook' = [hook EXCEPT !.container = NoContainer]
  /\ UNCHANGED <<legVars, tripVars, order, staleOrder>>

DeriveOrder ==
  /\ hook.container = NoContainer /\ hook.order
  /\ DeriveStatus(leg)
  /\ hook' = NoHook
  /\ UNCHANGED <<legVars, tripVars, work, staleWork>>

(* The next derivation fails: rolled back, its exception swallowed.  A     *)
(* process that dies loses all that is owed, one after the other.          *)
LoseHook ==
  /\ hook # NoHook
  /\ IF hook.container # NoContainer
     THEN /\ hook' = [hook EXCEPT !.container = NoContainer]
          /\ staleWork' = staleWork \cup {hook.container}
          /\ UNCHANGED staleOrder
     ELSE hook' = NoHook /\ staleOrder' = TRUE /\ UNCHANGED staleWork
  /\ UNCHANGED <<legVars, tripVars, order, work>>

-----------------------------------------------------------------------------

SomeContainer == Container \cup {NoContainer}
SomeDriver    == Driver \cup {NoDriver}

LegStep ==
  \/ \E c \in SomeContainer, d \in SomeDriver :
        CreateLeg(c, d) \/ CreateLegBulk(c, d)
  \/ \E l \in LegId, d \in SomeDriver, c \in SomeContainer :
        UpdateLeg(l, d, c) \/ UpdateLegBulk(l, d, c)
  \/ \E l \in LegId, d \in Driver : AssignDriver(l, d)
  \/ \E c \in Container, n \in LegId, replace_existing \in BOOLEAN :
        ApplyLoadType(c, n, replace_existing)
  \/ \E l \in LegId :
        \/ UnassignDriver(l) \/ ReissueDryRun(l)
        \/ DeleteLeg(l)      \/ DeleteLegBulk(l)
  \/ \E l \in LegId, target \in LegStatus : TransitionLeg(l, target)

DriverStep ==
  \/ \E d \in Driver, l \in LegId, target \in LegStatus :
        Checkpoint(d, l, target)
  \/ \E d \in Driver, l \in LegId : AcceptOffer(d, l) \/ RejectOffer(d, l)
  \/ \E d \in Driver, s \in Stop : ReportStop(d, s)
  \/ \E l \in LegId, d \in SomeDriver : RefreshActiveDriver(l, d)

StopStep ==
  \/ \E s \in Stop, c \in Container, n \in 1 .. MaxSeq, arrived \in BOOLEAN :
        CreateStop(s, c, n, arrived)
  \/ \E s \in Stop, n \in 1 .. MaxSeq, arrived \in BOOLEAN :
        UpdateStop(s, n, arrived)
  \/ \E c \in Container, S \in SUBSET Stop :
        \E f \in [S -> 1 .. MaxSeq] : ReorderStops(c, S, f)
  \/ \E s \in Stop : DeleteStop(s)

OrderStep ==
  \/ \E target \in DeliveryStatus : TransitionOrder(target)
  \/ \E on_hold \in BOOLEAN : SetHold(on_hold)
  \/ CancelOrder
  \/ DeleteOrder
  \/ \E c \in Container : DeleteContainer(c)

HookStep == DeriveContainer \/ DeriveOrder \/ LoseHook

Next == LegStep \/ DriverStep \/ StopStep \/ OrderStep \/ HookStep

Spec == Init /\ [][Next]_vars

-----------------------------------------------------------------------------
(* Safety *)

(* The reissues of a leg form a chain: the copy is younger than the leg it *)
(* replaces, that leg ended as DRY_RUN, no leg is replaced twice and none  *)
(* ends as DRY_RUN without a replacement (reissue_dry_run).                *)
ReissueLineage ==
  \A l \in LegId :
     LET orig == leg[l].reissued_from IN
     /\ orig # 0 => orig < l /\ leg[orig].status = "DRY_RUN"
     /\ \A k \in LegId \ {l} : orig # 0 => leg[k].reissued_from # orig
     /\ leg[l].status = "DRY_RUN" => \E k \in LegId : leg[k].reissued_from = l

(* A driver answers an offer once: no leg was both accepted and rejected,  *)
(* however it was reassigned in between (accept_offer, reject_offer).      *)
OneAnswer == \A l \in LegId : ~(leg[l].accepted /\ leg[l].rejected)

(* A cancelled order is not on hold: cancel clears the hold and set_hold   *)
(* refuses a cancelled order.                                              *)
CancelledNotHeld == order.cancelled => ~order.is_on_hold

(* While the order is in its automatic phase, no derivation is owed and    *)
(* none was skipped or lost, its status is the one compute_dispatch_status *)
(* gives for its legs.                                                     *)
OrderAgrees ==
  AutoDerived(order) /\ ~staleOrder /\ ~hook.order
     => order.status = DispatchStatus(Rows(leg))

(* Likewise for the work_state of a container, its stops and its legs      *)
(* (derive_and_save_state).                                                *)
WorkAgrees ==
  \A c \in Container :
     c \notin staleWork /\ hook.container # c /\ work[c] \notin ManualWork
        => work[c] = DerivedWork(ActiveStops(stop, c), ActiveLegs(leg, c))

-----------------------------------------------------------------------------
(* Action properties *)

(* Whatever the request, the status of a leg moves along the graph of      *)
(* leg/state_machine.py or ends as DRY_RUN with a reissue inserted by the  *)
(* same step: assigning, accepting or deleting never resurrects a leg.     *)
StatusMoves(l) ==
  \/ <<leg[l].status, leg'[l].status>> \in LegEdge
  \/ /\ leg[l].status \in {"ASSIGNED", "IN_TRANSIT"}
     /\ leg'[l].status = "DRY_RUN"
     /\ issued' = issued + 1 /\ leg'[issued'].reissued_from = l

RespectsGraph ==
  [][\A l \in LegId : leg'[l].status # leg[l].status => StatusMoves(l)]_vars

(* A request that inserts legs never deactivates one that is under way or  *)
(* done (apply_load_type with replace_existing).                           *)
UnderWay(l) == leg[l].is_active /\ leg[l].status \in {"IN_TRANSIT", "COMPLETED"}

GenerationKeepsProtected ==
  [][issued' # issued => \A l \in LegId : UnderWay(l) => leg'[l].is_active]_vars

(* A derivation never moves an order that is on hold, cancelled or past    *)
(* its dispatch phase, and never moves one out of that phase: such a move  *)
(* is a manual edge, in a step that touches no leg and no hook.            *)
OrderMoves ==
  \/ /\ <<order.status, order'.status>> \in OrderEdge
     /\ UNCHANGED <<leg, stop, hook>>
  \/ /\ {order.status, order'.status}
           \subseteq {"PLANNING", "DISPATCHING", "DISPATCHED"}
     /\ ~order.is_on_hold /\ ~order.cancelled

AutomationNeverOverrides == [][order'.status # order.status => OrderMoves]_vars
=============================================================================
