--------------------------- MODULE DispatchProofs ---------------------------
(***************************************************************************)
(* Theorems about Dispatch, for every number of legs, drivers, containers  *)
(* and stops: its types and the status of the order, then what a history   *)
(* of requests can make of a leg and of the state of a container.          *)
(***************************************************************************)
EXTENDS Dispatch, TLAPS

USE NullAssumption, BoundAssumption

-----------------------------------------------------------------------------
(* Type correctness of the operators *)

(* A freshly inserted leg is a leg row. *)
LEMMA NewLegType ==
  ASSUME NEW c \in Container \cup {NoContainer},
         NEW d \in Driver \cup {NoDriver},
         NEW orig \in LegId \cup {0}
  PROVE  NewLeg(c, d, orig) \in LegRow
BY DEF NewLeg, LegRow, LegStatus

(* So is the row no leg has yet. *)
LEMMA BlankLegType == BlankLeg \in LegRow
BY NewLegType DEF BlankLeg, NewLeg, LegRow, LegStatus

(* The row transformers of assigning, unassigning and answering keep a leg *)
(* row a leg row.                                                          *)
LEMMA AssignedType ==
  ASSUME NEW row \in LegRow, NEW d \in Driver
  PROVE  Assigned(row, d) \in LegRow
BY DEF Assigned, LegRow, LegStatus

LEMMA AnsweredType ==
  ASSUME NEW row \in LegRow
  PROVE  /\ Unassigned(row) \in LegRow
         /\ Accepted(row) \in LegRow
         /\ Rejected(row) \in LegRow
BY DEF Unassigned, Accepted, Rejected, LegRow, LegStatus

(* So do the edits of single columns. *)
LEMMA EditedType ==
  ASSUME NEW row \in LegRow
  PROVE  /\ row.container_id \in SomeContainer
         /\ [row EXCEPT !.is_active = FALSE] \in LegRow
         /\ \A target \in LegStatus : [row EXCEPT !.status = target] \in LegRow
         /\ \A d \in SomeDriver : [row EXCEPT !.driver_id = d] \in LegRow
         /\ \A d \in SomeDriver, c \in SomeContainer :
              [row EXCEPT !.driver_id = d, !.container_id = c] \in LegRow
BY DEF LegRow, SomeDriver, SomeContainer

(* The derivation of an order only ever moves it inside its dispatch phase.*)
LEMMA DerivedOrderType ==
  ASSUME NEW do \in OrderRow, NEW rows
  PROVE  /\ DispatchStatus(rows) \in DispatchPhase
         /\ DerivedOrder(do, rows) \in OrderRow
BY DEF DispatchStatus, DerivedOrder, DispatchPhase, OrderRow, DeliveryStatus

(* The derivation of a container gives a work state. *)
LEMMA DerivedWorkType ==
  ASSUME NEW stops, NEW legs
  PROVE  DerivedWork(stops, legs) \in WorkState
BY DEF DerivedWork, WorkState

LEMMA RederivedType ==
  ASSUME TypeOK, NEW c, NEW legs, NEW stops
  PROVE  Rederived(c, legs, stops) \in [Container -> WorkState]
BY DerivedWorkType DEF Rederived, TypeOK

-----------------------------------------------------------------------------
(* Type correctness *)

LEMMA InitTypeOK == Init => TypeOK
<1> SUFFICES ASSUME Init PROVE TypeOK
  OBVIOUS
<1>1. leg \in [LegId -> LegRow]
  BY BlankLegType DEF Init
<1>2. order \in OrderRow
  BY DEF Init, OrderRow, DeliveryStatus
<1>3. stop \in [Stop -> StopRow]
  BY DEF Init, StopRow, BlankStop
<1>4. work \in [Container -> WorkState]
  BY DEF Init, WorkState
<1>5. hook \in [container : Container \cup {NoContainer}, order : BOOLEAN]
  BY DEF Init, NoHook
<1>6. issued \in 0 .. MaxLegs
  BY DEF Init
<1>7. staleOrder \in BOOLEAN
  BY DEF Init
<1>8. live \subseteq Container /\ staleWork \subseteq Container
  BY DEF Init
<1> QED
  BY <1>1, <1>2, <1>3, <1>4, <1>5, <1>6, <1>7, <1>8 DEF TypeOK

(* What a derivation or its absence does to the derived columns. *)
LEMMA DerivationType ==
  ASSUME TypeOK, NEW c, NEW legs, NEW stops, NEW before, NEW after, NEW cs
  PROVE  /\ DeriveWork(c, legs, stops) =>
              work' \in [Container -> WorkState] /\ staleWork' \subseteq Container
         /\ SkipWork(cs) =>
              work' \in [Container -> WorkState] /\ staleWork' \subseteq Container
         /\ DeriveStatus(legs) => order' \in OrderRow /\ staleOrder' \in BOOLEAN
         /\ SkipStatus(before, after) =>
              order' \in OrderRow /\ staleOrder' \in BOOLEAN
<1>1. DeriveWork(c, legs, stops) =>
        work' \in [Container -> WorkState] /\ staleWork' \subseteq Container
  BY RederivedType DEF DeriveWork, TypeOK
<1>2. SkipWork(cs) =>
        work' \in [Container -> WorkState] /\ staleWork' \subseteq Container
  BY DEF SkipWork, TypeOK
<1>3. DeriveStatus(legs) => order' \in OrderRow /\ staleOrder' \in BOOLEAN
  <2>1. order \in OrderRow /\ staleOrder \in BOOLEAN
    BY DEF TypeOK
  <2>2. DeriveStatus(legs) => order' \in OrderRow
    BY <2>1, DerivedOrderType DEF DeriveStatus
  <2>3. DeriveStatus(legs) => staleOrder' \in BOOLEAN
    BY <2>1 DEF DeriveStatus
  <2> QED
    BY <2>2, <2>3
<1>4. SkipStatus(before, after) => order' \in OrderRow /\ staleOrder' \in BOOLEAN
  <2>1. order \in OrderRow /\ staleOrder \in BOOLEAN
    BY DEF TypeOK
  <2>2. SkipStatus(before, after) => order' \in OrderRow
    BY <2>1 DEF SkipStatus
  <2>3. SkipStatus(before, after) => staleOrder' \in BOOLEAN
    BY <2>1 DEF SkipStatus
  <2> QED
    BY <2>2, <2>3
<1> QED
  BY <1>1, <1>2, <1>3, <1>4

(* A request on legs keeps every table well formed. *)
LEMMA LegStepTypeOK ==
  ASSUME TypeOK, LegStep
  PROVE  TypeOK'
<1> USE DEF TypeOK
<1>1. ASSUME NEW c \in SomeContainer, NEW d \in SomeDriver, CreateLeg(c, d)
      PROVE  TypeOK'
  <2>1. NewLeg(c, d, 0) \in LegRow
    BY NewLegType DEF SomeContainer, SomeDriver
  <2>2. leg' \in [LegId -> LegRow] /\ issued' \in 0 .. MaxLegs
    BY <1>1, <2>1 DEF CreateLeg, LegId
  <2>3. /\ work' \in [Container -> WorkState] /\ staleWork' \subseteq Container
        /\ order' \in OrderRow /\ staleOrder' \in BOOLEAN
    BY <1>1, DerivationType DEF CreateLeg
  <2> QED
    BY <1>1, <2>2, <2>3 DEF CreateLeg, tripVars
<1>2. ASSUME NEW c \in SomeContainer, NEW d \in SomeDriver, CreateLegBulk(c, d)
      PROVE  TypeOK'
  <2>1. NewLeg(c, d, 0) \in LegRow
    BY NewLegType DEF SomeContainer, SomeDriver
  <2>2. leg' \in [LegId -> LegRow] /\ issued' \in 0 .. MaxLegs
    BY <1>2, <2>1 DEF CreateLegBulk, LegId
  <2>3. /\ work' \in [Container -> WorkState] /\ staleWork' \subseteq Container
        /\ order' \in OrderRow /\ staleOrder' \in BOOLEAN
    BY <1>2, DerivationType DEF CreateLegBulk
  <2> QED
    BY <1>2, <2>2, <2>3 DEF CreateLegBulk, tripVars
<1>3. ASSUME NEW l \in LegId, NEW d \in SomeDriver, NEW c \in SomeContainer,
             UpdateLeg(l, d, c)
      PROVE  TypeOK'
  <2>1. [leg[l] EXCEPT !.driver_id = d, !.container_id = c] \in LegRow
    BY EditedType
  <2>2. leg' \in [LegId -> LegRow]
    BY <1>3, <2>1 DEF UpdateLeg
  <2>3. work' \in [Container -> WorkState]
    BY <1>3, RederivedType DEF UpdateLeg
  <2>4. leg[l].container_id \in Container \cup {NoContainer}
    BY EditedType DEF SomeContainer
  <2>5. staleWork' \subseteq Container
    BY <1>3, <2>4 DEF UpdateLeg
  <2>6. order' \in OrderRow /\ staleOrder' \in BOOLEAN
    BY <1>3, DerivationType DEF UpdateLeg
  <2> QED
    BY <1>3, <2>2, <2>3, <2>5, <2>6 DEF UpdateLeg, tripVars
<1>4. ASSUME NEW l \in LegId, NEW d \in SomeDriver, NEW c \in SomeContainer,
             UpdateLegBulk(l, d, c)
      PROVE  TypeOK'
  <2>1. [leg[l] EXCEPT !.driver_id = d, !.container_id = c] \in LegRow
    BY EditedType
  <2>2. leg' \in [LegId -> LegRow]
    BY <1>4, <2>1 DEF UpdateLegBulk
  <2>3. /\ work' \in [Container -> WorkState] /\ staleWork' \subseteq Container
        /\ order' \in OrderRow /\ staleOrder' \in BOOLEAN
    BY <1>4, DerivationType DEF UpdateLegBulk
  <2> QED
    BY <1>4, <2>2, <2>3 DEF UpdateLegBulk, tripVars
<1>5. ASSUME NEW l \in LegId, NEW row \in LegRow,
             leg' = [leg EXCEPT ![l] = row], Owe(leg[l].container_id, TRUE),
             UNCHANGED <<issued, tripVars, order, work, staleOrder, staleWork>>
      PROVE  TypeOK'
  <2>1. leg[l].container_id \in Container \cup {NoContainer}
    BY EditedType DEF SomeContainer
  <2>2. hook' \in [container : Container \cup {NoContainer}, order : BOOLEAN]
    BY <1>5, <2>1 DEF Owe
  <2>3. leg' \in [LegId -> LegRow]
    BY <1>5
  <2> QED
    BY <1>5, <2>2, <2>3 DEF tripVars
<1>6. ASSUME NEW l \in LegId, NEW d \in Driver, AssignDriver(l, d)
      PROVE  TypeOK'
  BY <1>5, <1>6, AssignedType DEF AssignDriver
<1>7. ASSUME NEW l \in LegId, UnassignDriver(l)
      PROVE  TypeOK'
  BY <1>5, <1>7, AnsweredType DEF UnassignDriver
<1>8. ASSUME NEW c \in Container, NEW n \in LegId,
             NEW replace_existing \in BOOLEAN,
             ApplyLoadType(c, n, replace_existing)
      PROVE  TypeOK'
  <2>1. NewLeg(c, NoDriver, 0) \in LegRow
    BY NewLegType
  <2>2. \A l \in LegId : [leg[l] EXCEPT !.is_active = FALSE] \in LegRow
    BY EditedType
  <2>3. leg' \in [LegId -> LegRow]
    BY <1>8, <2>1, <2>2 DEF ApplyLoadType
  <2>4. issued' \in 0 .. MaxLegs
    BY <1>8 DEF ApplyLoadType, LegId
  <2>5. /\ work' \in [Container -> WorkState] /\ staleWork' \subseteq Container
        /\ order' \in OrderRow /\ staleOrder' \in BOOLEAN
    BY <1>8, DerivationType DEF ApplyLoadType
  <2> QED
    BY <1>8, <2>3, <2>4, <2>5 DEF ApplyLoadType, tripVars
<1>9. ASSUME NEW l \in LegId, ReissueDryRun(l)
      PROVE  TypeOK'
  <2>1. leg[l].container_id \in Container \cup {NoContainer}
    BY EditedType DEF SomeContainer
  <2>2. NewLeg(leg[l].container_id, NoDriver, l) \in LegRow
    BY <2>1, NewLegType
  <2>3. [leg[l] EXCEPT !.status = "DRY_RUN"] \in LegRow
    BY EditedType DEF LegStatus
  <2>4. leg' \in [LegId -> LegRow]
    BY <1>9, <2>2, <2>3 DEF ReissueDryRun
  <2>5. hook' \in [container : Container \cup {NoContainer}, order : BOOLEAN]
    BY <1>9, <2>1 DEF ReissueDryRun, Owe
  <2>6. issued' \in 0 .. MaxLegs
    BY <1>9 DEF ReissueDryRun, LegId
  <2> QED
    BY <1>9, <2>4, <2>5, <2>6 DEF ReissueDryRun, tripVars
<1>10. ASSUME NEW l \in LegId, DeleteLeg(l) \/ DeleteLegBulk(l)
       PROVE  TypeOK'
  <2>1. [leg[l] EXCEPT !.is_active = FALSE] \in LegRow
    BY EditedType
  <2>2. leg' \in [LegId -> LegRow]
    BY <1>10, <2>1 DEF DeleteLeg, DeleteLegBulk
  <2>3. /\ work' \in [Container -> WorkState] /\ staleWork' \subseteq Container
        /\ order' \in OrderRow /\ staleOrder' \in BOOLEAN
    BY <1>10, DerivationType DEF DeleteLeg, DeleteLegBulk
  <2> QED
    BY <1>10, <2>2, <2>3 DEF DeleteLeg, DeleteLegBulk, tripVars
<1>11. ASSUME NEW l \in LegId, NEW target \in LegStatus, TransitionLeg(l, target)
       PROVE  TypeOK'
  <2>1. [leg[l] EXCEPT !.status = target] \in LegRow
    BY EditedType
  <2>2. leg[l].container_id \in Container \cup {NoContainer}
    BY EditedType DEF SomeContainer
  <2>3. leg' \in [LegId -> LegRow]
    BY <1>11, <2>1 DEF TransitionLeg
  <2>4. order' \in OrderRow /\ staleOrder' \in BOOLEAN
    BY <1>11, DerivationType DEF TransitionLeg
  <2>5. work' \in [Container -> WorkState] /\ staleWork' \subseteq Container
    BY <1>11, DerivationType DEF TransitionLeg
  <2>6. hook' = hook \/ Owe(leg[l].container_id, FALSE)
    <3>1. [leg[l] EXCEPT !.status = target].container_id = leg[l].container_id
      BY DEF LegRow
    <3> QED
      BY <1>11, <3>1 DEF TransitionLeg
  <2>7. hook' \in [container : Container \cup {NoContainer}, order : BOOLEAN]
    <3>1. CASE hook' = hook
      BY <3>1
    <3>2. CASE Owe(leg[l].container_id, FALSE)
      BY <2>2, <3>2 DEF Owe
    <3> QED
      BY <2>6, <3>1, <3>2
  <2> QED
    BY <1>11, <2>3, <2>4, <2>5, <2>7 DEF TransitionLeg, tripVars
<1> QED
  BY <1>1, <1>2, <1>3, <1>4, <1>6, <1>7, <1>8, <1>9, <1>10, <1>11 DEF LegStep

(* So does a request of a driver. *)
LEMMA DriverStepTypeOK ==
  ASSUME TypeOK, DriverStep
  PROVE  TypeOK'
<1> USE DEF TypeOK
<1>1. ASSUME NEW d \in Driver, NEW l \in LegId, NEW target \in LegStatus,
             Checkpoint(d, l, target)
      PROVE  TypeOK'
  BY <1>1, LegStepTypeOK DEF Checkpoint, LegStep
<1>2. ASSUME NEW d \in Driver, NEW l \in LegId, AcceptOffer(d, l)
      PROVE  TypeOK'
  <2>1. leg' \in [LegId -> LegRow]
    BY <1>2, AnsweredType DEF AcceptOffer
  <2> QED
    BY <1>2, <2>1 DEF AcceptOffer, tripVars
<1>3. ASSUME NEW d \in Driver, NEW l \in LegId, RejectOffer(d, l)
      PROVE  TypeOK'
  <2>1. leg' \in [LegId -> LegRow]
    BY <1>3, AnsweredType DEF RejectOffer
  <2>2. order' \in OrderRow /\ staleOrder' \in BOOLEAN
    BY <1>3, DerivationType DEF RejectOffer
  <2> QED
    BY <1>3, <2>1, <2>2 DEF RejectOffer, tripVars
<1>4. ASSUME NEW d \in Driver, NEW s \in Stop, ReportStop(d, s)
      PROVE  TypeOK'
  <2>1. \A r \in StopRow : [r EXCEPT !.arrived = TRUE] \in StopRow
    BY DEF StopRow
  <2>2. stop' \in [Stop -> StopRow]
    BY <1>4, <2>1 DEF ReportStop
  <2>3. work' \in [Container -> WorkState] /\ staleWork' \subseteq Container
    BY <1>4, DerivationType DEF ReportStop
  <2> QED
    BY <1>4, <2>2, <2>3 DEF ReportStop, legVars
<1>5. ASSUME NEW l \in LegId, NEW d \in SomeDriver, RefreshActiveDriver(l, d)
      PROVE  TypeOK'
  <2>1. leg' \in [LegId -> LegRow]
    BY <1>5, EditedType DEF RefreshActiveDriver
  <2>2. order' \in OrderRow /\ staleOrder' \in BOOLEAN
    BY <1>5, DerivationType DEF RefreshActiveDriver
  <2> QED
    BY <1>5, <2>1, <2>2 DEF RefreshActiveDriver, tripVars
<1> QED
  BY <1>1, <1>2, <1>3, <1>4, <1>5 DEF DriverStep

(* An operation on stops that keeps the stop table well formed keeps all.  *)
LEMMA SaveStopsTypeOK ==
  ASSUME TypeOK, NEW c, NEW stops \in [Stop -> StopRow], SaveStops(c, stops)
  PROVE  TypeOK'
<1>1. work' \in [Container -> WorkState] /\ staleWork' \subseteq Container
  BY DerivationType DEF SaveStops
<1> QED
  BY <1>1 DEF SaveStops, TypeOK, legVars

LEMMA StopStepTypeOK ==
  ASSUME TypeOK, StopStep
  PROVE  TypeOK'
<1>0. stop \in [Stop -> StopRow]
  BY DEF TypeOK
<1>1. ASSUME NEW s \in Stop, NEW c \in Container, NEW n \in 1 .. MaxSeq,
             NEW arrived \in BOOLEAN, CreateStop(s, c, n, arrived)
      PROVE  TypeOK'
  <2>1. [is_active |-> TRUE, container_id |-> c, sequence_no |-> n,
         arrived |-> arrived] \in StopRow
    BY DEF StopRow
  <2> QED
    BY <1>0, <1>1, <2>1, SaveStopsTypeOK DEF CreateStop
<1>2. ASSUME NEW s \in Stop, NEW n \in 1 .. MaxSeq, NEW arrived \in BOOLEAN,
             UpdateStop(s, n, arrived)
      PROVE  TypeOK'
  <2>1. \A r \in StopRow :
          [r EXCEPT !.sequence_no = n, !.arrived = arrived] \in StopRow
    <3>1. \A r \in StopRow : [r EXCEPT !.sequence_no = n] \in StopRow
      BY DEF StopRow
    <3>2. \A r \in StopRow : [r EXCEPT !.arrived = arrived] \in StopRow
      BY DEF StopRow
    <3>3. \A r : [r EXCEPT !.sequence_no = n, !.arrived = arrived]
                   = [[r EXCEPT !.sequence_no = n] EXCEPT !.arrived = arrived]
      OBVIOUS
    <3> QED
      BY <3>1, <3>2, <3>3
  <2>2. [stop EXCEPT ![s].sequence_no = n, ![s].arrived = arrived]
          \in [Stop -> StopRow]
    BY <1>0, <2>1
  <2> QED
    BY <1>2, <2>2, SaveStopsTypeOK DEF UpdateStop
<1>3. ASSUME NEW c \in Container, NEW S \in SUBSET Stop,
             NEW f \in [S -> 1 .. MaxSeq], ReorderStops(c, S, f)
      PROVE  TypeOK'
  <2>1. \A r \in StopRow, n \in 1 .. MaxSeq :
          [r EXCEPT !.sequence_no = n] \in StopRow
    BY DEF StopRow
  <2>2. [s \in Stop |-> IF s \in S THEN [stop[s] EXCEPT !.sequence_no = f[s]]
                        ELSE stop[s]] \in [Stop -> StopRow]
    BY <1>0, <2>1
  <2> QED
    BY <1>3, <2>2, SaveStopsTypeOK DEF ReorderStops
<1>4. ASSUME NEW s \in Stop, DeleteStop(s)
      PROVE  TypeOK'
  <2>1. \A r \in StopRow : [r EXCEPT !.is_active = FALSE] \in StopRow
    BY DEF StopRow
  <2>2. [stop EXCEPT ![s].is_active = FALSE] \in [Stop -> StopRow]
    BY <1>0, <2>1
  <2> QED
    BY <1>4, <2>2, SaveStopsTypeOK DEF DeleteStop
<1> QED
  BY <1>1, <1>2, <1>3, <1>4 DEF StopStep

(* The order, its containers and the hooks. *)
LEMMA OrderStepTypeOK ==
  ASSUME TypeOK, OrderStep
  PROVE  TypeOK'
<1>0. order \in OrderRow /\ staleOrder \in BOOLEAN
  BY DEF TypeOK
<1>1. ASSUME order' \in OrderRow, staleOrder' \in BOOLEAN, live' \subseteq Container,
             UNCHANGED <<legVars, stop, work, hook, staleWork>>
      PROVE  TypeOK'
  BY <1>1 DEF TypeOK, legVars
<1>2. ASSUME NEW target \in DeliveryStatus, TransitionOrder(target)
      PROVE  TypeOK'
  <2>1. order' \in OrderRow
    BY <1>0, <1>2 DEF TransitionOrder, OrderRow
  <2> QED
    BY <1>1, <1>2, <2>1 DEF TransitionOrder, TypeOK, tripVars
<1>3. ASSUME NEW on_hold \in BOOLEAN, SetHold(on_hold)
      PROVE  TypeOK'
  <2>1. order' \in OrderRow
    BY <1>0, <1>3 DEF SetHold, OrderRow
  <2>2. staleOrder' \in BOOLEAN
    BY <1>0, <1>3 DEF SetHold
  <2> QED
    BY <1>1, <1>3, <2>1, <2>2 DEF SetHold, TypeOK, tripVars
<1>4. ASSUME CancelOrder \/ DeleteOrder
      PROVE  TypeOK'
  <2>1. order' \in OrderRow
    BY <1>0, <1>4 DEF CancelOrder, DeleteOrder, OrderRow
  <2> QED
    BY <1>0, <1>1, <1>4, <2>1 DEF CancelOrder, DeleteOrder, TypeOK, tripVars
<1>5. ASSUME NEW c \in Container, DeleteContainer(c)
      PROVE  TypeOK'
  BY <1>0, <1>1, <1>5 DEF DeleteContainer, TypeOK
<1> QED
  BY <1>2, <1>3, <1>4, <1>5 DEF OrderStep

LEMMA HookStepTypeOK ==
  ASSUME TypeOK, HookStep
  PROVE  TypeOK'
<1>0. hook \in [container : Container \cup {NoContainer}, order : BOOLEAN]
  BY DEF TypeOK
<1>1. /\ NoHook \in [container : Container \cup {NoContainer}, order : BOOLEAN]
      /\ [hook EXCEPT !.container = NoContainer]
           \in [container : Container \cup {NoContainer}, order : BOOLEAN]
  BY <1>0 DEF NoHook
<1>2. CASE DeriveContainer
  <2>1. work' \in [Container -> WorkState] /\ staleWork' \subseteq Container
    BY <1>2, DerivationType DEF DeriveContainer
  <2> QED
    BY <1>1, <1>2, <2>1 DEF DeriveContainer, TypeOK, legVars, tripVars
<1>3. CASE DeriveOrder
  <2>1. order' \in OrderRow /\ staleOrder' \in BOOLEAN
    BY <1>3, DerivationType DEF DeriveOrder
  <2> QED
    BY <1>1, <1>3, <2>1 DEF DeriveOrder, TypeOK, legVars, tripVars
<1>4. CASE LoseHook
  <2>1. staleWork' \subseteq Container
    BY <1>0, <1>4 DEF LoseHook, TypeOK
  <2>2. staleOrder' \in BOOLEAN
    BY <1>4 DEF LoseHook, TypeOK
  <2>3. hook' \in [container : Container \cup {NoContainer}, order : BOOLEAN]
    BY <1>1, <1>4 DEF LoseHook
  <2> QED
    BY <1>4, <2>1, <2>2, <2>3 DEF LoseHook, TypeOK, legVars, tripVars
<1> QED
  BY <1>2, <1>3, <1>4 DEF HookStep

LEMMA StutterTypeOK ==
  ASSUME TypeOK, UNCHANGED vars
  PROVE  TypeOK'
BY DEF TypeOK, vars

(* Every variable keeps its type, whatever the sizes of the tables.        *)
THEOREM TypeCorrect == Spec => []TypeOK
<1>1. Init => TypeOK
  BY InitTypeOK
<1>2. TypeOK /\ [Next]_vars => TypeOK'
  BY LegStepTypeOK, DriverStepTypeOK, StopStepTypeOK, OrderStepTypeOK,
     HookStepTypeOK, StutterTypeOK DEF Next
<1> QED
  BY <1>1, <1>2, PTL DEF Spec

-----------------------------------------------------------------------------
(* The order agrees with its legs *)

(* The derived status sees of a leg only whether it is active and whether  *)
(* it needs a driver.                                                      *)
LEMMA DispatchStatusStable ==
  ASSUME NEW legs, NEW others,
         \A l \in LegId : /\ NeedsDriver(legs[l]) <=> NeedsDriver(others[l])
                          /\ legs[l].is_active <=> others[l].is_active
  PROVE  DispatchStatus(Rows(legs)) = DispatchStatus(Rows(others))
<1>1. (\A r \in Rows(legs) : ~r.is_active) <=> (\A r \in Rows(others) : ~r.is_active)
  BY DEF Rows
<1>2. (\E r \in Rows(legs) : NeedsDriver(r)) <=> (\E r \in Rows(others) : NeedsDriver(r))
  BY DEF Rows
<1> QED
  BY <1>1, <1>2 DEF DispatchStatus

(* A derivation makes the order agree with the legs it ran over.           *)
LEMMA DerivedAgrees ==
  ASSUME TypeOK, DeriveStatus(leg')
  PROVE  OrderAgrees'
<1>1. CASE AutoDerived(order)
  <2>1. order' = [order EXCEPT !.status = DispatchStatus(Rows(leg'))]
    BY <1>1 DEF DeriveStatus, DerivedOrder
  <2>2. order'.status = DispatchStatus(Rows(leg'))
    BY <2>1 DEF TypeOK, OrderRow
  <2> QED
    BY <2>2 DEF OrderAgrees
<1>2. CASE ~AutoDerived(order)
  <2>1. order' = order
    BY <1>2 DEF DeriveStatus, DerivedOrder
  <2> QED
    BY <1>2, <2>1 DEF OrderAgrees, AutoDerived
<1> QED
  BY <1>1, <1>2

(* A leg that changes without a derivation leaves the order agreeing with  *)
(* its legs, or leaves it marked.                                          *)
LEMMA SkippedAgrees ==
  ASSUME TypeOK, OrderAgrees, ~hook.order, NEW l \in LegId, NEW row,
         leg' = [leg EXCEPT ![l] = row], SkipStatus(leg[l], row)
  PROVE  OrderAgrees'
<1> SUFFICES ASSUME AutoDerived(order'), ~staleOrder'
             PROVE  order'.status = DispatchStatus(Rows(leg'))
  BY DEF OrderAgrees
<1>1. order' = order /\ ~staleOrder
  BY DEF SkipStatus
<1>2. /\ NeedsDriver(leg[l]) <=> NeedsDriver(row)
      /\ leg[l].is_active <=> row.is_active
  BY DEF SkipStatus
<1>3. \A k \in LegId : /\ NeedsDriver(leg[k]) <=> NeedsDriver(leg'[k])
                       /\ leg[k].is_active <=> leg'[k].is_active
  BY <1>2 DEF TypeOK
<1>4. DispatchStatus(Rows(leg)) = DispatchStatus(Rows(leg'))
  BY <1>3, DispatchStatusStable
<1> QED
  BY <1>1, <1>4 DEF OrderAgrees

(* A step that owes a derivation of the order promises nothing yet, and    *)
(* one that leaves legs, order and hook alone keeps what was promised.     *)
LEMMA OwedAgrees ==
  ASSUME hook'.order
  PROVE  OrderAgrees'
BY DEF OrderAgrees

LEMMA UntouchedAgrees ==
  ASSUME OrderAgrees, UNCHANGED <<leg, order, staleOrder>>,
         hook'.order <=> hook.order
  PROVE  OrderAgrees'
BY DEF OrderAgrees

LEMMA OrderAgreesStep ==
  ASSUME TypeOK, OrderAgrees, Next
  PROVE  OrderAgrees'
<1>0. Idle => ~hook.order
  BY DEF Idle, NoHook
<1>1. CASE LegStep
  <2>1. ASSUME NEW c \in SomeContainer, NEW d \in SomeDriver, CreateLeg(c, d)
        PROVE  OrderAgrees'
    BY <2>1, DerivedAgrees DEF CreateLeg
  <2>2. ASSUME NEW c \in SomeContainer, NEW d \in SomeDriver, CreateLegBulk(c, d)
        PROVE  OrderAgrees'
    <3>1. issued + 1 \in LegId
      BY <2>2 DEF CreateLegBulk, TypeOK, LegId
    <3> QED
      BY <1>0, <2>2, <3>1, SkippedAgrees DEF CreateLegBulk
  <2>3. ASSUME NEW l \in LegId, NEW d \in SomeDriver, NEW c \in SomeContainer,
               UpdateLeg(l, d, c) \/ UpdateLegBulk(l, d, c)
        PROVE  OrderAgrees'
    BY <1>0, <2>3, SkippedAgrees DEF UpdateLeg, UpdateLegBulk
  <2>4. ASSUME NEW c, Owe(c, TRUE)
        PROVE  OrderAgrees'
    BY <2>4, OwedAgrees DEF Owe
  <2>5. ASSUME NEW l \in LegId, NEW d \in Driver, AssignDriver(l, d)
        PROVE  OrderAgrees'
    BY <2>4, <2>5 DEF AssignDriver
  <2>6. ASSUME NEW l \in LegId, UnassignDriver(l) \/ ReissueDryRun(l)
        PROVE  OrderAgrees'
    BY <2>4, <2>6 DEF UnassignDriver, ReissueDryRun
  <2>7. ASSUME NEW c \in Container, NEW n \in LegId,
               NEW replace_existing \in BOOLEAN,
               ApplyLoadType(c, n, replace_existing)
        PROVE  OrderAgrees'
    <3>1. DeriveStatus(leg')
      BY <2>7 DEF ApplyLoadType
    <3> QED
      BY <3>1, DerivedAgrees
  <2>8. ASSUME NEW l \in LegId, DeleteLeg(l)
        PROVE  OrderAgrees'
    <3> DEFINE row == [leg[l] EXCEPT !.is_active = FALSE]
    <3>1. leg' = [leg EXCEPT ![l] = row] /\ ~hook.order
      BY <1>0, <2>8 DEF DeleteLeg
    <3>2. CASE DeriveStatus(leg')
      BY <3>2, DerivedAgrees
    <3>3. CASE SkipStatus(leg[l], row)
      BY <1>0, <3>1, <3>3, SkippedAgrees
    <3> QED
      BY <2>8, <3>2, <3>3 DEF DeleteLeg
  <2>9. ASSUME NEW l \in LegId, DeleteLegBulk(l)
        PROVE  OrderAgrees'
    BY <1>0, <2>9, SkippedAgrees DEF DeleteLegBulk
  <2>10. ASSUME NEW l \in LegId, NEW target \in LegStatus,
                TransitionLeg(l, target)
         PROVE  OrderAgrees'
    BY <1>0, <2>10, SkippedAgrees DEF TransitionLeg
  <2> QED
    BY <1>1, <2>1, <2>2, <2>3, <2>5, <2>6, <2>7, <2>8, <2>9, <2>10 DEF LegStep
<1>2. CASE DriverStep
  <2>1. ASSUME NEW d \in Driver, NEW l \in LegId, NEW target \in LegStatus,
               Checkpoint(d, l, target)
        PROVE  OrderAgrees'
    BY <1>0, <2>1, SkippedAgrees DEF Checkpoint, TransitionLeg
  <2>2. ASSUME NEW d \in Driver, NEW l \in LegId, AcceptOffer(d, l)
        PROVE  OrderAgrees'
    <3>1. leg[l] \in LegRow
      BY DEF TypeOK
    <3>2. /\ NeedsDriver(leg[l]) <=> NeedsDriver(Accepted(leg[l]))
          /\ leg[l].is_active <=> Accepted(leg[l]).is_active
      BY <3>1 DEF NeedsDriver, Accepted, LegRow
    <3>3. \A k \in LegId : /\ NeedsDriver(leg[k]) <=> NeedsDriver(leg'[k])
                           /\ leg[k].is_active <=> leg'[k].is_active
      BY <2>2, <3>2 DEF AcceptOffer, TypeOK
    <3>4. DispatchStatus(Rows(leg)) = DispatchStatus(Rows(leg'))
      BY <3>3, DispatchStatusStable
    <3> QED
      BY <2>2, <3>4 DEF AcceptOffer, OrderAgrees
  <2>3. ASSUME NEW d \in Driver, NEW l \in LegId, RejectOffer(d, l)
        PROVE  OrderAgrees'
    BY <1>0, <2>3, SkippedAgrees DEF RejectOffer
  <2>4. ASSUME NEW d \in Driver, NEW s \in Stop, ReportStop(d, s)
        PROVE  OrderAgrees'
    BY <2>4, UntouchedAgrees DEF ReportStop, legVars
  <2>5. ASSUME NEW l \in LegId, NEW d \in SomeDriver, RefreshActiveDriver(l, d)
        PROVE  OrderAgrees'
    BY <1>0, <2>5, SkippedAgrees DEF RefreshActiveDriver
  <2> QED
    BY <1>2, <2>1, <2>2, <2>3, <2>4, <2>5 DEF DriverStep
<1>3. CASE StopStep
  <2>1. UNCHANGED <<leg, order, staleOrder, hook>>
    BY <1>3 DEF StopStep, CreateStop, UpdateStop, ReorderStops, DeleteStop,
                SaveStops, legVars
  <2> QED
    BY <2>1, UntouchedAgrees
<1>4. CASE OrderStep
  <2>1. ASSUME NEW target \in DeliveryStatus, TransitionOrder(target)
        PROVE  OrderAgrees'
    BY <2>1 DEF TransitionOrder, OrderAgrees
  <2>2. ASSUME NEW on_hold \in BOOLEAN, SetHold(on_hold)
        PROVE  OrderAgrees'
    <3>1. CASE order.is_on_hold
      BY <2>2, <3>1 DEF SetHold, OrderAgrees
    <3>2. CASE ~order.is_on_hold
      <4>1. AutoDerived(order') => AutoDerived(order) /\ order'.status = order.status
        BY <2>2, <3>2 DEF SetHold, AutoDerived, TypeOK, OrderRow
      <4> QED
        BY <2>2, <4>1 DEF SetHold, OrderAgrees, legVars
    <3> QED
      BY <3>1, <3>2
  <2>3. CASE CancelOrder \/ DeleteOrder
    <3>1. ~AutoDerived(order')
      BY <2>3 DEF CancelOrder, DeleteOrder, AutoDerived, TypeOK, OrderRow
    <3> QED
      BY <3>1 DEF OrderAgrees
  <2>4. ASSUME NEW c \in Container, DeleteContainer(c)
        PROVE  OrderAgrees'
    BY <2>4, UntouchedAgrees DEF DeleteContainer, legVars
  <2> QED
    BY <1>4, <2>1, <2>2, <2>3, <2>4 DEF OrderStep
<1>5. CASE HookStep
  <2>1. CASE DeriveContainer
    <3>1. hook'.order = hook.order
      BY <2>1 DEF DeriveContainer, TypeOK
    <3> QED
      BY <2>1, <3>1, UntouchedAgrees DEF DeriveContainer, legVars
  <2>2. CASE DeriveOrder
    BY <2>2, DerivedAgrees DEF DeriveOrder, legVars
  <2>3. CASE LoseHook
    <3>1. CASE hook.container # NoContainer
      <4>1. hook'.order = hook.order
        BY <2>3, <3>1 DEF LoseHook, TypeOK
      <4> QED
        BY <2>3, <3>1, <4>1, UntouchedAgrees DEF LoseHook, legVars
    <3>2. CASE hook.container = NoContainer
      BY <2>3, <3>2 DEF LoseHook, OrderAgrees
    <3> QED
      BY <3>1, <3>2
  <2> QED
    BY <1>5, <2>1, <2>2, <2>3 DEF HookStep
<1> QED
  BY <1>1, <1>2, <1>3, <1>4, <1>5 DEF Next

(* The order agrees with its legs whenever the code promises it: no path   *)
(* but those that mark staleOrder leaves an order with a status its legs   *)
(* contradict, whatever its number of legs.                                *)
THEOREM OrderAlwaysAgrees == Spec => []OrderAgrees
<1>1. Init => OrderAgrees
  <2> SUFFICES ASSUME Init PROVE order.status = DispatchStatus(Rows(leg))
    BY DEF OrderAgrees
  <2>1. \A r \in Rows(leg) : ~r.is_active
    BY DEF Init, Rows, BlankLeg, NewLeg
  <2> QED
    BY <2>1 DEF Init, DispatchStatus
<1>2. TypeOK /\ OrderAgrees /\ [Next]_vars => OrderAgrees'
  <2>1. CASE UNCHANGED vars
    BY <2>1 DEF vars, OrderAgrees
  <2> QED
    BY <2>1, OrderAgreesStep
<1> QED
  BY <1>1, <1>2, TypeCorrect, PTL DEF Spec

-----------------------------------------------------------------------------
(* Steps as a leg sees them *)

(* What a request may do to one leg that exists, apart from a reissue.     *)
Edited(row, new) ==
  /\ new.reissued_from = row.reissued_from
  /\ new.status # row.status => <<row.status, new.status>> \in LegEdge
  /\ (new.accepted /\ new.rejected) => (row.accepted /\ row.rejected)

(* The identifiers not issued yet are blank. *)
Fresh == \A l \in LegId : l > issued => leg[l] = BlankLeg

(* A request that inserts no copy: existing legs are edited along the      *)
(* graph, the new ones start as new.                                       *)
PlainStep ==
  /\ issued' \in issued .. MaxLegs
  /\ \A l \in LegId :
       /\ l <= issued => Edited(leg[l], leg'[l])
       /\ l <= issued /\ issued' # issued /\ UnderWay(l) => leg'[l].is_active
       /\ issued < l /\ l <= issued' => /\ leg'[l].reissued_from = 0
                                        /\ leg'[l].status = "PENDING"
                                        /\ ~leg'[l].accepted
       /\ l > issued' => leg'[l] = leg[l]

(* reissue_dry_run of leg o. *)
CopyStep(o) ==
  /\ o \in 1 .. issued /\ leg[o].status \in Reissuable
  /\ issued' = issued + 1 /\ issued' \in LegId
  /\ leg' = [leg EXCEPT ![o].status = "DRY_RUN",
                        ![issued'] = NewLeg(leg[o].container_id, NoDriver, o)]

(* The row transformers edit a row. *)
LEMMA TransformersEdit ==
  ASSUME NEW row \in LegRow
  PROVE  /\ Edited(row, row)
         /\ \A d \in Driver : Edited(row, Assigned(row, d))
         /\ Edited(row, Unassigned(row))
         /\ ~row.rejected => Edited(row, Accepted(row))
         /\ ~row.accepted => Edited(row, Rejected(row))
         /\ Edited(row, [row EXCEPT !.is_active = FALSE])
         /\ \A d, c : Edited(row, [row EXCEPT !.driver_id = d, !.container_id = c])
         /\ \A d : Edited(row, [row EXCEPT !.driver_id = d])
         /\ \A target \in LegStatus : <<row.status, target>> \in LegEdge
               => Edited(row, [row EXCEPT !.status = target])
<1>1. \A d \in Driver : Edited(row, Assigned(row, d))
  BY DEF Edited, Assigned, LegRow, LegEdge
<1>2. Edited(row, Unassigned(row))
  BY DEF Edited, Unassigned, LegRow, LegEdge
<1>3. /\ ~row.rejected => Edited(row, Accepted(row))
      /\ ~row.accepted => Edited(row, Rejected(row))
  BY DEF Edited, Accepted, Rejected, LegRow
<1>4. /\ Edited(row, row)
      /\ Edited(row, [row EXCEPT !.is_active = FALSE])
      /\ \A d, c : Edited(row, [row EXCEPT !.driver_id = d, !.container_id = c])
      /\ \A d : Edited(row, [row EXCEPT !.driver_id = d])
  BY DEF Edited, LegRow
<1>5. \A target \in LegStatus : <<row.status, target>> \in LegEdge
         => Edited(row, [row EXCEPT !.status = target])
  BY DEF Edited, LegRow
<1> QED
  BY <1>1, <1>2, <1>3, <1>4, <1>5

(* A step that edits one leg, inserts one, or touches none, is plain.      *)
LEMMA EditIsPlain ==
  ASSUME TypeOK, NEW l \in 1 .. issued, NEW row, Edited(leg[l], row),
         leg' = [leg EXCEPT ![l] = row], issued' = issued
  PROVE  PlainStep
<1>1. \A k \in LegId : Edited(leg[k], leg[k])
  BY TransformersEdit DEF TypeOK
<1> QED
  BY <1>1 DEF PlainStep, TypeOK, LegId

LEMMA InsertIsPlain ==
  ASSUME TypeOK, issued < MaxLegs, NEW c, NEW d,
         leg' = [leg EXCEPT ![issued + 1] = NewLeg(c, d, 0)],
         issued' = issued + 1
  PROVE  PlainStep
<1>1. \A k \in LegId : Edited(leg[k], leg[k])
  BY TransformersEdit DEF TypeOK
<1>2. issued \in Nat /\ issued + 1 \in LegId
  <2>1. issued \in 0 .. MaxLegs
    BY DEF TypeOK
  <2> QED
    BY <2>1 DEF LegId
<1>3. leg'[issued + 1] = NewLeg(c, d, 0)
  BY <1>2 DEF TypeOK
<1>4. \A k \in LegId : k # issued + 1 => leg'[k] = leg[k]
  BY DEF TypeOK
<1>5. issued' \in issued .. MaxLegs
  BY <1>2 DEF LegId
<1>6. ASSUME NEW k \in LegId
      PROVE  /\ k <= issued => k # issued + 1
             /\ issued < k /\ k <= issued' => k = issued + 1
             /\ k > issued' => k # issued + 1
  BY <1>2 DEF LegId
<1> QED
  BY <1>1, <1>3, <1>4, <1>5, <1>6 DEF PlainStep, NewLeg, UnderWay

LEMMA IdleIsPlain ==
  ASSUME TypeOK, UNCHANGED legVars
  PROVE  PlainStep
<1>1. \A k \in LegId : Edited(leg[k], leg[k])
  BY TransformersEdit DEF TypeOK
<1> QED
  BY <1>1 DEF PlainStep, TypeOK, LegId, legVars

(* Every step is plain or a reissue. *)
LEMMA StepsOfLegs ==
  ASSUME TypeOK, Fresh, [Next]_vars
  PROVE  PlainStep \/ \E o \in LegId : CopyStep(o)
<1>0. \A l \in LegId : leg[l] \in LegRow
  BY DEF TypeOK
<1>1. CASE LegStep
  <2>1. ASSUME NEW c \in SomeContainer, NEW d \in SomeDriver,
               CreateLeg(c, d) \/ CreateLegBulk(c, d)
        PROVE  PlainStep
    BY <2>1, InsertIsPlain DEF CreateLeg, CreateLegBulk
  <2>2. ASSUME NEW l \in LegId, NEW d \in SomeDriver, NEW c \in SomeContainer,
               UpdateLeg(l, d, c) \/ UpdateLegBulk(l, d, c)
        PROVE  PlainStep
    <3> DEFINE row == [leg[l] EXCEPT !.driver_id = d, !.container_id = c]
    <3>1. Edited(leg[l], row)
      BY <1>0, TransformersEdit
    <3>2. /\ leg' = [leg EXCEPT ![l] = row] /\ issued' = issued
          /\ l \in 1 .. issued
      BY <2>2 DEF UpdateLeg, UpdateLegBulk, Active
    <3> HIDE DEF row
    <3> QED
      BY <3>1, <3>2, EditIsPlain
  <2>3. ASSUME NEW l \in LegId, NEW d \in Driver, AssignDriver(l, d)
        PROVE  PlainStep
    BY <1>0, <2>3, EditIsPlain, TransformersEdit DEF AssignDriver, Active
  <2>4. ASSUME NEW c \in Container, NEW n \in LegId,
               NEW replace_existing \in BOOLEAN,
               ApplyLoadType(c, n, replace_existing)
        PROVE  PlainStep
    <3>1. issued' = issued + n /\ issued' \in issued .. MaxLegs
      BY <2>4 DEF ApplyLoadType, TypeOK, LegId
    <3>2. ASSUME NEW l \in LegId, l <= issued
          PROVE  Edited(leg[l], leg'[l])
      <4>1. leg'[l] = leg[l] \/ leg'[l] = [leg[l] EXCEPT !.is_active = FALSE]
        BY <2>4, <3>2 DEF ApplyLoadType, TypeOK, LegId
      <4> QED
        BY <1>0, <4>1, TransformersEdit
    <3>3. ASSUME NEW l \in LegId, issued < l, l <= issued'
          PROVE  leg'[l] = NewLeg(c, NoDriver, 0)
      BY <2>4, <3>3 DEF ApplyLoadType, TypeOK, LegId
    <3>4. ASSUME NEW l \in LegId, l > issued'
          PROVE  leg'[l] = leg[l]
      BY <2>4, <3>4 DEF ApplyLoadType, TypeOK, LegId
    <3>5. ASSUME NEW l \in LegId, l <= issued, UnderWay(l)
          PROVE  leg'[l].is_active
      <4>1. leg[l].status \in Protected
        BY <3>5 DEF UnderWay, Protected
      <4>2. leg'[l] = leg[l]
        BY <2>4, <3>5, <4>1 DEF ApplyLoadType, TypeOK, LegId, UnderWay
      <4> QED
        BY <3>5, <4>2 DEF UnderWay
    <3> QED
      BY <3>1, <3>2, <3>3, <3>4, <3>5 DEF PlainStep, NewLeg
  <2>5. ASSUME NEW l \in LegId, UnassignDriver(l)
        PROVE  PlainStep
    BY <1>0, <2>5, EditIsPlain, TransformersEdit DEF UnassignDriver, Active
  <2>6. ASSUME NEW l \in LegId, ReissueDryRun(l)
        PROVE  CopyStep(l)
    <3>1. /\ l \in 1 .. issued /\ leg[l].status \in Reissuable
          /\ issued' = issued + 1
      BY <2>6 DEF ReissueDryRun, Active
    <3>2. issued + 1 \in LegId
      BY <2>6 DEF ReissueDryRun, TypeOK, LegId
    <3>3. leg' = [leg EXCEPT ![l].status = "DRY_RUN",
                             ![issued + 1] = NewLeg(leg[l].container_id, NoDriver, l)]
      BY <2>6 DEF ReissueDryRun
    <3> QED
      BY <3>1, <3>2, <3>3 DEF CopyStep
  <2>7. ASSUME NEW l \in LegId, DeleteLeg(l) \/ DeleteLegBulk(l)
        PROVE  PlainStep
    BY <1>0, <2>7, EditIsPlain, TransformersEdit DEF DeleteLeg, DeleteLegBulk, Active
  <2>8. ASSUME NEW l \in LegId, NEW target \in LegStatus, TransitionLeg(l, target)
        PROVE  PlainStep
    BY <1>0, <2>8, EditIsPlain, TransformersEdit DEF TransitionLeg, Active
  <2> QED
    BY <1>1, <2>1, <2>2, <2>3, <2>4, <2>5, <2>6, <2>7, <2>8 DEF LegStep
<1>2. CASE DriverStep
  <2>1. ASSUME NEW d \in Driver, NEW l \in LegId, NEW target \in LegStatus,
               Checkpoint(d, l, target)
        PROVE  PlainStep
    BY <1>0, <2>1, EditIsPlain, TransformersEdit DEF Checkpoint, TransitionLeg, Active
  <2>2. ASSUME NEW d \in Driver, NEW l \in LegId, AcceptOffer(d, l) \/ RejectOffer(d, l)
        PROVE  PlainStep
    BY <1>0, <2>2, EditIsPlain, TransformersEdit DEF AcceptOffer, RejectOffer, Active
  <2>3. ASSUME NEW l \in LegId, NEW d \in SomeDriver, RefreshActiveDriver(l, d)
        PROVE  PlainStep
    BY <1>0, <2>3, EditIsPlain, TransformersEdit DEF RefreshActiveDriver
  <2>4. ASSUME NEW d \in Driver, NEW s \in Stop, ReportStop(d, s)
        PROVE  PlainStep
    BY <2>4, IdleIsPlain DEF ReportStop
  <2> QED
    BY <1>2, <2>1, <2>2, <2>3, <2>4 DEF DriverStep
<1>3. CASE StopStep \/ OrderStep \/ HookStep \/ UNCHANGED vars
  <2>1. UNCHANGED legVars
    BY <1>3 DEF StopStep, CreateStop, UpdateStop, ReorderStops, DeleteStop, SaveStops,
                OrderStep, TransitionOrder, SetHold, CancelOrder, DeleteOrder,
                DeleteContainer, HookStep, DeriveContainer, DeriveOrder, LoseHook,
                vars, legVars
  <2> QED
    BY <2>1, IdleIsPlain
<1> QED
  BY <1>1, <1>2, <1>3 DEF Next

-----------------------------------------------------------------------------
(* Lineage *)

(* What the lineage rests on: identifiers are issued in order, and a row   *)
(* that was never issued claims nothing.                                   *)
LineageInv == TypeOK /\ Fresh /\ ReissueLineage

LEMMA FreshStep ==
  ASSUME TypeOK, Fresh, [Next]_vars
  PROVE  Fresh'
<1>1. issued \in 0 .. MaxLegs /\ leg \in [LegId -> LegRow]
  BY DEF TypeOK
<1>2. CASE PlainStep
  <2>1. SUFFICES ASSUME NEW l \in LegId, l > issued'
                 PROVE  leg'[l] = BlankLeg
    BY DEF Fresh
  <2>2. leg'[l] = leg[l] /\ l > issued
    BY <1>1, <1>2, <2>1 DEF PlainStep, LegId
  <2> QED
    BY <2>2 DEF Fresh
<1>3. ASSUME NEW o \in LegId, CopyStep(o)
      PROVE  Fresh'
  <2>1. SUFFICES ASSUME NEW l \in LegId, l > issued'
                 PROVE  leg'[l] = BlankLeg
    BY DEF Fresh
  <2>2. l # o /\ l # issued' /\ l > issued
    BY <1>1, <1>3, <2>1 DEF CopyStep, LegId
  <2>3. leg'[l] = leg[l]
    BY <1>1, <1>3, <2>2 DEF CopyStep
  <2> QED
    BY <2>2, <2>3 DEF Fresh
<1> QED
  BY <1>2, <1>3, StepsOfLegs

LEMMA LineagePlain ==
  ASSUME LineageInv, PlainStep
  PROVE  ReissueLineage'
<1>1. issued \in 0 .. MaxLegs /\ leg \in [LegId -> LegRow]
  BY DEF LineageInv, TypeOK
<1>2. ASSUME NEW l \in LegId
      PROVE  /\ leg'[l].reissued_from = leg[l].reissued_from
             /\ leg[l].status = "DRY_RUN" <=> leg'[l].status = "DRY_RUN"
  <2>1. CASE l <= issued
    BY <1>2, <2>1 DEF PlainStep, Edited, LegEdge
  <2>2. CASE issued < l
    <3>1. leg[l] = BlankLeg
      BY <2>2 DEF LineageInv, Fresh
    <3>2. leg[l].reissued_from = 0 /\ leg[l].status = "PENDING"
      BY <3>1 DEF BlankLeg, NewLeg
    <3> QED
      BY <1>1, <2>2, <3>2 DEF PlainStep, LegId
  <2> QED
    BY <1>1, <2>1, <2>2 DEF LegId
<1>3. \A l \in LegId : leg[l].reissued_from # 0 => leg[l].reissued_from \in LegId
  BY <1>1 DEF LegRow
<1> QED
  BY <1>2, <1>3 DEF LineageInv, ReissueLineage

LEMMA LineageCopy ==
  ASSUME LineageInv, NEW o \in LegId, CopyStep(o)
  PROVE  ReissueLineage'
<1>1. issued \in 0 .. MaxLegs /\ leg \in [LegId -> LegRow]
  BY DEF LineageInv, TypeOK
<1>2. o # issued' /\ o < issued' /\ issued' \in LegId /\ issued' > issued
  BY <1>1 DEF CopyStep, LegId
<1>3. /\ leg'[issued'].reissued_from = o /\ leg'[issued'].status = "PENDING"
      /\ leg'[o].reissued_from = leg[o].reissued_from
      /\ leg'[o].status = "DRY_RUN"
      /\ \A l \in LegId \ {o, issued'} : leg'[l] = leg[l]
  BY <1>1, <1>2 DEF CopyStep, NewLeg, LegRow
<1>4. leg[issued'].reissued_from = 0 /\ leg[issued'].status = "PENDING"
  BY <1>2 DEF LineageInv, Fresh, BlankLeg, NewLeg
<1>5. leg[o].status # "DRY_RUN"
  BY DEF CopyStep, Reissuable
<1>6. \A k \in LegId : /\ leg[k].reissued_from \in LegId \cup {0}
                       /\ leg[k].reissued_from # o
                       /\ leg[k].reissued_from # issued'
  <2>1. \A k \in LegId : leg[k].reissued_from \in LegId \cup {0}
    BY <1>1 DEF LegRow
  <2>2. ASSUME NEW k \in LegId, leg[k].reissued_from # 0
        PROVE  leg[leg[k].reissued_from].status = "DRY_RUN"
    BY <2>2 DEF LineageInv, ReissueLineage
  <2>3. o # 0 /\ issued' # 0
    BY <1>2 DEF LegId
  <2> QED
    BY <1>4, <1>5, <2>1, <2>2, <2>3
<1>7. ASSUME NEW l \in LegId
      PROVE  LET orig == leg'[l].reissued_from IN
             /\ orig # 0 => orig < l /\ leg'[orig].status = "DRY_RUN"
             /\ \A k \in LegId \ {l} : orig # 0 => leg'[k].reissued_from # orig
             /\ leg'[l].status = "DRY_RUN"
                  => \E k \in LegId : leg'[k].reissued_from = l
  <2>1. CASE l = issued'
    BY <1>2, <1>3, <1>6, <2>1
  <2>2. CASE l # issued'
    <3>1. leg'[l].reissued_from = leg[l].reissued_from
      BY <1>3, <2>2
    <3>2. leg[l].reissued_from # 0 =>
            /\ leg[l].reissued_from < l
            /\ leg[leg[l].reissued_from].status = "DRY_RUN"
            /\ \A k \in LegId \ {l} : leg[k].reissued_from # leg[l].reissued_from
      BY DEF LineageInv, ReissueLineage
    <3>3. leg[l].reissued_from # 0 =>
            leg'[leg[l].reissued_from].status = "DRY_RUN"
      BY <1>3, <1>6, <3>2
    <3>4. leg[l].reissued_from # 0 =>
            \A k \in LegId \ {l} : leg'[k].reissued_from # leg[l].reissued_from
      BY <1>3, <1>6, <3>2
    <3>5. leg'[l].status = "DRY_RUN" => \E k \in LegId : leg'[k].reissued_from = l
      <4>1. CASE l = o
        BY <1>2, <1>3, <4>1
      <4>2. CASE l # o
        <5>1. leg'[l] = leg[l]
          BY <1>3, <2>2, <4>2
        <5>2. SUFFICES ASSUME leg[l].status = "DRY_RUN"
                       PROVE  \E k \in LegId : leg'[k].reissued_from = l
          BY <5>1
        <5>3. PICK k \in LegId : leg[k].reissued_from = l
          BY <5>2 DEF LineageInv, ReissueLineage
        <5>4. k # issued'
          BY <1>4, <5>3 DEF LegId
        <5> QED
          BY <1>3, <5>3, <5>4
      <4> QED
        BY <4>1, <4>2
    <3> QED
      BY <3>1, <3>2, <3>3, <3>4, <3>5
  <2> QED
    BY <2>1, <2>2
<1> QED
  BY <1>7 DEF ReissueLineage

(* The copies that reissue_dry_run makes form a chain, whatever is done to *)
(* the legs in between and however many there are.                         *)
THEOREM LineageAlwaysHolds == Spec => []ReissueLineage
<1>1. Init => LineageInv
  <2> SUFFICES ASSUME Init PROVE LineageInv
    OBVIOUS
  <2>1. TypeOK
    BY InitTypeOK
  <2>2. \A l \in LegId : leg[l] = BlankLeg /\ leg[l].reissued_from = 0
                         /\ leg[l].status = "PENDING"
    BY DEF Init, BlankLeg, NewLeg
  <2> QED
    BY <2>1, <2>2 DEF LineageInv, Fresh, ReissueLineage
<1>2. LineageInv /\ TypeOK' /\ [Next]_vars => LineageInv'
  <2> SUFFICES ASSUME LineageInv, TypeOK', [Next]_vars PROVE LineageInv'
    OBVIOUS
  <2>1. Fresh'
    BY FreshStep DEF LineageInv
  <2>2. ReissueLineage'
    BY StepsOfLegs, LineagePlain, LineageCopy DEF LineageInv
  <2> QED
    BY <2>1, <2>2 DEF LineageInv
<1>3. LineageInv => ReissueLineage
  BY DEF LineageInv
<1> QED
  BY <1>1, <1>2, <1>3, TypeCorrect, PTL DEF Spec

-----------------------------------------------------------------------------
(* Status and answers *)

LEMMA FreshAlways == Spec => []Fresh
<1>1. Init => Fresh
  BY DEF Init, Fresh
<1>2. TypeOK /\ Fresh /\ [Next]_vars => Fresh'
  BY FreshStep
<1> QED
  BY <1>1, <1>2, TypeCorrect, PTL DEF Spec

(* The status of a leg only ever moves along the graph, or ends as DRY_RUN *)
(* in the step that inserts its copy (state_machine.py, reissue_dry_run).  *)
THEOREM GraphAlwaysRespected == Spec => RespectsGraph
<1>1. TypeOK /\ Fresh /\ [Next]_vars
        => [\A l \in LegId : leg'[l].status # leg[l].status => StatusMoves(l)]_vars
  <2> SUFFICES ASSUME TypeOK, Fresh, [Next]_vars, NEW l \in LegId,
                      leg'[l].status # leg[l].status
               PROVE  StatusMoves(l)
    OBVIOUS
  <2>1. issued \in 0 .. MaxLegs /\ leg \in [LegId -> LegRow]
    BY DEF TypeOK
  <2>2. l > issued => leg[l].status = "PENDING"
    BY DEF Fresh, BlankLeg, NewLeg
  <2>3. CASE PlainStep
    <3>1. CASE l <= issued
      BY <2>3, <3>1 DEF PlainStep, Edited, StatusMoves
    <3>2. CASE l > issued
      BY <2>1, <2>2, <2>3, <3>2 DEF PlainStep, LegId
    <3> QED
      BY <2>1, <3>1, <3>2 DEF LegId
  <2>4. ASSUME NEW o \in LegId, CopyStep(o)
        PROVE  StatusMoves(l)
    <3>1. o # issued' /\ issued' > issued
      BY <2>1, <2>4 DEF CopyStep, LegId
    <3>2. leg'[issued'].status = "PENDING" /\ leg'[issued'].reissued_from = o
      BY <2>1, <2>4 DEF CopyStep, NewLeg
    <3>3. l # issued'
      BY <2>2, <3>1, <3>2
    <3>4. l = o
      BY <2>1, <2>4, <3>3 DEF CopyStep
    <3>5. leg'[o].status = "DRY_RUN"
      BY <2>1, <2>4, <3>1 DEF CopyStep, LegRow
    <3> QED
      BY <2>4, <3>2, <3>4, <3>5 DEF CopyStep, StatusMoves, Reissuable
  <2> QED
    BY <2>3, <2>4, StepsOfLegs
<1> QED
  BY <1>1, TypeCorrect, FreshAlways, PTL DEF Spec, RespectsGraph

(* No leg was both accepted and rejected, however often it was reassigned  *)
(* in between (accept_offer, reject_offer).                                *)
THEOREM AnsweredOnce == Spec => []OneAnswer
<1>1. Init => OneAnswer
  BY DEF Init, OneAnswer, BlankLeg, NewLeg
<1>2. TypeOK /\ Fresh /\ OneAnswer /\ [Next]_vars => OneAnswer'
  <2> SUFFICES ASSUME TypeOK, Fresh, OneAnswer, [Next]_vars, NEW l \in LegId
               PROVE  ~(leg'[l].accepted /\ leg'[l].rejected)
    BY DEF OneAnswer
  <2>1. issued \in 0 .. MaxLegs /\ leg \in [LegId -> LegRow]
    BY DEF TypeOK
  <2>2. ~(leg[l].accepted /\ leg[l].rejected)
    BY DEF OneAnswer
  <2>3. CASE PlainStep
    <3>1. CASE l <= issued
      BY <2>2, <2>3, <3>1 DEF PlainStep, Edited
    <3>2. CASE l > issued
      BY <2>1, <2>2, <2>3, <3>2 DEF PlainStep, LegId
    <3> QED
      BY <2>1, <3>1, <3>2 DEF LegId
  <2>4. ASSUME NEW o \in LegId, CopyStep(o)
        PROVE  ~(leg'[l].accepted /\ leg'[l].rejected)
    <3>1. o # issued' /\ issued' > issued
      BY <2>1, <2>4 DEF CopyStep, LegId
    <3>2. CASE l = issued'
      BY <2>1, <2>4, <3>2 DEF CopyStep, NewLeg
    <3>3. CASE l = o
      BY <2>1, <2>2, <2>4, <3>1, <3>3 DEF CopyStep, LegRow
    <3>4. CASE l # o /\ l # issued'
      BY <2>1, <2>2, <2>4, <3>4 DEF CopyStep
    <3> QED
      BY <3>2, <3>3, <3>4
  <2> QED
    BY <2>3, <2>4, StepsOfLegs
<1> QED
  BY <1>1, <1>2, TypeCorrect, FreshAlways, PTL DEF Spec

(* A request that inserts legs leaves the others active that are under way *)
(* or done (apply_load_type with replace_existing).                        *)
THEOREM ProtectedAlwaysKept == Spec => GenerationKeepsProtected
<1>1. TypeOK /\ Fresh /\ [Next]_vars
        => [issued' # issued => \A l \in LegId : UnderWay(l) => leg'[l].is_active]_vars
  <2> SUFFICES ASSUME TypeOK, Fresh, [Next]_vars, issued' # issued,
                      NEW l \in LegId, UnderWay(l)
               PROVE  leg'[l].is_active
    OBVIOUS
  <2>1. issued \in 0 .. MaxLegs /\ leg \in [LegId -> LegRow]
    BY DEF TypeOK
  <2>2. l <= issued
    <3>1. ~BlankLeg.is_active
      BY DEF BlankLeg, NewLeg
    <3> QED
      BY <2>1, <3>1 DEF Fresh, UnderWay, LegId
  <2>3. CASE PlainStep
    BY <2>2, <2>3 DEF PlainStep
  <2>4. ASSUME NEW o \in LegId, CopyStep(o)
        PROVE  leg'[l].is_active
    <3>1. l # issued'
      BY <2>1, <2>2, <2>4 DEF CopyStep, LegId
    <3>2. leg'[l].is_active = leg[l].is_active
      BY <2>1, <2>4, <3>1 DEF CopyStep, LegRow
    <3> QED
      BY <3>2 DEF UnderWay
  <2> QED
    BY <2>3, <2>4, StepsOfLegs
<1> QED
  BY <1>1, TypeCorrect, FreshAlways, PTL DEF Spec, GenerationKeepsProtected

-----------------------------------------------------------------------------
(* The order *)

(* The order is left alone, derived from the legs, or moved by hand.       *)
LEMMA OrderSteps ==
  ASSUME [Next]_vars
  PROVE  \/ UNCHANGED order
         \/ order' = DerivedOrder(order, Rows(leg'))
         \/ OrderStep
<1>1. CASE LegStep
  BY <1>1 DEF LegStep, CreateLeg, CreateLegBulk, UpdateLeg, UpdateLegBulk, AssignDriver,
              ApplyLoadType, UnassignDriver, ReissueDryRun, DeleteLeg, DeleteLegBulk,
              TransitionLeg, DeriveStatus, SkipStatus
<1>2. CASE DriverStep
  BY <1>2 DEF DriverStep, Checkpoint, TransitionLeg, AcceptOffer, RejectOffer, ReportStop,
              RefreshActiveDriver, SkipStatus
<1>3. CASE StopStep
  BY <1>3 DEF StopStep, CreateStop, UpdateStop, ReorderStops, DeleteStop, SaveStops
<1>4. CASE HookStep
  BY <1>4 DEF HookStep, DeriveContainer, DeriveOrder, LoseHook, DeriveStatus, legVars
<1> QED
  BY <1>1, <1>2, <1>3, <1>4 DEF Next, vars

(* A cancelled order is never on hold (cancel, set_hold).                  *)
THEOREM CancelledNeverHeld == Spec => []CancelledNotHeld
<1>1. Init => CancelledNotHeld
  BY DEF Init, CancelledNotHeld
<1>2. TypeOK /\ CancelledNotHeld /\ [Next]_vars => CancelledNotHeld'
  <2> SUFFICES ASSUME TypeOK, CancelledNotHeld, [Next]_vars PROVE CancelledNotHeld'
    OBVIOUS
  <2>1. order \in OrderRow
    BY DEF TypeOK
  <2>2. CASE order' = DerivedOrder(order, Rows(leg'))
    BY <2>1, <2>2 DEF DerivedOrder, OrderRow, CancelledNotHeld
  <2>3. CASE OrderStep
    BY <2>1, <2>3 DEF OrderStep, TransitionOrder, SetHold, CancelOrder, DeleteOrder,
                      DeleteContainer, OrderRow, CancelledNotHeld
  <2> QED
    BY <2>2, <2>3, OrderSteps DEF CancelledNotHeld
<1> QED
  BY <1>1, <1>2, TypeCorrect, PTL DEF Spec

(* No derivation moves an order that is on hold, cancelled or past its     *)
(* dispatch phase, nor out of that phase (derive_do_dispatch_state).       *)
THEOREM OrderNeverOverridden == Spec => AutomationNeverOverrides
<1>1. TypeOK /\ [Next]_vars => [order'.status # order.status => OrderMoves]_vars
  <2> SUFFICES ASSUME TypeOK, [Next]_vars, order'.status # order.status
               PROVE  OrderMoves
    OBVIOUS
  <2>1. order \in OrderRow
    BY DEF TypeOK
  <2>2. CASE order' = DerivedOrder(order, Rows(leg'))
    <3>1. AutoDerived(order)
      BY <2>2 DEF DerivedOrder
    <3>2. order'.status = DispatchStatus(Rows(leg'))
      BY <2>1, <2>2, <3>1 DEF DerivedOrder, OrderRow
    <3>3. {order.status, order'.status} \subseteq DispatchPhase
      BY <2>1, <3>1, <3>2, DerivedOrderType DEF AutoDerived
    <3> QED
      BY <3>1, <3>3 DEF AutoDerived, OrderMoves, DispatchPhase
  <2>3. CASE OrderStep
    <3>1. ASSUME NEW target \in DeliveryStatus, TransitionOrder(target)
          PROVE  OrderMoves
      BY <2>1, <3>1 DEF TransitionOrder, OrderMoves, OrderRow, legVars, tripVars
    <3>2. ASSUME (\E on_hold \in BOOLEAN : SetHold(on_hold)) \/ CancelOrder \/ DeleteOrder
                 \/ (\E c \in Container : DeleteContainer(c))
          PROVE  order'.status = order.status
      BY <2>1, <3>2 DEF SetHold, CancelOrder, DeleteOrder, DeleteContainer, OrderRow
    <3> QED
      BY <2>3, <3>1, <3>2 DEF OrderStep
  <2> QED
    BY <2>2, <2>3, OrderSteps
<1> QED
  BY <1>1, TypeCorrect, PTL DEF Spec, AutomationNeverOverrides

-----------------------------------------------------------------------------
(* The state of a container *)

WorkAgreesFor(c) ==
  work[c] \notin ManualWork
    => work[c] = DerivedWork(ActiveStops(stop, c), ActiveLegs(leg, c))

(* A stop that was never created is inactive: creating one only fills a    *)
(* row that has no container yet.                                          *)
StopsFresh == \A s \in Stop : stop[s].sequence_no = 0 => ~stop[s].is_active

(* Two rows that say the same of container c.                              *)
IsOf(row, c) == row.is_active /\ row.container_id = c

SameFor(row, new, c) ==
  /\ IsOf(row, c) <=> IsOf(new, c)
  /\ IsOf(row, c) => row.status = new.status

LegsSame(c)  == \A l \in LegId : SameFor(leg[l], leg'[l], c)
StopsSame(c) == \A s \in Stop : /\ IsOf(stop[s], c) <=> IsOf(stop'[s], c)
                                /\ IsOf(stop[s], c) => stop'[s] = stop[s]

(* DerivedWork looks at nothing of the legs but their statuses.            *)
LEMMA DerivedWorkByStatus ==
  ASSUME NEW stops, NEW legs, NEW others,
         \A r \in legs : \E q \in others : r.status = q.status,
         \A q \in others : \E r \in legs : r.status = q.status
  PROVE  DerivedWork(stops, legs) = DerivedWork(stops, others)
<1>1. legs = {} <=> others = {}
  OBVIOUS
<1>2. (\A r \in legs : r.status = "COMPLETED")
        <=> (\A r \in others : r.status = "COMPLETED")
  OBVIOUS
<1>3. (\E r \in legs : r.status = "IN_TRANSIT")
        <=> (\E r \in others : r.status = "IN_TRANSIT")
  OBVIOUS
<1> QED
  BY <1>1, <1>2, <1>3 DEF DerivedWork

(* A derivation makes its container agree with what it ran over.           *)
LEMMA DerivedWorkAgrees ==
  ASSUME TypeOK, NEW c \in Container, work' = Rederived(c, leg', stop')
  PROVE  WorkAgreesFor(c)'
BY DEF WorkAgreesFor, Rederived, TypeOK

(* ... and leaves the others alone.                                        *)
LEMMA OtherWorkKept ==
  ASSUME TypeOK, NEW c \in Container, NEW b, b # c, NEW legs, NEW stops,
         work' = Rederived(b, legs, stops)
  PROVE  work'[c] = work[c]
BY DEF Rederived, TypeOK

(* A container agrees still when it, its stops and the statuses of its     *)
(* legs are as they were.                                                  *)
LEMMA KeptWorkAgrees ==
  ASSUME WorkAgrees, NEW c \in Container, c \notin staleWork, hook.container # c,
         work'[c] = work[c], LegsSame(c), StopsSame(c)
  PROVE  WorkAgreesFor(c)'
<1>1. ActiveStops(stop', c) = ActiveStops(stop, c)
  BY DEF StopsSame, ActiveStops, IsOf
<1>2. DerivedWork(ActiveStops(stop, c), ActiveLegs(leg, c))
        = DerivedWork(ActiveStops(stop, c), ActiveLegs(leg', c))
  <2>1. \A r \in ActiveLegs(leg, c) : \E q \in ActiveLegs(leg', c) : r.status = q.status
    BY DEF ActiveLegs, Rows, LegsSame, SameFor, IsOf
  <2>2. \A q \in ActiveLegs(leg', c) : \E r \in ActiveLegs(leg, c) : r.status = q.status
    BY DEF ActiveLegs, Rows, LegsSame, SameFor, IsOf
  <2> QED
    BY <2>1, <2>2, DerivedWorkByStatus
<1>3. work[c] \notin ManualWork
        => work[c] = DerivedWork(ActiveStops(stop, c), ActiveLegs(leg, c))
  BY DEF WorkAgrees
<1> QED
  BY <1>1, <1>2, <1>3 DEF WorkAgreesFor

(* One leg changed.                                                        *)
LEMMA OneLegSame ==
  ASSUME TypeOK, NEW l \in LegId, NEW row, leg' = [leg EXCEPT ![l] = row],
         NEW c, SameFor(leg[l], row, c)
  PROVE  LegsSame(c)
BY DEF LegsSame, SameFor, TypeOK

(* A leg was inserted, for another container or none.                      *)
LEMMA InsertedLegSame ==
  ASSUME TypeOK, Fresh, issued < MaxLegs, NEW b, NEW d, NEW orig,
         leg' = [leg EXCEPT ![issued + 1] = NewLeg(b, d, orig)], NEW c, b # c
  PROVE  LegsSame(c)
<1>1. issued + 1 \in LegId /\ issued + 1 > issued
  BY DEF TypeOK, LegId
<1>2. SameFor(leg[issued + 1], NewLeg(b, d, orig), c)
  BY <1>1 DEF Fresh, BlankLeg, NewLeg, SameFor, IsOf
<1> QED
  BY <1>1, <1>2, OneLegSame

(* Edits that leave the container and the status of a leg alone, and those *)
(* of a leg of another container.                                          *)
LEMMA EditsSame ==
  ASSUME NEW row \in LegRow, NEW c
  PROVE  /\ SameFor(row, row, c)
         /\ SameFor(row, Accepted(row), c) /\ SameFor(row, Rejected(row), c)
         /\ \A d : SameFor(row, [row EXCEPT !.driver_id = d], c)
         /\ \A d, b : b = row.container_id \/ (b # c /\ row.container_id # c)
               => SameFor(row, [row EXCEPT !.driver_id = d, !.container_id = b], c)
         /\ row.container_id # c =>
              /\ \A d : SameFor(row, Assigned(row, d), c)
              /\ SameFor(row, Unassigned(row), c)
              /\ SameFor(row, [row EXCEPT !.is_active = FALSE], c)
              /\ \A target : SameFor(row, [row EXCEPT !.status = target], c)
<1>1. /\ SameFor(row, Accepted(row), c) /\ SameFor(row, Rejected(row), c)
  BY DEF SameFor, IsOf, Accepted, Rejected, LegRow
<1>2. \A d : SameFor(row, [row EXCEPT !.driver_id = d], c)
  BY DEF SameFor, IsOf, LegRow
<1>3. \A d, b : b = row.container_id \/ (b # c /\ row.container_id # c)
         => SameFor(row, [row EXCEPT !.driver_id = d, !.container_id = b], c)
  BY DEF SameFor, IsOf, LegRow
<1>4. row.container_id # c =>
        /\ \A d : SameFor(row, Assigned(row, d), c)
        /\ SameFor(row, Unassigned(row), c)
  BY DEF SameFor, IsOf, Assigned, Unassigned, LegRow
<1>5. row.container_id # c =>
        /\ SameFor(row, [row EXCEPT !.is_active = FALSE], c)
        /\ \A target : SameFor(row, [row EXCEPT !.status = target], c)
  BY DEF SameFor, IsOf, LegRow
<1> QED
  BY <1>1, <1>2, <1>3, <1>4, <1>5 DEF SameFor

(* Requests on legs: the container they derive agrees, those whose legs    *)
(* they change without are marked or owed, the others see nothing.         *)
LEMMA LegStepWork ==
  ASSUME TypeOK, Fresh, WorkAgrees, LegStep,
         NEW c \in Container, c \notin staleWork', hook'.container # c
  PROVE  WorkAgreesFor(c)'
<1>0. /\ \A l \in LegId : leg[l] \in LegRow
      /\ c # NoContainer
      /\ Idle => hook.container # c
  BY DEF TypeOK, Idle, NoHook
<1>a. ASSUME StopsSame(c), LegsSame(c), work'[c] = work[c], c \notin staleWork, Idle
      PROVE  WorkAgreesFor(c)'
  BY <1>0, <1>a, KeptWorkAgrees
<1>b. UNCHANGED stop => StopsSame(c)
  BY DEF StopsSame
<1>1. ASSUME NEW b \in SomeContainer, NEW d \in SomeDriver, CreateLeg(b, d)
      PROVE  WorkAgreesFor(c)'
  <2>1. /\ Idle /\ issued < MaxLegs /\ UNCHANGED stop
        /\ leg' = [leg EXCEPT ![issued + 1] = NewLeg(b, d, 0)]
        /\ work' = Rederived(b, leg', stop') /\ staleWork' = staleWork \ {b}
    BY <1>1 DEF CreateLeg, DeriveWork, tripVars
  <2>2. CASE b = c
    BY <2>1, <2>2, DerivedWorkAgrees
  <2>3. CASE b # c
    BY <1>a, <1>b, <2>1, <2>3, OtherWorkKept, InsertedLegSame
  <2> QED
    BY <2>2, <2>3
<1>2. ASSUME NEW b \in SomeContainer, NEW d \in SomeDriver, CreateLegBulk(b, d)
      PROVE  WorkAgreesFor(c)'
  <2>1. /\ Idle /\ issued < MaxLegs /\ UNCHANGED <<stop, work>>
        /\ leg' = [leg EXCEPT ![issued + 1] = NewLeg(b, d, 0)]
        /\ c \notin staleWork /\ b # c
    BY <1>2 DEF CreateLegBulk, SkipWork, tripVars
  <2> QED
    BY <1>a, <1>b, <2>1, InsertedLegSame
<1>3. ASSUME NEW l \in LegId, NEW d \in SomeDriver, NEW b \in SomeContainer,
             UpdateLeg(l, d, b)
      PROVE  WorkAgreesFor(c)'
  <2> DEFINE row == [leg[l] EXCEPT !.driver_id = d, !.container_id = b]
  <2>1. /\ Idle /\ UNCHANGED stop /\ leg' = [leg EXCEPT ![l] = row]
        /\ work' = Rederived(b, leg', stop')
        /\ b # c => c \notin staleWork /\ leg[l].container_id # c
    BY <1>0, <1>3 DEF UpdateLeg, tripVars
  <2>2. b # c => SameFor(leg[l], row, c)
    BY <1>0, <2>1, EditsSame
  <2> HIDE DEF row
  <2>3. CASE b = c
    BY <2>1, <2>3, DerivedWorkAgrees
  <2>4. CASE b # c
    <3>1. LegsSame(c)
      BY <2>1, <2>2, <2>4, OneLegSame
    <3>2. work'[c] = work[c]
      BY <2>1, <2>4, OtherWorkKept
    <3> QED
      BY <1>a, <1>b, <2>1, <2>4, <3>1, <3>2
  <2> QED
    BY <2>3, <2>4
<1>4. ASSUME NEW l \in LegId, NEW d \in SomeDriver, NEW b \in SomeContainer,
             UpdateLegBulk(l, d, b)
      PROVE  WorkAgreesFor(c)'
  <2> DEFINE row == [leg[l] EXCEPT !.driver_id = d, !.container_id = b]
  <2>1. /\ Idle /\ UNCHANGED <<stop, work>> /\ leg' = [leg EXCEPT ![l] = row]
        /\ c \notin staleWork
        /\ b = leg[l].container_id \/ (b # c /\ leg[l].container_id # c)
    BY <1>0, <1>4 DEF UpdateLegBulk, SkipWork, tripVars
  <2>2. SameFor(leg[l], row, c)
    BY <1>0, <2>1, EditsSame
  <2> HIDE DEF row
  <2>3. LegsSame(c)
    BY <2>1, <2>2, OneLegSame
  <2> QED
    BY <1>a, <1>b, <2>1, <2>3
<1>5. ASSUME NEW l \in LegId, NEW row, leg' = [leg EXCEPT ![l] = row],
             SameFor(leg[l], row, c), Idle, UNCHANGED <<stop, work>>,
             c \notin staleWork
      PROVE  WorkAgreesFor(c)'
  BY <1>5, <1>a, <1>b, OneLegSame
<1>6. ASSUME NEW l \in LegId, NEW d \in Driver, AssignDriver(l, d)
      PROVE  WorkAgreesFor(c)'
  <2>1. leg[l].container_id # c
    BY <1>6 DEF AssignDriver, Owe
  <2>2. SameFor(leg[l], Assigned(leg[l], d), c)
    BY <1>0, <2>1, EditsSame
  <2> QED
    BY <1>5, <1>6, <2>2 DEF AssignDriver, tripVars
<1>7. ASSUME NEW b \in Container, NEW n \in LegId, NEW replace_existing \in BOOLEAN,
             ApplyLoadType(b, n, replace_existing)
      PROVE  WorkAgreesFor(c)'
  <2>1. /\ Idle /\ UNCHANGED stop
        /\ work' = Rederived(b, leg', stop') /\ staleWork' = staleWork \ {b}
    BY <1>7 DEF ApplyLoadType, DeriveWork, tripVars
  <2>2. CASE b = c
    BY <2>1, <2>2, DerivedWorkAgrees
  <2>3. CASE b # c
    <3>1. ASSUME NEW l \in LegId
          PROVE  SameFor(leg[l], leg'[l], c)
      <4>1. issued \in 0 .. MaxLegs
        BY DEF TypeOK
      <4>2. CASE l <= issued
        <5>1. \/ leg'[l] = leg[l]
              \/ /\ leg[l].container_id = b
                 /\ leg'[l] = [leg[l] EXCEPT !.is_active = FALSE]
          BY <1>7, <4>1, <4>2 DEF ApplyLoadType, LegId
        <5> QED
          BY <1>0, <2>3, <5>1, EditsSame
      <4>3. CASE l > issued
        <5>1. leg'[l] = leg[l] \/ leg'[l] = NewLeg(b, NoDriver, 0)
          BY <1>7, <4>1, <4>3 DEF ApplyLoadType, LegId
        <5>2. ~leg[l].is_active
          BY <4>3 DEF Fresh, BlankLeg, NewLeg
        <5> QED
          BY <2>3, <5>1, <5>2 DEF SameFor, IsOf, NewLeg
      <4> QED
        BY <4>1, <4>2, <4>3 DEF LegId
    <3>2. LegsSame(c)
      BY <3>1 DEF LegsSame
    <3>3. work'[c] = work[c]
      BY <2>1, <2>3, OtherWorkKept
    <3> QED
      BY <1>a, <1>b, <2>1, <2>3, <3>2, <3>3
  <2> QED
    BY <2>2, <2>3
<1>8. ASSUME NEW l \in LegId, UnassignDriver(l)
      PROVE  WorkAgreesFor(c)'
  <2>1. leg[l].container_id # c
    BY <1>8 DEF UnassignDriver, Owe
  <2>2. SameFor(leg[l], Unassigned(leg[l]), c)
    BY <1>0, <2>1, EditsSame
  <2> QED
    BY <1>5, <1>8, <2>2 DEF UnassignDriver, tripVars
<1>9. ASSUME NEW l \in LegId, ReissueDryRun(l)
      PROVE  WorkAgreesFor(c)'
  <2>1. leg[l].container_id # c
    BY <1>9 DEF ReissueDryRun, Owe
  <2>2. SameFor(leg[l], [leg[l] EXCEPT !.status = "DRY_RUN"], c)
    BY <1>0, <2>1, EditsSame
  <2>3. /\ issued + 1 \in LegId /\ issued + 1 > issued /\ l # issued + 1
        /\ leg' = [leg EXCEPT ![l].status = "DRY_RUN",
                              ![issued + 1] = NewLeg(leg[l].container_id, NoDriver, l)]
    BY <1>9 DEF ReissueDryRun, Active, TypeOK, LegId
  <2>4. SameFor(leg[issued + 1], NewLeg(leg[l].container_id, NoDriver, l), c)
    BY <2>1, <2>3 DEF Fresh, BlankLeg, NewLeg, SameFor, IsOf
  <2>5. ASSUME NEW k \in LegId
        PROVE  SameFor(leg[k], leg'[k], c)
    <3>1. CASE k = l
      BY <2>2, <2>3, <3>1 DEF TypeOK
    <3>2. CASE k = issued + 1
      BY <2>3, <2>4, <3>2 DEF TypeOK
    <3>3. CASE k # l /\ k # issued + 1
      BY <2>3, <3>3 DEF TypeOK, SameFor
    <3> QED
      BY <3>1, <3>2, <3>3
  <2> QED
    BY <1>9, <1>a, <1>b, <2>5 DEF ReissueDryRun, LegsSame, tripVars
<1>10. ASSUME NEW l \in LegId, DeleteLeg(l)
       PROVE  WorkAgreesFor(c)'
  <2> DEFINE b == leg[l].container_id
  <2>1. /\ Idle /\ UNCHANGED stop
        /\ leg' = [leg EXCEPT ![l] = [leg[l] EXCEPT !.is_active = FALSE]]
    BY <1>10 DEF DeleteLeg, tripVars
  <2>2. b # c => SameFor(leg[l], [leg[l] EXCEPT !.is_active = FALSE], c)
    BY <1>0, EditsSame
  <2>3. CASE work' = Rederived(b, leg', stop') /\ staleWork' = staleWork \ {b}
    <3>1. CASE b = c
      BY <2>1, <2>3, <3>1, DerivedWorkAgrees
    <3>2. CASE b # c
      <4>1. LegsSame(c)
        BY <2>1, <2>2, <3>2, OneLegSame
      <4>2. work'[c] = work[c]
        BY <2>3, <3>2, OtherWorkKept
      <4> QED
        BY <1>a, <1>b, <2>1, <2>3, <3>2, <4>1, <4>2
    <3> QED
      BY <3>1, <3>2
  <2>4. CASE SkipWork({b})
    <3>1. b # c /\ c \notin staleWork
      BY <2>4 DEF SkipWork
    <3> QED
      BY <1>5, <1>10, <2>1, <2>2, <2>4, <3>1 DEF DeleteLeg, SkipWork, tripVars
  <2> QED
    BY <1>10, <2>1, <2>3, <2>4 DEF DeleteLeg, DeriveWork
<1>11. ASSUME NEW l \in LegId, DeleteLegBulk(l)
       PROVE  WorkAgreesFor(c)'
  <2>1. leg[l].container_id # c /\ c \notin staleWork
    BY <1>11 DEF DeleteLegBulk, SkipWork
  <2>2. SameFor(leg[l], [leg[l] EXCEPT !.is_active = FALSE], c)
    BY <1>0, <2>1, EditsSame
  <2> QED
    BY <1>5, <1>11, <2>1, <2>2 DEF DeleteLegBulk, SkipWork, tripVars
<1>12. ASSUME NEW l \in LegId, NEW target \in LegStatus, TransitionLeg(l, target)
       PROVE  WorkAgreesFor(c)'
  <2> DEFINE row == [leg[l] EXCEPT !.status = target]
  <2>1. row.container_id = leg[l].container_id
    BY <1>0 DEF LegRow
  <2>2. leg[l].container_id # c /\ c \notin staleWork
    BY <1>12, <2>1 DEF TransitionLeg, SkipWork, Owe
  <2>3. SameFor(leg[l], row, c)
    BY <1>0, <2>2, EditsSame
  <2>4. /\ Idle /\ UNCHANGED <<stop, work>> /\ leg' = [leg EXCEPT ![l] = row]
    BY <1>12 DEF TransitionLeg, SkipWork, tripVars
  <2> QED
    BY <1>5, <2>2, <2>3, <2>4
<1> QED
  BY <1>1, <1>2, <1>3, <1>4, <1>6, <1>7, <1>8, <1>9, <1>10, <1>11, <1>12 DEF LegStep

(* Requests of drivers. *)
LEMMA DriverStepWork ==
  ASSUME TypeOK, Fresh, WorkAgrees, DriverStep,
         NEW c \in Container, c \notin staleWork', hook'.container # c
  PROVE  WorkAgreesFor(c)'
<1>0. /\ \A l \in LegId : leg[l] \in LegRow
      /\ c # NoContainer
      /\ Idle => hook.container # c
  BY DEF TypeOK, Idle, NoHook
<1>1. ASSUME NEW d \in Driver, NEW l \in LegId, NEW target \in LegStatus,
             Checkpoint(d, l, target)
      PROVE  WorkAgreesFor(c)'
  BY <1>1, LegStepWork DEF Checkpoint, LegStep
<1>2. ASSUME NEW l \in LegId, NEW row, leg' = [leg EXCEPT ![l] = row],
             SameFor(leg[l], row, c), Idle, UNCHANGED <<stop, work, staleWork>>
      PROVE  WorkAgreesFor(c)'
  <2>1. LegsSame(c) /\ StopsSame(c)
    BY <1>2, OneLegSame DEF StopsSame
  <2> QED
    BY <1>0, <1>2, <2>1, KeptWorkAgrees
<1>3. ASSUME NEW d \in Driver, NEW l \in LegId, AcceptOffer(d, l)
      PROVE  WorkAgreesFor(c)'
  <2>1. SameFor(leg[l], Accepted(leg[l]), c)
    BY <1>0, EditsSame
  <2> QED
    BY <1>2, <1>3, <2>1 DEF AcceptOffer, tripVars
<1>4. ASSUME NEW d \in Driver, NEW l \in LegId, RejectOffer(d, l)
      PROVE  WorkAgreesFor(c)'
  <2>1. SameFor(leg[l], Rejected(leg[l]), c)
    BY <1>0, EditsSame
  <2> QED
    BY <1>2, <1>4, <2>1 DEF RejectOffer, tripVars
<1>5. ASSUME NEW d \in Driver, NEW s \in Stop, ReportStop(d, s)
      PROVE  WorkAgreesFor(c)'
  <2>1. /\ Idle /\ UNCHANGED leg /\ stop' = [stop EXCEPT ![s].arrived = TRUE]
        /\ work' = Rederived(stop[s].container_id, leg', stop')
        /\ staleWork' = staleWork \ {stop[s].container_id}
    BY <1>5 DEF ReportStop, DeriveWork, legVars
  <2>2. CASE stop[s].container_id = c
    BY <2>1, <2>2, DerivedWorkAgrees
  <2>3. CASE stop[s].container_id # c
    <3>1. LegsSame(c)
      BY <2>1 DEF LegsSame, SameFor
    <3>2. StopsSame(c)
      BY <2>1, <2>3 DEF StopsSame, IsOf, TypeOK, StopRow
    <3>3. work'[c] = work[c]
      BY <2>1, <2>3, OtherWorkKept
    <3> QED
      BY <1>0, <2>1, <2>3, <3>1, <3>2, <3>3, KeptWorkAgrees
  <2> QED
    BY <2>2, <2>3
<1>6. ASSUME NEW l \in LegId, NEW d \in SomeDriver, RefreshActiveDriver(l, d)
      PROVE  WorkAgreesFor(c)'
  <2>1. SameFor(leg[l], [leg[l] EXCEPT !.driver_id = d], c)
    BY <1>0, EditsSame
  <2> QED
    BY <1>2, <1>6, <2>1 DEF RefreshActiveDriver, tripVars
<1> QED
  BY <1>1, <1>3, <1>4, <1>5, <1>6 DEF DriverStep

(* Operations on stops touch those of one container, and derive it.        *)
LEMMA SaveStopsWork ==
  ASSUME TypeOK, WorkAgrees, NEW b, NEW stops, SaveStops(b, stops),
         NEW c \in Container, c \notin staleWork', b # c => StopsSame(c)
  PROVE  WorkAgreesFor(c)'
<1>1. /\ Idle /\ UNCHANGED leg /\ work' = Rederived(b, leg', stop')
      /\ staleWork' = staleWork \ {b}
  BY DEF SaveStops, DeriveWork, legVars
<1>2. CASE b = c
  BY <1>1, <1>2, DerivedWorkAgrees
<1>3. CASE b # c
  <2>1. LegsSame(c) /\ hook.container # c
    BY <1>1 DEF LegsSame, SameFor, Idle, NoHook
  <2>2. work'[c] = work[c]
    BY <1>1, <1>3, OtherWorkKept
  <2> QED
    BY <1>1, <1>3, <2>1, <2>2, KeptWorkAgrees
<1> QED
  BY <1>2, <1>3

LEMMA StopStepWork ==
  ASSUME TypeOK, StopsFresh, WorkAgrees, StopStep,
         NEW c \in Container, c \notin staleWork'
  PROVE  WorkAgreesFor(c)'
<1>0. stop \in [Stop -> StopRow]
  BY DEF TypeOK
<1>1. ASSUME NEW s \in Stop, NEW b \in Container, NEW n \in 1 .. MaxSeq,
             NEW arrived \in BOOLEAN, CreateStop(s, b, n, arrived)
      PROVE  WorkAgreesFor(c)'
  <2> DEFINE row == [is_active |-> TRUE, container_id |-> b, sequence_no |-> n,
                     arrived |-> arrived]
  <2>1. ~stop[s].is_active /\ SaveStops(b, [stop EXCEPT ![s] = row])
    BY <1>1 DEF CreateStop, StopsFresh
  <2>2. b # c => StopsSame(c)
    BY <1>0, <2>1 DEF SaveStops, StopsSame, IsOf
  <2> QED
    BY <2>1, <2>2, SaveStopsWork
<1>2. ASSUME NEW s \in Stop, NEW n \in 1 .. MaxSeq, NEW arrived \in BOOLEAN,
             UpdateStop(s, n, arrived)
      PROVE  WorkAgreesFor(c)'
  <2>1. stop[s].container_id # c => StopsSame(c)
    BY <1>0, <1>2 DEF UpdateStop, SaveStops, StopsSame, IsOf, StopRow
  <2> QED
    BY <1>2, <2>1, SaveStopsWork DEF UpdateStop
<1>3. ASSUME NEW b \in Container, NEW S \in SUBSET Stop,
             NEW f \in [S -> 1 .. MaxSeq], ReorderStops(b, S, f)
      PROVE  WorkAgreesFor(c)'
  <2>1. b # c => StopsSame(c)
    <3> SUFFICES ASSUME b # c, NEW s \in Stop
                 PROVE  /\ IsOf(stop[s], c) <=> IsOf(stop'[s], c)
                        /\ IsOf(stop[s], c) => stop'[s] = stop[s]
      BY DEF StopsSame
    <3>1. CASE s \in S
      <4>1. /\ stop[s].container_id = b
            /\ stop'[s] = [stop[s] EXCEPT !.sequence_no = f[s]]
        BY <1>3, <3>1 DEF ReorderStops, SaveStops
      <4>2. stop'[s].container_id = b
        BY <1>0, <4>1 DEF StopRow
      <4> QED
        BY <4>1, <4>2 DEF IsOf
    <3>2. CASE s \notin S
      BY <1>3, <3>2 DEF ReorderStops, SaveStops
    <3> QED
      BY <3>1, <3>2
  <2> QED
    BY <1>3, <2>1, SaveStopsWork DEF ReorderStops
<1>4. ASSUME NEW s \in Stop, DeleteStop(s)
      PROVE  WorkAgreesFor(c)'
  <2>1. stop[s].container_id # c => StopsSame(c)
    BY <1>0, <1>4 DEF DeleteStop, SaveStops, StopsSame, IsOf, StopRow
  <2> QED
    BY <1>4, <2>1, SaveStopsWork DEF DeleteStop
<1> QED
  BY <1>1, <1>2, <1>3, <1>4 DEF StopStep

(* The order and the hooks: a derivation that is owed is run or marked.    *)
LEMMA OtherStepWork ==
  ASSUME TypeOK, WorkAgrees, OrderStep \/ HookStep \/ UNCHANGED vars,
         NEW c \in Container, c \notin staleWork', hook'.container # c
  PROVE  WorkAgreesFor(c)'
<1>0. UNCHANGED <<leg, stop>> => LegsSame(c) /\ StopsSame(c)
  BY DEF LegsSame, SameFor, StopsSame
<1>1. CASE OrderStep \/ UNCHANGED vars
  <2>1. UNCHANGED <<leg, stop, work, hook, staleWork>>
    BY <1>1 DEF OrderStep, TransitionOrder, SetHold, CancelOrder, DeleteOrder,
                DeleteContainer, legVars, tripVars, vars
  <2> QED
    BY <1>0, <2>1, KeptWorkAgrees
<1>2. CASE DeriveContainer
  <2>1. /\ UNCHANGED <<leg, stop>> /\ work' = Rederived(hook.container, leg', stop')
        /\ staleWork' = staleWork \ {hook.container}
    BY <1>2 DEF DeriveContainer, DeriveWork, legVars, tripVars
  <2>2. CASE hook.container = c
    BY <2>1, <2>2, DerivedWorkAgrees
  <2>3. CASE hook.container # c
    BY <1>0, <2>1, <2>3, OtherWorkKept, KeptWorkAgrees
  <2> QED
    BY <2>2, <2>3
<1>3. CASE DeriveOrder
  <2>1. hook.container # c /\ UNCHANGED <<leg, stop, work, staleWork>>
    BY <1>3 DEF DeriveOrder, legVars, tripVars
  <2> QED
    BY <1>0, <2>1, KeptWorkAgrees
<1>4. CASE LoseHook
  <2>1. hook.container # c /\ c \notin staleWork /\ UNCHANGED <<leg, stop, work>>
    BY <1>4 DEF LoseHook, legVars, tripVars
  <2> QED
    BY <1>0, <2>1, KeptWorkAgrees
<1> QED
  BY <1>1, <1>2, <1>3, <1>4 DEF HookStep

LEMMA StopsFreshStep ==
  ASSUME TypeOK, StopsFresh, [Next]_vars
  PROVE  StopsFresh'
<1>0. stop \in [Stop -> StopRow]
  BY DEF TypeOK
<1>1. CASE StopStep
  <2>1. ASSUME NEW s \in Stop, NEW b \in Container, NEW n \in 1 .. MaxSeq,
               NEW arrived \in BOOLEAN, CreateStop(s, b, n, arrived)
        PROVE  StopsFresh'
    BY <1>0, <2>1 DEF CreateStop, SaveStops, StopsFresh
  <2>2. ASSUME NEW s \in Stop, NEW n \in 1 .. MaxSeq, NEW arrived \in BOOLEAN,
               UpdateStop(s, n, arrived)
        PROVE  StopsFresh'
    BY <1>0, <2>2 DEF UpdateStop, SaveStops, StopsFresh, StopRow
  <2>3. ASSUME NEW b \in Container, NEW S \in SUBSET Stop,
               NEW f \in [S -> 1 .. MaxSeq], ReorderStops(b, S, f)
        PROVE  StopsFresh'
    <3> SUFFICES ASSUME NEW s \in Stop, stop'[s].sequence_no = 0
                 PROVE  ~stop'[s].is_active
      BY DEF StopsFresh
    <3>1. CASE s \in S
      <4>1. stop'[s] = [stop[s] EXCEPT !.sequence_no = f[s]]
        BY <2>3, <3>1 DEF ReorderStops, SaveStops
      <4>2. stop'[s].sequence_no = f[s]
        BY <1>0, <4>1 DEF StopRow
      <4> QED
        BY <3>1, <4>2
    <3>2. CASE s \notin S
      BY <2>3, <3>2 DEF ReorderStops, SaveStops, StopsFresh
    <3> QED
      BY <3>1, <3>2
  <2>4. ASSUME NEW s \in Stop, DeleteStop(s)
        PROVE  StopsFresh'
    BY <1>0, <2>4 DEF DeleteStop, SaveStops, StopsFresh, StopRow
  <2> QED
    BY <1>1, <2>1, <2>2, <2>3, <2>4 DEF StopStep
<1>2. ASSUME NEW d \in Driver, NEW s \in Stop, ReportStop(d, s)
      PROVE  StopsFresh'
  BY <1>0, <1>2 DEF ReportStop, StopsFresh, StopRow
<1>3. CASE ~StopStep /\ ~(\E d \in Driver, s \in Stop : ReportStop(d, s))
  <2>1. UNCHANGED stop
    BY <1>3 DEF Next, LegStep, CreateLeg, CreateLegBulk, UpdateLeg, UpdateLegBulk,
                AssignDriver, ApplyLoadType, UnassignDriver, ReissueDryRun, DeleteLeg,
                DeleteLegBulk, TransitionLeg, DriverStep, Checkpoint, AcceptOffer,
                RejectOffer, RefreshActiveDriver, OrderStep, TransitionOrder, SetHold,
                CancelOrder, DeleteOrder, DeleteContainer, HookStep, DeriveContainer,
                DeriveOrder, LoseHook, tripVars, vars
  <2> QED
    BY <2>1 DEF StopsFresh
<1> QED
  BY <1>1, <1>2, <1>3

(* The state of a container is the one its stops and legs give, whenever   *)
(* the code promises it: no path but those that mark staleWork leaves it   *)
(* with a state they contradict (derive_and_save_state).                   *)
THEOREM WorkAlwaysAgrees == Spec => []WorkAgrees
<1>1. Init => StopsFresh /\ WorkAgrees
  <2> SUFFICES ASSUME Init PROVE StopsFresh /\ WorkAgrees
    OBVIOUS
  <2>1. \A s \in Stop : ~stop[s].is_active
    BY DEF Init, BlankStop
  <2>2. \A c : ActiveStops(stop, c) = {}
    BY <2>1 DEF ActiveStops
  <2>3. \A legs : DerivedWork({}, legs) = "DRAFT"
    BY DEF DerivedWork
  <2>4. \A c \in Container : work[c] = "DRAFT"
    BY DEF Init
  <2> QED
    BY <2>1, <2>2, <2>3, <2>4 DEF StopsFresh, WorkAgrees
<1>2. TypeOK /\ Fresh /\ StopsFresh /\ WorkAgrees /\ [Next]_vars
        => StopsFresh' /\ WorkAgrees'
  <2> SUFFICES ASSUME TypeOK, Fresh, StopsFresh, WorkAgrees, [Next]_vars
               PROVE  StopsFresh' /\ WorkAgrees'
    OBVIOUS
  <2>1. ASSUME NEW c \in Container, c \notin staleWork', hook'.container # c
        PROVE  WorkAgreesFor(c)'
    BY <2>1, LegStepWork, DriverStepWork, StopStepWork, OtherStepWork DEF Next
  <2> QED
    BY <2>1, StopsFreshStep DEF WorkAgrees, WorkAgreesFor
<1> QED
  BY <1>1, <1>2, TypeCorrect, FreshAlways, PTL DEF Spec

=============================================================================
