-------------------------- MODULE DispatchRCProofs --------------------------
(***************************************************************************)
(* Theorems about DispatchRC, for any number of overlapping requests, legs *)
(* and drivers.                                                            *)
(***************************************************************************)
EXTENDS DispatchRC, TLAPS

USE NullAssumption, BoundAssumption

-----------------------------------------------------------------------------
(* Rows of a session *)

LEMMA LegMapIntro ==
  ASSUME NEW S \in SUBSET LegId, NEW f \in [S -> LegRow]
  PROVE  f \in LegMap
BY DEF LegMap

LEMMA LegMapElim ==
  ASSUME NEW f \in LegMap
  PROVE  /\ DOMAIN f \in SUBSET LegId
         /\ f \in [DOMAIN f -> LegRow]
BY DEF LegMap

(* A flush keeps a row a row: each column is the committed one or the one  *)
(* the session changed.                                                    *)
LEMMA MergeLeg ==
  ASSUME NEW row \in LegRow, NEW seen \in LegRow, NEW mine \in LegRow
  PROVE  /\ Merge(row, seen, mine) \in LegRow
         /\ Merge(row, seen, mine).status
              = IF mine.status # seen.status THEN mine.status ELSE row.status
         /\ Merge(row, seen, mine).is_active
              = IF mine.is_active # seen.is_active THEN mine.is_active ELSE row.is_active
<1>1. DOMAIN row = {"is_active", "status", "driver_id", "accepted", "rejected",
                    "container_id", "reissued_from"}
  BY DEF LegRow
<1>2. Merge(row, seen, mine)
        = [is_active |-> IF mine.is_active # seen.is_active THEN mine.is_active ELSE row.is_active,
           status |-> IF mine.status # seen.status THEN mine.status ELSE row.status,
           driver_id |-> IF mine.driver_id # seen.driver_id THEN mine.driver_id ELSE row.driver_id,
           accepted |-> IF mine.accepted # seen.accepted THEN mine.accepted ELSE row.accepted,
           rejected |-> IF mine.rejected # seen.rejected THEN mine.rejected ELSE row.rejected,
           container_id |-> IF mine.container_id # seen.container_id THEN mine.container_id ELSE row.container_id,
           reissued_from |-> IF mine.reissued_from # seen.reissued_from THEN mine.reissued_from ELSE row.reissued_from]
  BY <1>1 DEF Merge
<1> QED
  BY <1>2 DEF LegRow

LEMMA MergeOrder ==
  ASSUME NEW row \in OrderRow, NEW seen \in OrderRow, NEW mine \in OrderRow
  PROVE  /\ Merge(row, seen, mine) \in OrderRow
         /\ Merge(row, seen, mine).cancelled
              = IF mine.cancelled # seen.cancelled THEN mine.cancelled ELSE row.cancelled
<1>1. DOMAIN row = {"is_active", "status", "is_on_hold", "cancelled"}
  BY DEF OrderRow
<1>2. Merge(row, seen, mine)
        = [is_active |-> IF mine.is_active # seen.is_active THEN mine.is_active ELSE row.is_active,
           status |-> IF mine.status # seen.status THEN mine.status ELSE row.status,
           is_on_hold |-> IF mine.is_on_hold # seen.is_on_hold THEN mine.is_on_hold ELSE row.is_on_hold,
           cancelled |-> IF mine.cancelled # seen.cancelled THEN mine.cancelled ELSE row.cancelled]
  BY <1>1 DEF Merge
<1> QED
  BY <1>2 DEF OrderRow

-----------------------------------------------------------------------------
(* The inductive invariant *)

(* Identifiers nobody took yet have a blank row, so that a request which   *)
(* inserts a leg loads nothing a leg ever was.                             *)
Fresh == \A l \in LegId : l > issued => leg[l] = BlankLeg

(* What one request may do to the status of a leg it loaded.               *)
Moves(before, after) ==
  \/ after = before
  \/ <<before, after>> \in LegEdge
  \/ before \in {"ASSIGNED", "IN_TRANSIT"} /\ after = "DRY_RUN"

(* A session with uncommitted changes still has what it loaded, it changed *)
(* legs that exist, and each status it will write moves from the one it    *)
(* loaded; what it will save of the order never withdraws a cancellation.  *)
Sound(r, n) ==
  /\ r.dirty => /\ DOMAIN r.seen = DOMAIN r.mine
                /\ \A l \in DOMAIN r.mine :
                      l <= n /\ Moves(r.seen[l].status, r.mine[l].status)
  /\ r.at = "refresh" => ~r.dirty
  /\ r.do.cancelled => r.new.cancelled

SessionInv == TypeOK /\ Fresh /\ \A w \in Worker : Sound(req[w], issued)

-----------------------------------------------------------------------------
(* Requests that load *)

LEMMA NewLegType ==
  ASSUME NEW c \in Container \cup {NoContainer}, NEW d \in Driver \cup {NoDriver},
         NEW orig \in LegId \cup {0}
  PROVE  NewLeg(c, d, orig) \in LegRow /\ NewLeg(c, d, orig).status = "PENDING"
BY DEF NewLeg, LegRow, LegStatus

LEMMA BlankLegType ==
  BlankLeg \in LegRow /\ BlankLeg.status = "PENDING" /\ ~BlankLeg.is_active
BY DEF BlankLeg, NewLeg, LegRow, LegStatus

LEMMA NoLegsType == NoLegs \in LegMap /\ DOMAIN NoLegs = {}
<1>1. NoLegs \in [{} -> LegRow]
  BY DEF NoLegs
<1> QED
  BY <1>1, LegMapIntro DEF NoLegs

LEMMA NoRequestType ==
  NoRequest \in Request /\ \A n : Sound(NoRequest, n)
<1>1. NewOrder \in OrderRow
  BY DEF NewOrder, OrderRow, DeliveryStatus
<1> QED
  BY <1>1, NoLegsType DEF NoRequest, Request, Phase, Derives, Sound

(* An active leg is one somebody inserted. *)
LEMMA ActiveIssued ==
  ASSUME SessionInv, NEW l \in LegId, leg[l].is_active
  PROVE  l <= issued
<1>1. issued \in Nat /\ l \in Nat
  BY DEF SessionInv, TypeOK, LegId
<1> QED
  BY <1>1, BlankLegType DEF SessionInv, Fresh

LEMMA LoadKeeps ==
  ASSUME SessionInv, NEW w \in Worker, NEW derives \in Derives,
         NEW S \in SUBSET LegId, NEW mine \in [S -> LegRow],
         issued' \in 0 .. MaxLegs, issued <= issued',
         \A l \in S : l <= issued' /\ Moves(leg[l].status, mine[l].status),
         Load(w, mine, derives)
  PROVE  SessionInv'
<1> DEFINE seen == [l \in S |-> leg[l]]
           r == [NoRequest EXCEPT !.at = "change", !.mine = mine, !.dirty = TRUE,
                                  !.derives = derives, !.seen = seen]
<1>1. req' = [req EXCEPT ![w] = r] /\ leg' = leg /\ order' = order
  BY DEF Load
<1>2. seen \in LegMap /\ mine \in LegMap /\ DOMAIN seen = S /\ DOMAIN mine = S
  <2>1. seen \in [S -> LegRow]
    BY DEF SessionInv, TypeOK
  <2> QED
    BY <2>1, LegMapIntro
<1>3. /\ r \in Request
      /\ r.seen = seen /\ r.mine = mine
      /\ r.do = NoRequest.do /\ r.new = NoRequest.new /\ r.at = "change"
  BY <1>2, NoRequestType DEF Request, Phase
<1>4. Sound(r, issued')
  BY <1>2, <1>3, NoRequestType DEF Sound
<1> HIDE DEF r
<1>5. TypeOK'
  BY <1>1, <1>3 DEF SessionInv, TypeOK
<1>6. issued \in Nat /\ issued' \in Nat
  BY DEF SessionInv, TypeOK
<1>7. Fresh'
  BY <1>1, <1>6 DEF SessionInv, Fresh, LegId
<1>8. ASSUME NEW v \in Worker
      PROVE  Sound(req[v], issued)'
  <2>1. CASE v = w
    BY <2>1, <1>1, <1>4 DEF SessionInv, TypeOK
  <2>2. CASE v # w
    <3>1. req'[v] = req[v] /\ Sound(req[v], issued)
      BY <2>2, <1>1 DEF SessionInv, TypeOK
    <3>2. DOMAIN req[v].mine \in SUBSET LegId
      BY LegMapElim DEF SessionInv, TypeOK, Request
    <3> QED
      BY <3>1, <3>2, <1>6 DEF Sound, LegId
  <2> QED
    BY <2>1, <2>2
<1> QED
  BY <1>5, <1>7, <1>8 DEF SessionInv

LEMMA ChangeKeeps ==
  ASSUME SessionInv, NEW w \in Worker, NEW l \in LegId, NEW row \in LegRow,
         NEW derives \in Derives, Moves(leg[l].status, row.status),
         Change(w, l, row, derives)
  PROVE  SessionInv'
<1> DEFINE mine == [k \in {l} |-> row]
<1>1. /\ mine \in [{l} -> LegRow] /\ mine[l] = row
      /\ Load(w, mine, derives) /\ issued' = issued /\ leg[l].is_active
  BY DEF Change
<1>2. l <= issued
  BY <1>1, ActiveIssued
<1>3. issued \in 0 .. MaxLegs
  BY DEF SessionInv, TypeOK
<1> HIDE DEF mine
<1> QED
  BY <1>1, <1>2, <1>3, LoadKeeps

-----------------------------------------------------------------------------
(* Every step keeps the invariant *)

(* What each change to a row does to its status. *)
LEMMA RowMoves ==
  ASSUME NEW row \in LegRow
  PROVE  /\ \A d \in Driver : /\ Assigned(row, d) \in LegRow
                             /\ Moves(row.status, Assigned(row, d).status)
         /\ Unassigned(row) \in LegRow /\ Moves(row.status, Unassigned(row).status)
         /\ Accepted(row) \in LegRow   /\ Moves(row.status, Accepted(row).status)
         /\ Rejected(row) \in LegRow   /\ Moves(row.status, Rejected(row).status)
         /\ LET off == [row EXCEPT !.is_active = FALSE]
            IN  off \in LegRow /\ Moves(row.status, off.status)
         /\ \A target \in LegStatus :
               /\ [row EXCEPT !.status = target] \in LegRow
               /\ [row EXCEPT !.status = target].status = target
<1>1. \A d \in Driver : /\ Assigned(row, d) \in LegRow
                       /\ Moves(row.status, Assigned(row, d).status)
  BY DEF Assigned, LegRow, LegStatus, Moves, LegEdge
<1>2. Unassigned(row) \in LegRow /\ Moves(row.status, Unassigned(row).status)
  BY DEF Unassigned, LegRow, LegStatus, Moves, LegEdge
<1>3. Accepted(row) \in LegRow /\ Moves(row.status, Accepted(row).status)
  BY DEF Accepted, LegRow, Moves
<1>4. Rejected(row) \in LegRow /\ Moves(row.status, Rejected(row).status)
  BY DEF Rejected, LegRow, Moves
<1>5. LET off == [row EXCEPT !.is_active = FALSE]
      IN  off \in LegRow /\ Moves(row.status, off.status)
  BY DEF LegRow, Moves
<1>6. \A target \in LegStatus :
         /\ [row EXCEPT !.status = target] \in LegRow
         /\ [row EXCEPT !.status = target].status = target
  BY DEF LegRow
<1> QED
  BY <1>1, <1>2, <1>3, <1>4, <1>5, <1>6

LEMMA RequestOnLegKeeps ==
  ASSUME SessionInv, NEW w \in Worker, NEW l \in LegId,
         \/ \E d \in Driver : AssignDriver(w, l, d)
         \/ UnassignDriver(w, l) \/ AcceptOffer(w, l) \/ RejectOffer(w, l)
         \/ \E target \in LegStatus : Transition(w, l, target)
         \/ DeleteLeg(w, l)
  PROVE  SessionInv'
<1>1. leg[l] \in LegRow /\ "after" \in Derives /\ "before" \in Derives /\ "never" \in Derives
  BY DEF SessionInv, TypeOK, Derives
<1>2. ASSUME NEW d \in Driver, AssignDriver(w, l, d)
      PROVE  SessionInv'
  BY <1>1, <1>2, RowMoves, ChangeKeeps DEF AssignDriver
<1>3. CASE UnassignDriver(w, l)
  BY <1>1, <1>3, RowMoves, ChangeKeeps DEF UnassignDriver
<1>4. CASE AcceptOffer(w, l)
  BY <1>1, <1>4, RowMoves, ChangeKeeps DEF AcceptOffer
<1>5. CASE RejectOffer(w, l)
  BY <1>1, <1>5, RowMoves, ChangeKeeps DEF RejectOffer
<1>6. ASSUME NEW target \in LegStatus, Transition(w, l, target)
      PROVE  SessionInv'
  <2>1. Moves(leg[l].status, [leg[l] EXCEPT !.status = target].status)
    BY <1>1, <1>6, RowMoves DEF Transition, Moves
  <2> QED
    BY <1>1, <1>6, <2>1, RowMoves, ChangeKeeps DEF Transition
<1>7. CASE DeleteLeg(w, l)
  BY <1>1, <1>7, RowMoves, ChangeKeeps DEF DeleteLeg
<1> QED
  BY <1>2, <1>3, <1>4, <1>5, <1>6, <1>7

(* The identifier a request takes for the leg it inserts. *)
LEMMA NextId ==
  ASSUME SessionInv, issued < MaxLegs, issued' = issued + 1
  PROVE  /\ issued \in Nat /\ issued + 1 \in LegId
         /\ issued' \in 0 .. MaxLegs /\ issued <= issued'
         /\ leg[issued + 1] = BlankLeg
         /\ \A l \in LegId : leg[l].is_active => l <= issued
<1>1. issued \in 0 .. MaxLegs
  BY DEF SessionInv, TypeOK
<1>2. issued + 1 \in LegId
  BY <1>1 DEF LegId
<1> QED
  BY <1>1, <1>2, ActiveIssued DEF SessionInv, Fresh

LEMMA ReissueKeeps ==
  ASSUME SessionInv, NEW w \in Worker, NEW l \in LegId, ReissueDryRun(w, l)
  PROVE  SessionInv'
<1> DEFINE old == [leg[l] EXCEPT !.status = "DRY_RUN"]
           copy == NewLeg(leg[l].container_id, NoDriver, l)
           S == {l, issued + 1}
           mine == [k \in S |-> IF k = l THEN old ELSE copy]
<1>1. Load(w, mine, "after") /\ leg[l].is_active /\ leg[l].status \in Reissuable
  BY DEF ReissueDryRun
<1>2. /\ issued \in Nat /\ issued + 1 \in LegId
      /\ issued' \in 0 .. MaxLegs /\ issued <= issued' /\ issued' = issued + 1
      /\ leg[issued + 1] = BlankLeg /\ l <= issued
  BY <1>1, NextId DEF ReissueDryRun
<1>3. leg[l] \in LegRow /\ "after" \in Derives
  BY DEF SessionInv, TypeOK, Derives
<1>4. old \in LegRow /\ old.status = "DRY_RUN"
  BY <1>3, RowMoves DEF LegStatus, LegRow
<1>5. copy \in LegRow /\ copy.status = "PENDING"
  BY <1>3, NewLegType DEF LegRow
<1>6. l \in Nat /\ l # issued + 1
  BY <1>2 DEF LegId
<1> HIDE DEF old, copy
<1>7. mine \in [S -> LegRow] /\ S \in SUBSET LegId
  BY <1>2, <1>4, <1>5
<1>8. mine[l] = old /\ mine[issued + 1] = copy
  BY <1>6
<1> HIDE DEF mine
<1>9. ASSUME NEW k \in S
      PROVE  k <= issued' /\ Moves(leg[k].status, mine[k].status)
  <2>1. CASE k = l
    BY <2>1, <1>1, <1>2, <1>4, <1>6, <1>8 DEF Moves, Reissuable
  <2>2. CASE k = issued + 1
    BY <2>2, <1>2, <1>5, <1>8, BlankLegType DEF Moves
  <2> QED
    BY <2>1, <2>2
<1> QED
  BY <1>1, <1>2, <1>3, <1>7, <1>9, LoadKeeps

LEMMA CreateKeeps ==
  ASSUME SessionInv, NEW w \in Worker, NEW c \in Container \cup {NoContainer},
         NEW d \in Driver \cup {NoDriver}, CreateLeg(w, c, d)
  PROVE  SessionInv'
<1> DEFINE row == NewLeg(c, d, 0)
           S == {issued + 1}
           mine == [k \in S |-> row]
<1>1. Load(w, mine, "before")
  BY DEF CreateLeg
<1>2. /\ issued \in Nat /\ issued + 1 \in LegId
      /\ issued' \in 0 .. MaxLegs /\ issued <= issued' /\ issued' = issued + 1
      /\ leg[issued + 1] = BlankLeg
  BY NextId DEF CreateLeg
<1>3. row \in LegRow /\ row.status = "PENDING"
  BY NewLegType
<1> HIDE DEF row
<1>4. mine \in [S -> LegRow] /\ S \in SUBSET LegId
  BY <1>2, <1>3
<1>5. \A k \in S : k <= issued' /\ Moves(leg[k].status, mine[k].status)
  BY <1>2, <1>3, BlankLegType DEF Moves
<1>6. "before" \in Derives
  BY DEF Derives
<1> HIDE DEF mine
<1> QED
  BY <1>1, <1>2, <1>4, <1>5, <1>6, LoadKeeps

LEMMA ApplyKeeps ==
  ASSUME SessionInv, NEW w \in Worker, NEW c \in Container, ApplyLoadType(w, c)
  PROVE  SessionInv'
<1> DEFINE existing == {l \in LegId : leg[l].is_active /\ leg[l].container_id = c}
           copy == NewLeg(c, NoDriver, 0)
           S == existing \cup {issued + 1}
           mine == [k \in S |-> IF k \in existing
                                THEN [leg[k] EXCEPT !.is_active = FALSE]
                                ELSE copy]
<1>1. Load(w, mine, "before")
  BY DEF ApplyLoadType
<1>2. /\ issued \in Nat /\ issued + 1 \in LegId
      /\ issued' \in 0 .. MaxLegs /\ issued <= issued' /\ issued' = issued + 1
      /\ leg[issued + 1] = BlankLeg
      /\ \A l \in existing : l <= issued
  BY NextId DEF ApplyLoadType
<1>3. copy \in LegRow /\ copy.status = "PENDING" /\ "before" \in Derives
  BY NewLegType DEF Derives
<1>4. \A k \in existing : /\ k \in Nat /\ leg[k] \in LegRow
                          /\ [leg[k] EXCEPT !.is_active = FALSE] \in LegRow
                          /\ [leg[k] EXCEPT !.is_active = FALSE].status = leg[k].status
  <2>1. \A k \in existing : k \in Nat /\ leg[k] \in LegRow
    BY DEF SessionInv, TypeOK, LegId
  <2> QED
    BY <2>1 DEF LegRow
<1> HIDE DEF copy
<1>5. mine \in [S -> LegRow] /\ S \in SUBSET LegId
  BY <1>2, <1>3, <1>4
<1>6. ASSUME NEW k \in S
      PROVE  k <= issued' /\ Moves(leg[k].status, mine[k].status)
  <2>1. CASE k \in existing
    BY <2>1, <1>2, <1>4 DEF Moves
  <2>2. CASE k \notin existing
    BY <2>2, <1>2, <1>3, BlankLegType DEF Moves
  <2> QED
    BY <2>1, <2>2
<1> HIDE DEF mine, existing
<1> QED
  BY <1>1, <1>2, <1>3, <1>5, <1>6, LoadKeeps

(* A step that changes the session of one request and no committed row.    *)
LEMMA SessionStep ==
  ASSUME SessionInv, NEW w \in Worker, NEW r \in Request, Sound(r, issued),
         req' = [req EXCEPT ![w] = r], UNCHANGED <<leg, issued, order>>
  PROVE  SessionInv'
<1>1. TypeOK' /\ Fresh'
  BY DEF SessionInv, TypeOK, Fresh
<1>2. \A v \in Worker : req'[v] = IF v = w THEN r ELSE req[v]
  BY DEF SessionInv, TypeOK
<1> QED
  BY <1>1, <1>2 DEF SessionInv

LEMMA RequestOnOrderKeeps ==
  ASSUME SessionInv, NEW w \in Worker, NEW target \in DeliveryStatus,
         NEW on_hold \in BOOLEAN,
         TransitionOrder(w, target) \/ SetHold(w, on_hold) \/ CancelOrder(w)
  PROVE  SessionInv'
<1>1. order \in OrderRow
  BY DEF SessionInv, TypeOK
<1>2. ASSUME NEW new \in OrderRow, order.cancelled => new.cancelled, LoadOrder(w, new)
      PROVE  SessionInv'
  <2> DEFINE r == [NoRequest EXCEPT !.at = "save", !.do = order, !.new = new]
  <2>1. r \in Request /\ Sound(r, issued)
    BY <1>1, <1>2, NoRequestType DEF Request, Phase, Sound
  <2> QED
    BY <1>2, <2>1, SessionStep DEF LoadOrder
<1>3. CASE TransitionOrder(w, target)
  <2>1. /\ [order EXCEPT !.status = target] \in OrderRow
        /\ [order EXCEPT !.status = target].cancelled = order.cancelled
    BY <1>1 DEF OrderRow
  <2> QED
    BY <1>2, <1>3, <2>1 DEF TransitionOrder
<1>4. CASE SetHold(w, on_hold)
  <2>1. /\ [order EXCEPT !.is_on_hold = on_hold] \in OrderRow
        /\ [order EXCEPT !.is_on_hold = on_hold].cancelled = order.cancelled
    BY <1>1 DEF OrderRow
  <2> QED
    BY <1>2, <1>4, <2>1 DEF SetHold
<1>5. CASE CancelOrder(w)
  <2>1. [order EXCEPT !.cancelled = TRUE, !.is_on_hold = FALSE] \in OrderRow
    BY <1>1 DEF OrderRow
  <2> QED
    BY <1>2, <1>5, <2>1 DEF CancelOrder
<1> QED
  BY <1>3, <1>4, <1>5

LEMMA StartKeeps ==
  ASSUME SessionInv, NEW w \in Worker, Start(w)
  PROVE  SessionInv'
<1>1. ASSUME NEW target \in DeliveryStatus, TransitionOrder(w, target)
      PROVE  SessionInv'
  BY <1>1, RequestOnOrderKeeps
<1>2. ASSUME NEW on_hold \in BOOLEAN, SetHold(w, on_hold)
      PROVE  SessionInv'
  BY <1>2, RequestOnOrderKeeps DEF DeliveryStatus
<1>3. CASE CancelOrder(w)
  BY <1>3, RequestOnOrderKeeps DEF DeliveryStatus
<1> QED
  BY <1>1, <1>2, <1>3, RequestOnLegKeeps, ReissueKeeps, CreateKeeps, ApplyKeeps
     DEF Start

(* What the commit of a request makes of the leg table: a leg it did not   *)
(* load keeps its row, one it loaded gets the columns it changed.          *)
LEMMA FlushedLegs ==
  ASSUME SessionInv, NEW w \in Worker, NEW l \in LegId
  PROVE  LET r == req[w] IN
         /\ Flushed(r)[l] \in LegRow
         /\ r.dirty /\ l \in DOMAIN r.mine
              => /\ l \in DOMAIN r.seen /\ r.mine[l] \in LegRow /\ r.seen[l] \in LegRow
                 /\ Flushed(r)[l].status = IF r.mine[l].status # r.seen[l].status
                                           THEN r.mine[l].status ELSE leg[l].status
                 /\ Flushed(r)[l].is_active = IF r.mine[l].is_active # r.seen[l].is_active
                                              THEN r.mine[l].is_active ELSE leg[l].is_active
         /\ ~(r.dirty /\ l \in DOMAIN r.mine) => Flushed(r)[l] = leg[l]
<1> DEFINE r == req[w]
<1>1. r \in Request /\ leg[l] \in LegRow /\ Sound(r, issued)
  BY DEF SessionInv, TypeOK
<1>2. r.mine \in LegMap /\ r.seen \in LegMap
  BY <1>1 DEF Request
<1> HIDE DEF r
<1>3. CASE r.dirty /\ l \in DOMAIN r.mine
  <2>1. l \in DOMAIN r.seen
    BY <1>1, <1>3 DEF Sound
  <2>2. r.mine[l] \in LegRow /\ r.seen[l] \in LegRow
    BY <1>2, <1>3, <2>1, LegMapElim
  <2>3. Flushed(r)[l] = Merge(leg[l], r.seen[l], r.mine[l])
    BY <1>3 DEF Flushed
  <2> QED
    BY <1>1, <1>3, <2>1, <2>2, <2>3, MergeLeg DEF r
<1>4. CASE ~(r.dirty /\ l \in DOMAIN r.mine)
  <2>1. Flushed(r)[l] = leg[l]
    BY <1>4 DEF Flushed
  <2> QED
    BY <1>1, <1>4, <2>1 DEF r
<1> QED
  BY <1>3, <1>4

LEMMA CommitStep ==
  ASSUME SessionInv, NEW w \in Worker, NEW r \in Request, Sound(r, issued),
         req' = [req EXCEPT ![w] = r], leg' = Flushed(req[w]),
         issued' = issued, order' \in OrderRow
  PROVE  SessionInv'
<1>1. leg' \in [LegId -> LegRow]
  <2>1. leg' = [l \in LegId |-> Flushed(req[w])[l]]
    BY DEF Flushed
  <2> QED
    BY <2>1, FlushedLegs
<1>2. TypeOK'
  BY <1>1 DEF SessionInv, TypeOK
<1>3. Fresh'
  <2>1. SUFFICES ASSUME NEW l \in LegId, l > issued
                 PROVE  leg'[l] = BlankLeg
    BY DEF Fresh
  <2>2. ~(req[w].dirty /\ l \in DOMAIN req[w].mine)
    <3>1. issued \in Nat /\ l \in Nat
      BY DEF SessionInv, TypeOK, LegId
    <3> QED
      BY <2>1, <3>1 DEF SessionInv, Sound
  <2> QED
    BY <2>1, <2>2, FlushedLegs DEF SessionInv, Fresh
<1>4. \A v \in Worker : req'[v] = IF v = w THEN r ELSE req[v]
  BY DEF SessionInv, TypeOK
<1> QED
  BY <1>2, <1>3, <1>4 DEF SessionInv

LEMMA ProceedKeeps ==
  ASSUME SessionInv, NEW w \in Worker, Proceed(w)
  PROVE  SessionInv'
<1> DEFINE r == req[w]
<1>1. r \in Request /\ order \in OrderRow /\ Sound(r, issued)
  BY DEF SessionInv, TypeOK
<1>2. CASE Flush(w)
  <2>1. LET s == [r EXCEPT !.at = "derive"] IN s \in Request /\ Sound(s, issued)
    BY <1>1 DEF Request, Phase, Sound
  <2> QED
    BY <1>2, <2>1, SessionStep DEF Flush
<1>3. CASE Commit(w)
  <2>1. LET s == [r EXCEPT !.at = "refresh", !.dirty = FALSE, !.seen = NoLegs]
        IN  s \in Request /\ Sound(s, issued)
    BY <1>1, NoLegsType DEF Request, Phase, Sound
  <2> QED
    BY <1>1, <1>3, <2>1, NoRequestType, CommitStep DEF Commit
<1>4. CASE Refresh(w)
  <2> DEFINE last == CHOOSE l \in DOMAIN r.mine : \A k \in DOMAIN r.mine : k <= l
             mine == [r.mine EXCEPT ![last] = leg[last]]
             s == [r EXCEPT !.at = "derive", !.mine[last] = leg[last]]
  <2>1. req' = [req EXCEPT ![w] = s] /\ UNCHANGED <<leg, issued, order>>
    BY <1>4 DEF Refresh
  <2> HIDE DEF last
  <2>2. mine \in LegMap
    <3>1. r.mine \in LegMap
      BY <1>1 DEF Request
    <3>2. DOMAIN r.mine \in SUBSET LegId /\ r.mine \in [DOMAIN r.mine -> LegRow]
      BY <3>1, LegMapElim
    <3>3. leg \in [LegId -> LegRow]
      BY DEF SessionInv, TypeOK
    <3>4. mine \in [DOMAIN r.mine -> LegRow]
      BY <3>2, <3>3
    <3> QED
      BY <3>2, <3>4, LegMapIntro
  <2>3. s = [r EXCEPT !.at = "derive", !.mine = mine]
    BY <1>1 DEF Request
  <2> HIDE DEF s, mine
  <2>4. /\ s \in Request /\ s.at = "derive"
        /\ s.dirty = r.dirty /\ s.do = r.do /\ s.new = r.new
    BY <1>1, <2>2, <2>3 DEF Request, Phase
  <2>5. ~r.dirty
    BY <1>1, <1>4 DEF Refresh, Sound
  <2>6. Sound(s, issued)
    BY <1>1, <2>4, <2>5 DEF Sound
  <2> QED
    BY <2>1, <2>4, <2>6, SessionStep
<1>5. CASE ReadOrder(w)
  <2>1. LET s == [r EXCEPT !.at = "count", !.do = order, !.new = order]
        IN  s \in Request /\ Sound(s, issued)
    BY <1>1 DEF Request, Phase, Sound
  <2>2. LET s == [r EXCEPT !.at = "save"] IN s \in Request /\ Sound(s, issued)
    BY <1>1 DEF Request, Phase, Sound
  <2> QED
    BY <1>5, <2>1, <2>2, SessionStep DEF ReadOrder
<1>6. CASE CountLegs(w)
  <2> DEFINE status == DispatchStatus(Selected(r))
             s == [r EXCEPT !.at = "save", !.new.status = status]
  <2>1. status \in DeliveryStatus
    BY DEF DispatchStatus, DeliveryStatus
  <2> HIDE DEF status
  <2>2. /\ [r.new EXCEPT !.status = status] \in OrderRow
        /\ [r.new EXCEPT !.status = status].cancelled = r.new.cancelled
    BY <1>1, <2>1 DEF Request, OrderRow
  <2>3. s \in Request /\ Sound(s, issued)
    BY <1>1, <2>2 DEF Request, Phase, Sound
  <2>4. req' = [req EXCEPT ![w] = s] /\ UNCHANGED <<leg, issued, order>>
    BY <1>6 DEF CountLegs, status
  <2> HIDE DEF s
  <2> QED
    BY <2>3, <2>4, SessionStep
<1>7. CASE Save(w)
  <2>1. order' \in OrderRow
    BY <1>1, <1>7, MergeOrder DEF Save, Request
  <2> QED
    BY <1>7, <2>1, NoRequestType, CommitStep DEF Save
<1>8. CASE SwallowFailure(w)
  <2>1. LET s == [r EXCEPT !.at = "save"] IN s \in Request /\ Sound(s, issued)
    BY <1>1 DEF Request, Phase, Sound
  <2> QED
    BY <1>8, <2>1, SessionStep DEF SwallowFailure
<1>9. CASE Fail(w)
  BY <1>9, NoRequestType, SessionStep DEF Fail
<1> QED
  BY <1>2, <1>3, <1>4, <1>5, <1>6, <1>7, <1>8, <1>9 DEF Proceed

(* The invariant of every session: rows keep their types, and what a       *)
(* session will write it may write (DispatchRC).                           *)
THEOREM SessionsAreSound == Spec => []SessionInv
<1>1. Init => SessionInv
  <2>1. BlankLeg \in LegRow /\ NewOrder \in OrderRow
    BY BlankLegType DEF NewOrder, OrderRow, DeliveryStatus
  <2> QED
    BY <2>1, NoRequestType DEF Init, SessionInv, TypeOK, Fresh
<1>2. SessionInv /\ [Next]_vars => SessionInv'
  <2>1. ASSUME SessionInv, UNCHANGED vars
        PROVE  SessionInv'
    BY <2>1 DEF SessionInv, TypeOK, Fresh, vars
  <2> QED
    BY <2>1, StartKeeps, ProceedKeeps DEF Next
<1> QED
  BY <1>1, <1>2, PTL DEF Spec

-----------------------------------------------------------------------------
(* The properties of overlapping requests *)

(* The steps that write rows: the commits of a request. *)
LEMMA CommitsWrite ==
  ASSUME SessionInv, [Next]_vars
  PROVE  \/ leg' = leg /\ order' = order
         \/ \E w \in Worker :
               /\ leg' = Flushed(req[w])
               /\ \/ order' = order
                  \/ order' = Merge(order, req[w].do, req[w].new)
               /\ \A v \in Worker \ {w} : req'[v] = req[v]
<1>1. ASSUME NEW w \in Worker, Start(w)
      PROVE  leg' = leg /\ order' = order
  BY <1>1 DEF Start, AssignDriver, UnassignDriver, AcceptOffer, RejectOffer,
     ReissueDryRun, DeleteLeg, Transition, CreateLeg, ApplyLoadType, Change, Load,
     TransitionOrder, SetHold, CancelOrder, LoadOrder
<1>2. ASSUME NEW w \in Worker, Commit(w) \/ Save(w)
      PROVE  /\ leg' = Flushed(req[w])
             /\ \/ order' = order
                \/ order' = Merge(order, req[w].do, req[w].new)
             /\ \A v \in Worker \ {w} : req'[v] = req[v]
  BY <1>2 DEF SessionInv, TypeOK, Commit, Save
<1>3. ASSUME NEW w \in Worker, Proceed(w), ~(Commit(w) \/ Save(w))
      PROVE  leg' = leg /\ order' = order
  BY <1>3 DEF Proceed, Flush, Refresh, ReadOrder, CountLegs, SwallowFailure, Fail
<1>4. CASE UNCHANGED vars
  BY <1>4 DEF vars
<1> QED
  BY <1>1, <1>2, <1>3, <1>4 DEF Next

(* A status is only ever written along an edge from the status its writer  *)
(* loaded, or by a reissue (transition, assign_driver, unassign_driver and *)
(* reissue_dry_run under overlap): whatever breaks the graph is an overlap.*)
THEOREM StatusAlwaysSteps == Spec => StatusStepsSeen
<1>1. ASSUME SessionInv, [Next]_vars, NEW l \in LegId, leg'[l].status # leg[l].status
      PROVE  \E w \in Worker :
                /\ l \in DOMAIN req[w].seen /\ req[w].dirty
                /\ \/ <<req[w].seen[l].status, leg'[l].status>> \in LegEdge
                   \/ /\ req[w].seen[l].status \in {"ASSIGNED", "IN_TRANSIT"}
                      /\ leg'[l].status = "DRY_RUN"
  <2>1. PICK w \in Worker : leg' = Flushed(req[w])
    BY <1>1, CommitsWrite
  <2>2. req[w].dirty /\ l \in DOMAIN req[w].mine
    BY <1>1, <2>1, FlushedLegs
  <2>3. /\ l \in DOMAIN req[w].seen
        /\ leg'[l].status = req[w].mine[l].status
        /\ req[w].mine[l].status # req[w].seen[l].status
    BY <1>1, <2>1, <2>2, FlushedLegs
  <2>4. Moves(req[w].seen[l].status, req[w].mine[l].status)
    BY <1>1, <2>2 DEF SessionInv, Sound
  <2> QED
    BY <2>2, <2>3, <2>4 DEF Moves
<1>2. SessionInv /\ [Next]_vars
        => [\A l \in LegId :
              leg'[l].status # leg[l].status =>
                 \E w \in Worker :
                    /\ l \in DOMAIN req[w].seen /\ req[w].dirty
                    /\ \/ <<req[w].seen[l].status, leg'[l].status>> \in LegEdge
                       \/ /\ req[w].seen[l].status \in {"ASSIGNED", "IN_TRANSIT"}
                          /\ leg'[l].status = "DRY_RUN"]_vars
  BY <1>1
<1> QED
  BY <1>2, SessionsAreSound, PTL DEF Spec, StatusStepsSeen

(* A cancelled order stays cancelled, however late a derivation or a hold  *)
(* commits that loaded it before (cancel, set_hold, transition and         *)
(* derive_do_dispatch_state under overlap).                                *)
THEOREM CancelAlwaysSticks == Spec => CancelSticks
<1>1. ASSUME SessionInv, [Next]_vars, order.cancelled
      PROVE  order'.cancelled
  <2>1. ASSUME NEW w \in Worker, order' = Merge(order, req[w].do, req[w].new)
        PROVE  order'.cancelled
    <3>1. /\ order \in OrderRow /\ req[w].do \in OrderRow /\ req[w].new \in OrderRow
          /\ req[w].do.cancelled => req[w].new.cancelled
      BY <1>1 DEF SessionInv, TypeOK, Request, Sound
    <3>2. order'.cancelled = IF req[w].new.cancelled # req[w].do.cancelled
                             THEN req[w].new.cancelled ELSE order.cancelled
      BY <2>1, <3>1, MergeOrder
    <3>3. req[w].new.cancelled \in BOOLEAN /\ req[w].do.cancelled \in BOOLEAN
      BY <3>1 DEF OrderRow
    <3> QED
      BY <1>1, <3>1, <3>2, <3>3
  <2> QED
    BY <1>1, <2>1, CommitsWrite
<1>2. SessionInv /\ [Next]_vars => [order.cancelled => order'.cancelled]_vars
  BY <1>1
<1> QED
  BY <1>2, SessionsAreSound, PTL DEF Spec, CancelSticks

(* A request that loaded a leg before it was deleted does not bring it     *)
(* back: a flush writes is_active only where the request changed it        *)
(* (delete, apply_load_type and every request that saves a loaded leg).    *)
THEOREM DeletedAlwaysStays == Spec => DeletedStaysDeleted
<1>1. ASSUME SessionInv, [Next]_vars, NEW l \in LegId, NEW w \in Worker,
             ~leg[l].is_active, leg'[l].is_active,
             l \in DOMAIN req[w].seen, req'[w] # req[w]
      PROVE  ~req[w].seen[l].is_active
  <2>1. leg'[l] # leg[l]
    BY <1>1
  <2>2. leg' = Flushed(req[w])
    BY <1>1, <2>1, CommitsWrite
  <2>3. req[w].dirty /\ l \in DOMAIN req[w].mine
    BY <1>1, <2>1, <2>2, FlushedLegs
  <2>4. /\ req[w].mine[l].is_active \in BOOLEAN /\ req[w].seen[l].is_active \in BOOLEAN
        /\ leg'[l].is_active = IF req[w].mine[l].is_active # req[w].seen[l].is_active
                               THEN req[w].mine[l].is_active ELSE leg[l].is_active
    BY <1>1, <2>2, <2>3, FlushedLegs DEF LegRow
  <2> QED
    BY <1>1, <2>4
<1>2. SessionInv /\ [Next]_vars
        => [\A l \in LegId, w \in Worker :
              /\ ~leg[l].is_active /\ leg'[l].is_active
              /\ l \in DOMAIN req[w].seen /\ req'[w] # req[w]
              => ~req[w].seen[l].is_active]_vars
  BY <1>1
<1> QED
  BY <1>2, SessionsAreSound, PTL DEF Spec, DeletedStaysDeleted
=============================================================================
