----------------------------- MODULE DispatchRC -----------------------------
(***************************************************************************)
(* The requests of Dispatch when they overlap.  Every request has a        *)
(* session of its own (get_write_db) on MySQL at READ COMMITTED, with      *)
(* autoflush and expire_on_commit off and no SELECT ... FOR UPDATE:        *)
(*                                                                         *)
(*  - a SELECT sees what is committed when it runs, but a row the session  *)
(*    already loaded keeps its old attributes (the identity map), unless   *)
(*    the session refreshes it;                                            *)
(*  - a guard is evaluated on loaded attributes, not on the row;           *)
(*  - a flush writes only the columns whose attribute differs from the     *)
(*    loaded value, so two requests lose one another's update exactly      *)
(*    when they change the same column;                                    *)
(*  - a flushed row is locked until the commit, and an inserted leg holds  *)
(*    a shared lock on its order too (its foreign key).                    *)
(*                                                                         *)
(* leg and order are the committed rows.  A request is at                  *)
(*    "change"   it loaded its legs, will flush the changes to them,       *)
(*    "refresh"  it committed, will refresh the leg it changed,            *)
(*    "derive"   it will load the order to derive its status,              *)
(*    "count"    it loaded the order, will load the legs,                  *)
(*    "save"     it knows the order's new columns, will commit them.       *)
(* A request on the order starts at "save".                                *)
(*                                                                         *)
(* The derivation of work_state is left to Dispatch: it touches neither    *)
(* legs nor order.                                                         *)
(***************************************************************************)
EXTENDS LegStates

CONSTANT Worker       \* the requests that may be in flight at a time

VARIABLES leg, issued, order,
          req         \* what the session of each request holds

vars == <<leg, issued, order, req>>

-----------------------------------------------------------------------------

Phase == {"idle", "change", "refresh", "derive", "count", "save"}

NewOrder ==
  [is_active |-> TRUE, status |-> "PLANNING", is_on_hold |-> FALSE,
   cancelled |-> FALSE]

(* Rows loaded by a session: a function on the identifiers loaded.         *)
LegMap == UNION {[S -> LegRow] : S \in SUBSET LegId}
NoLegs == [l \in {} |-> BlankLeg]

(* Whether a request derives the status of the order, and on which side of *)
(* the commit of its legs.                                                 *)
Derives == {"never", "before", "after"}

(* seen and mine are the legs of the session as loaded and as changed by   *)
(* it; dirty says their changes are not committed yet, and seen matters no *)
(* more once they are.  do and new are the order as loaded and as it will  *)
(* be saved, equal when the request leaves it alone.                       *)
Request ==
  [at : Phase, seen : LegMap, mine : LegMap, dirty : BOOLEAN,
   derives : Derives, do : OrderRow, new : OrderRow]

NoRequest ==
  [at |-> "idle", seen |-> NoLegs, mine |-> NoLegs, dirty |-> FALSE,
   derives |-> "never", do |-> NewOrder, new |-> NewOrder]

TypeOK ==
  /\ leg \in [LegId -> LegRow]
  /\ issued \in 0 .. MaxLegs
  /\ order \in OrderRow
  /\ req \in [Worker -> Request]

Init ==
  /\ leg = [l \in LegId |-> BlankLeg]
  /\ issued = 0
  /\ order = NewOrder
  /\ req = [w \in Worker |-> NoRequest]

-----------------------------------------------------------------------------
(* Sessions *)

(* Mutant: a flush writes the whole row. *)
Merge_WholeRow(row, seen, mine) == mine

(* A flush over the committed row: the changed columns, and only they.     *)
Merge(row, seen, mine) ==
  [col \in DOMAIN row |-> IF mine[col] # seen[col] THEN mine[col] ELSE row[col]]

(* The leg table once the flushed changes of the request are in it.        *)
Flushed(r) ==
  [l \in LegId |-> IF r.dirty /\ l \in DOMAIN r.mine
                   THEN Merge(leg[l], r.seen[l], r.mine[l])
                   ELSE leg[l]]

(* SELECT of the active legs in the session: the database decides which    *)
(* rows, the identity map what they contain.                               *)
Selected(r) ==
  {IF l \in DOMAIN r.mine THEN r.mine[l] ELSE leg[l] :
     l \in {k \in LegId : Flushed(r)[k].is_active}}

(* The legs a request changes, and those of them it inserts.               *)
Written(r)  == {l \in DOMAIN r.mine : r.mine[l] # r.seen[l]}
Inserted(r) == {l \in Written(r) : ~r.seen[l].is_active}

(* The other requests whose flushed legs are not committed.                *)
Flushers(w) ==
  {v \in Worker \ {w} : req[v].dirty /\ req[v].at \in {"derive", "count", "save"}}

LegsFree(w) ==
  \A v \in Flushers(w) : Written(req[v]) \cap Written(req[w]) = {}

OrderFree(w) == \A v \in Flushers(w) : Inserted(req[v]) = {}

(* A request whose session loaded the legs in DOMAIN mine and changed them *)
(* to mine.                                                                *)
Load(w, mine, derives) ==
  /\ req[w].at = "idle"
  /\ req' = [req EXCEPT
       ![w] = [NoRequest EXCEPT
                 !.at = "change", !.mine = mine, !.dirty = TRUE,
                 !.derives = derives,
                 !.seen = [l \in DOMAIN mine |-> leg[l]]]]
  /\ UNCHANGED <<leg, order>>

Change(w, l, row, derives) ==
  /\ leg[l].is_active
  /\ Load(w, [k \in {l} |-> row], derives)
  /\ UNCHANGED issued

LoadOrder(w, new) ==
  /\ req[w].at = "idle" /\ order.is_active
  /\ req' = [req EXCEPT ![w] = [NoRequest EXCEPT !.at = "save", !.do = order,
                                                 !.new = new]]
  /\ UNCHANGED <<leg, issued, order>>

-----------------------------------------------------------------------------
(* Requests on legs *)

AssignDriver(w, l, d) == Change(w, l, Assigned(leg[l], d), "after")

UnassignDriver(w, l) == Change(w, l, Unassigned(leg[l]), "after")

(* Mutant: the graph is not consulted. *)
Transition_Any(w, l, target) ==
  Change(w, l, [leg[l] EXCEPT !.status = target], "never")

(* transition and checkpoint_leg. *)
Transition(w, l, target) ==
  /\ <<leg[l].status, target>> \in LegEdge
  /\ Change(w, l, [leg[l] EXCEPT !.status = target], "never")

AcceptOffer(w, l) ==
  /\ leg[l].driver_id # NoDriver /\ ~leg[l].accepted /\ ~leg[l].rejected
  /\ Change(w, l, Accepted(leg[l]), "never")

RejectOffer(w, l) ==
  /\ leg[l].driver_id # NoDriver /\ ~leg[l].accepted
  /\ Change(w, l, Rejected(leg[l]), "never")

(* The copy is invisible to every other session until the commit; an       *)
(* identifier whose request fails is never used again.                     *)
ReissueDryRun(w, l) ==
  /\ leg[l].is_active /\ leg[l].status \in Reissuable
  /\ issued < MaxLegs /\ issued' = issued + 1
  /\ Load(w, [k \in {l, issued + 1} |->
                IF k = l THEN [leg[l] EXCEPT !.status = "DRY_RUN"]
                ELSE NewLeg(leg[l].container_id, NoDriver, l)], "after")

CreateLeg(w, c, d) ==
  /\ issued < MaxLegs /\ issued' = issued + 1
  /\ Load(w, [k \in {issued + 1} |-> NewLeg(c, d, 0)], "before")

DeleteLeg(w, l) ==
  Change(w, l, [leg[l] EXCEPT !.is_active = FALSE], "before")

(* apply_load_type with replace_existing, for a template of one step.      *)
ApplyLoadType(w, c) ==
  LET existing == {l \in LegId : leg[l].is_active /\ leg[l].container_id = c} IN
  /\ \A l \in existing : leg[l].status \notin Protected
  /\ issued < MaxLegs /\ issued' = issued + 1
  /\ Load(w, [k \in existing \cup {issued + 1} |->
                IF k \in existing THEN [leg[k] EXCEPT !.is_active = FALSE]
                ELSE NewLeg(c, NoDriver, 0)], "before")

-----------------------------------------------------------------------------
(* Requests on the order *)

TransitionOrder(w, target) ==
  /\ <<order.status, target>> \in OrderEdge
  /\ LoadOrder(w, [order EXCEPT !.status = target])

SetHold(w, on_hold) ==
  /\ ~order.cancelled
  /\ LoadOrder(w, [order EXCEPT !.is_on_hold = on_hold])

CancelOrder(w) ==
  /\ ~order.cancelled
  /\ LoadOrder(w, [order EXCEPT !.cancelled = TRUE, !.is_on_hold = FALSE])

-----------------------------------------------------------------------------
(* The rest of a request *)

(* create, delete and apply_load_type flush their legs and derive in the   *)
(* same transaction.                                                       *)
Flush(w) ==
  /\ req[w].at = "change" /\ req[w].derives = "before" /\ LegsFree(w)
  /\ req' = [req EXCEPT ![w].at = "derive"]
  /\ UNCHANGED <<leg, issued, order>>

Commit(w) ==
  LET r == req[w] IN
  /\ r.at = "change" /\ r.derives # "before" /\ LegsFree(w)
  /\ leg' = Flushed(r)
  /\ req' = [req EXCEPT
       ![w] = IF r.derives = "after"
              THEN [r EXCEPT !.at = "refresh", !.dirty = FALSE,
                             !.seen = NoLegs]
              ELSE NoRequest]
  /\ UNCHANGED <<issued, order>>

(* assign_driver and unassign_driver refresh the leg; reissue_dry_run      *)
(* refreshes the copy, and keeps the old leg as it changed it.             *)
Refresh(w) ==
  LET r    == req[w]
      last == CHOOSE l \in DOMAIN r.mine : \A k \in DOMAIN r.mine : k <= l
  IN
  /\ r.at = "refresh"
  /\ req' = [req EXCEPT ![w] = [r EXCEPT !.at = "derive",
                                         !.mine[last] = leg[last]]]
  /\ UNCHANGED <<leg, issued, order>>

(* derive_do_dispatch_state loads the order; an order it must leave alone  *)
(* ends it, with whatever the transaction changed committed.               *)
ReadOrder(w) ==
  LET r == req[w] IN
  /\ r.at = "derive"
  /\ req' = [req EXCEPT
       ![w] = IF AutoDerived(order)
              THEN [r EXCEPT !.at = "count", !.do = order, !.new = order]
              ELSE [r EXCEPT !.at = "save"]]
  /\ UNCHANGED <<leg, issued, order>>

CountLegs(w) ==
  LET r == req[w] IN
  /\ r.at = "count"
  /\ req' = [req EXCEPT
       ![w] = [r EXCEPT !.at = "save",
                        !.new.status = DispatchStatus(Selected(r))]]
  /\ UNCHANGED <<leg, issued, order>>

(* delete swallows a derivation that fails and commits the deletion; the   *)
(* other requests that derive in their transaction fail with it.           *)
SwallowFailure(w) ==
  LET r == req[w] IN
  /\ r.at \in {"derive", "count"} /\ r.derives = "before" /\ Inserted(r) = {}
  /\ req' = [req EXCEPT ![w] = [r EXCEPT !.at = "save"]]
  /\ UNCHANGED <<leg, issued, order>>

(* The last commit of the request. *)
Save(w) ==
  LET r == req[w] IN
  /\ r.at = "save"
  /\ r.new # r.do => OrderFree(w)
  /\ leg' = Flushed(r)
  /\ order' = Merge(order, r.do, r.new)
  /\ req' = [req EXCEPT ![w] = NoRequest]
  /\ UNCHANGED issued

(* The request fails (a deadlock, a lock wait that times out, a lost       *)
(* connection) or its process dies: what is not committed is lost.         *)
Fail(w) ==
  /\ req[w].at # "idle"
  /\ req' = [req EXCEPT ![w] = NoRequest]
  /\ UNCHANGED <<leg, issued, order>>

-----------------------------------------------------------------------------

Start(w) ==
  \/ \E l \in LegId, d \in Driver : AssignDriver(w, l, d)
  \/ \E l \in LegId :
        \/ UnassignDriver(w, l) \/ AcceptOffer(w, l) \/ RejectOffer(w, l)
        \/ ReissueDryRun(w, l)  \/ DeleteLeg(w, l)
  \/ \E l \in LegId, target \in LegStatus : Transition(w, l, target)
  \/ \E c \in Container \cup {NoContainer}, d \in Driver \cup {NoDriver} :
        CreateLeg(w, c, d)
  \/ \E c \in Container : ApplyLoadType(w, c)
  \/ \E target \in DeliveryStatus : TransitionOrder(w, target)
  \/ \E on_hold \in BOOLEAN : SetHold(w, on_hold)
  \/ CancelOrder(w)

Proceed(w) ==
  \/ Flush(w)     \/ Commit(w)    \/ Refresh(w)
  \/ ReadOrder(w) \/ CountLegs(w) \/ Save(w)
  \/ SwallowFailure(w) \/ Fail(w)

Next == \E w \in Worker : Start(w) \/ Proceed(w)

Spec == Init /\ [][Next]_vars

-----------------------------------------------------------------------------
(* Properties of overlapping requests *)

(* A status is written along an edge of the graph from the status its      *)
(* writer loaded, or ends a reissuable leg: the graph can be violated by   *)
(* an overlap, never by a request on its own.                              *)
StatusStepsSeen ==
  [][\A l \in LegId :
        leg'[l].status # leg[l].status =>
           \E w \in Worker :
              /\ l \in DOMAIN req[w].seen /\ req[w].dirty
              /\ \/ <<req[w].seen[l].status, leg'[l].status>> \in LegEdge
                 \/ /\ req[w].seen[l].status \in {"ASSIGNED", "IN_TRANSIT"}
                    /\ leg'[l].status = "DRY_RUN"]_vars

(* No request that loaded the order before it was cancelled brings it      *)
(* back: neither a derivation nor a hold writes the column.                *)
CancelSticks == [][order.cancelled => order'.cancelled]_vars

(* Only the request that inserts a leg makes it active: a request that     *)
(* loaded a leg before it was deleted does not undelete it.                *)
DeletedStaysDeleted ==
  [][\A l \in LegId, w \in Worker :
        /\ ~leg[l].is_active /\ leg'[l].is_active
        /\ l \in DOMAIN req[w].seen /\ req'[w] # req[w]
        => ~req[w].seen[l].is_active]_vars
=============================================================================
