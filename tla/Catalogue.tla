----------------------------- MODULE Catalogue -----------------------------
(***************************************************************************)
(* A master table with its readers: a client that keeps a copy of it by    *)
(* delta syncs, and one that walks through its pages.                      *)
(*                                                                         *)
(* A sync is two statements of a READ COMMITTED session (SyncItems and     *)
(* SyncDeleted), so that writes may commit in between.  The client is not  *)
(* part of the repository: it takes the items in, drops the deleted ids    *)
(* and sends sync_time as the since of its next request, as SyncMeta asks. *)
(*                                                                         *)
(* fresh and slipped are history, no action reads them: the rows committed *)
(* since the last sync began to read, and those whose last change no sync  *)
(* is able to see: it was written in the second of a sync, or before, and  *)
(* committed after the sync read, or it did not touch the row at all.      *)
(***************************************************************************)
EXTENDS MasterTable

CONSTANT Take    \* the size of a page, which the client names

ASSUME TakeBound == Take \in Nat \ {0}

VARIABLES
  client,     \* the copy and its sync
  pager,      \* a walk through the pages
  fresh, slipped

readerVars == <<client, pager, fresh, slipped>>
vars == <<masterVars, readerVars>>

Missing == [value |-> Null, label |-> FALSE, shown |-> FALSE]
Shown(r) == IF r.is_active
            THEN [value |-> r.value, label |-> r.label, shown |-> TRUE]
            ELSE Missing

NoWalk == [state |-> "off", order |-> "ASC", cursor |-> 0, saw |-> <<>>,
           steady |-> {}]

Init ==
  /\ MasterInit
  /\ client = [since |-> 0, sync_time |-> 0, reading |-> FALSE,
               copy |-> [i \in Id |-> Missing]]
  /\ pager = NoWalk
  /\ fresh = {} /\ slipped = {}

-----------------------------------------------------------------------------
(* Delta sync.  CommonService.sync_delta *)

HasSync == table \notin {"truck", "chassis", "equipment_pool",
                         "addon_driver_rate", "chassis_event", "api_key"}

Changed(since) == {i \in Id : row[i].updated_at > 0 /\ row[i].updated_at >= since}

(* sync_time is taken before the first query: the items. *)
SyncItems ==
  /\ HasSync /\ ~client.reading
  /\ client' = [client EXCEPT
       !.reading = TRUE, !.sync_time = now,
       !.copy = [i \in Id |-> IF i \in Changed(client.since) \cap ActiveIds
                              THEN Shown(row[i]) ELSE @[i]]]
  /\ fresh' = {}
  /\ slipped' = slipped \ Changed(client.since)
  /\ UNCHANGED <<masterVars, pager>>

(* Mutant: sync_time is the time of the answer. *)
SyncDeleted_Late ==
  /\ client.reading
  /\ client' = [client EXCEPT
       !.reading = FALSE, !.since = now,
       !.copy = [i \in Id |-> IF i \in Changed(client.since) \ ActiveIds
                              THEN Missing ELSE @[i]]]
  /\ UNCHANGED <<masterVars, pager, fresh, slipped>>

(* The second query, the ids deleted; the client has its answer.           *)
SyncDeleted ==
  /\ client.reading
  /\ client' = [client EXCEPT
       !.reading = FALSE, !.since = client.sync_time,
       !.copy = [i \in Id |-> IF i \in Changed(client.since) \ ActiveIds
                              THEN Missing ELSE @[i]]]
  /\ UNCHANGED <<masterVars, pager, fresh, slipped>>

(* Which of the rows a transaction changes no later sync will return: they *)
(* were stamped before the last sync_time, or the row was not stamped.     *)
Written(s) == {i \in DOMAIN Mine(s) : Mine(s)[i] # row[i]}
OnlyNamed(s, i) == Mine(s)[i].label # row[i].label
Slipping(s) ==
  {i \in Written(s) : OnlyNamed(s, i)
                      \/ tx[s].at[i] < client.sync_time}

-----------------------------------------------------------------------------
(* Pages.  CommonService.cursor_paginate, with the cursor in next *)

(* The order of the rows of a page, which is that of their ids.            *)
Before(order, i, j) == IF order = "ASC" THEN i < j ELSE j < i

(* Mutant: the cursor of a descending walk asks for larger ids.            *)
Beyond_Ascending(order, cursor) ==
  {i \in ActiveIds : cursor = 0 \/ i > cursor}

Beyond(order, cursor) ==
  {i \in ActiveIds : cursor = 0 \/ Before(order, cursor, i)}

(* The first Take rows found, and the last of them.                        *)
FirstOf(found, order) ==
  {i \in found : Cardinality({j \in found : Before(order, j, i)}) < Take}

LastOf(page, order) ==
  CHOOSE i \in page : \A j \in page : j = i \/ Before(order, j, i)

(* A page: take + 1 rows are asked for to know whether there are more.     *)
ReadPage ==
  LET found == Beyond(pager.order, pager.cursor)
      page  == FirstOf(found, pager.order)
      more  == Cardinality(found) > Take
  IN
  /\ pager.state = "on"
  /\ pager' = [pager EXCEPT
       !.saw = Append(@, page),
       !.state = IF more THEN "on" ELSE "done",
       !.cursor = IF more THEN LastOf(page, pager.order) ELSE @]
  /\ UNCHANGED <<masterVars, client, fresh, slipped>>

(* A walk begins; steady are the rows active all along.                    *)
StartWalk(order) ==
  /\ table \notin {"addon_driver_rate", "api_key"}   \* these have no pages
  /\ pager.state = "off"
  /\ pager' = [NoWalk EXCEPT !.state = "on", !.order = order,
                             !.steady = ActiveIds]
  /\ UNCHANGED <<masterVars, client, fresh, slipped>>

-----------------------------------------------------------------------------

(* A commit, and what the readers' history makes of it. *)
CommitSeen(s) ==
  /\ Commit(s)
  /\ fresh' = fresh \cup Written(s)
  /\ slipped' = (slipped \ Written(s)) \cup Slipping(s)
  /\ pager' = [pager EXCEPT !.steady = {i \in @ : row'[i].is_active}]
  /\ UNCHANGED client

(* The routers: the requests each of the tables takes. *)
Request(s, services) ==
  \/ \E op \in services : Receive(s, op) /\ UNCHANGED readerVars
  \/ Step(s) /\ UNCHANGED readerVars
  \/ CommitSeen(s)
  \/ Rollback(s) /\ UNCHANGED readerVars

CustomerRouter(s)      == table = "customer" /\ Request(s, CustomerService)
LocationRouter(s)      == table = "location" /\ Request(s, LocationService)
TerminalRouter(s)      == table = "terminal" /\ Request(s, TerminalService)
VesselRouter(s)        == table = "vessel" /\ Request(s, VesselService)
NotificationRouter(s)  == table = "notification" /\ Request(s, NotificationService)
TruckRouter(s)         == table = "truck" /\ Request(s, TruckService)
ChassisRouter(s)       == table = "chassis" /\ Request(s, ChassisService)
EquipmentPoolRouter(s) == table = "equipment_pool"
                          /\ Request(s, EquipmentPoolService)
DriverRouter(s)        == table = "driver" /\ Request(s, DriverService)
AddonRouter(s)         == \/ table = "addon" /\ Request(s, AddonService)
                          \/ table = "addon_driver_rate"
                             /\ Request(s, AddonDriverRateService)
LoadTypeTemplateRouter(s) == table = "load_type_template"
                             /\ Request(s, LoadTypeTemplateService)
ServiceAreaRouter(s)   == table = "service_area"
                          /\ Request(s, ServiceAreaService)
StreetTurnRouter(s)    == table = "street_turn" /\ Request(s, StreetTurnService)
ChassisEventRouter(s)  == table = "chassis_event"
                          /\ Request(s, ChassisEventService)
ApiKeyRouter(s)        == table = "api_key" /\ Request(s, ApiKeyService)
DeliveryOrderRouter(s) == table = "delivery_order"
                          /\ Request(s, DeliveryOrderService)
LegRouter(s)           == table = "leg" /\ Request(s, LegService)
DualTransactionRouter(s) == table = "dual_transaction"
                            /\ Request(s, DualTransactionService)

Write ==
  \E s \in Session :
     \/ CustomerRouter(s)      \/ LocationRouter(s)
     \/ TerminalRouter(s)      \/ VesselRouter(s)
     \/ NotificationRouter(s)  \/ TruckRouter(s)
     \/ ChassisRouter(s)       \/ EquipmentPoolRouter(s)
     \/ DriverRouter(s)        \/ AddonRouter(s)
     \/ LoadTypeTemplateRouter(s) \/ ServiceAreaRouter(s)
     \/ StreetTurnRouter(s)   \/ ChassisEventRouter(s)
     \/ ApiKeyRouter(s)       \/ DeliveryOrderRouter(s)
     \/ LegRouter(s)          \/ DualTransactionRouter(s)

Next ==
  \/ Write
  \/ Pass /\ UNCHANGED readerVars
  \/ SyncItems
  \/ SyncDeleted
  \/ \E order \in {"ASC", "DESC"} : StartWalk(order)
  \/ ReadPage

Spec == Init /\ [][Next]_vars

-----------------------------------------------------------------------------
(* What the tables owe their readers *)

(* The unique key, which counts deleted rows, stands in the way of a       *)
(* create that its own look-up has let through only for a row that was     *)
(* not in the table when it looked, or, where it looks among the active    *)
(* rows, for a deleted one, which nothing ever brings back.  A service     *)
(* area or the rate of a driver finds the deleted row and revives it       *)
(* (get_duplicate, _get_driver_rate_any, find_for_code, dup_q).            *)
LookedBeforeItInserts ==
  Repository[table].finds # "nothing" =>
    \A s \in Session : \A m \in DOMAIN tx[s].todo :
      LET x == tx[s].todo[m] IN
      x.id = 0 => \A i \in tx[s].there \cap Holders(row, x.value) :
                     Repository[table].finds = "active" /\ ~row[i].is_active

(* A row that is deleted comes back only by the create of a service area   *)
(* or of the rate of a driver: an update that read it before the delete    *)
(* does not bring it back (update, soft_deactivate_by_id).                 *)
DeletedComesBackOnPurpose ==
  [][\A i \in Id :
        row[i].updated_at > 0 /\ ~row[i].is_active /\ row'[i].is_active
        => \E s \in Session : tx[s].op = "create"
                              /\ table \in {"service_area", "addon_driver_rate"}]_vars

(* Between syncs the client has every row as it is in the table, except    *)
(* those committed since its last sync began and those that slipped by     *)
(* (sync_delta): updates, deletes and revivals all reach it.               *)
SyncIsComplete ==
  ~client.reading /\ client.since > 0 =>
    \A i \in Id : client.copy[i] # Shown(row[i]) => i \in fresh \cup slipped

(* A walk through the pages in the order of the ids meets every row that   *)
(* is active all along, and none twice, whatever is inserted and deleted   *)
(* meanwhile (cursor_paginate).                                            *)
WalkIsExact ==
  pager.state = "done" =>
    /\ \A i \in pager.steady : \E n \in DOMAIN pager.saw : i \in pager.saw[n]
    /\ \A m, n \in DOMAIN pager.saw : m # n => pager.saw[m] \cap pager.saw[n] = {}
=============================================================================
