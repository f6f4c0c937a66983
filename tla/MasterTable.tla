---------------------------- MODULE MasterTable ----------------------------
(***************************************************************************)
(* A table of a team: customers, locations, terminals, vessels,            *)
(* notifications, trucks, chassis, equipment pools, drivers, addons, the   *)
(* driver rates of an addon, load type templates, service areas, street    *)
(* turns, chassis events, API keys, and delivery orders, legs and dual     *)
(* transactions as rows that are read and synced, whatever their statuses. *)
(* Their services and repositories are copies of one another with a few    *)
(* differences, which the descriptors below state; table says which of     *)
(* them this behaviour is about.                                           *)
(*                                                                         *)
(* A request is a transaction: it reads (Receive), writes one item after   *)
(* the other under row locks (Write), and commits or rolls back.  The      *)
(* clock runs in half seconds, the columns created_at and updated_at keep  *)
(* whole seconds.  value is the column of the unique key (the code, the    *)
(* plate number ...), or any other column where the table has no such key. *)
(* label is a column another table owns: the name a driver's user has.     *)
(***************************************************************************)
EXTENDS Naturals, Sequences, FiniteSets

CONSTANTS
  Value,     \* what the key column may hold
  Null,      \* or no value at all
  Session,   \* the requests that may be under way at once
  MaxRows,   \* bound: rows ever inserted
  MaxTime    \* bound: half seconds on the clock

ASSUME RowsBound == MaxRows \in Nat

Id   == 1 .. MaxRows
Tick == 0 .. MaxTime

VARIABLES
  table,     \* the table this behaviour is about
  row,       \* its committed rows
  issued,    \* the last id handed out
  tx,        \* the transactions under way
  now        \* the clock

masterVars == <<table, row, issued, tx, now>>

-----------------------------------------------------------------------------
(* The rows and the unique keys *)

KeyColumn(nullable, unique) ==
  [values |-> IF nullable THEN Value \cup {Null} ELSE Value,
   unique |-> unique]

CustomerModel         == KeyColumn(TRUE, TRUE)     \* code
LocationModel         == KeyColumn(FALSE, FALSE)   \* name
TerminalModel         == KeyColumn(TRUE, TRUE)     \* code
VesselModel           == KeyColumn(TRUE, TRUE)     \* imo_number
NotificationModel     == KeyColumn(FALSE, FALSE)   \* title
TruckModel            == KeyColumn(FALSE, TRUE)    \* plate_no
ChassisModel          == KeyColumn(FALSE, TRUE)    \* chassis_number
EquipmentPoolModel    == KeyColumn(FALSE, TRUE)    \* name
DriverModel           == KeyColumn(FALSE, TRUE)    \* user_id
AddonModel            == KeyColumn(FALSE, TRUE)    \* code
AddonDriverRateModel  == KeyColumn(FALSE, TRUE)    \* (addon_id, driver_id)
LoadTypeTemplateModel == KeyColumn(FALSE, TRUE)    \* code
ServiceAreaModel      == KeyColumn(FALSE, TRUE)    \* (kind, state, value)
StreetTurnModel       == KeyColumn(FALSE, TRUE)    \* import_order_id
ChassisEventModel     == KeyColumn(FALSE, FALSE)   \* event_kind
ApiKeyModel           == KeyColumn(FALSE, TRUE)    \* key
DeliveryOrderModel    == KeyColumn(TRUE, FALSE)    \* bl_number
LegModel              == KeyColumn(FALSE, FALSE)   \* status
DualTransactionModel  == KeyColumn(FALSE, FALSE)   \* status

Column ==
  [customer |-> CustomerModel, location |-> LocationModel,
   terminal |-> TerminalModel, vessel |-> VesselModel,
   notification |-> NotificationModel, truck |-> TruckModel,
   chassis |-> ChassisModel, equipment_pool |-> EquipmentPoolModel,
   driver |-> DriverModel, addon |-> AddonModel,
   addon_driver_rate |-> AddonDriverRateModel,
   load_type_template |-> LoadTypeTemplateModel,
   service_area |-> ServiceAreaModel, street_turn |-> StreetTurnModel,
   chassis_event |-> ChassisEventModel, api_key |-> ApiKeyModel,
   delivery_order |-> DeliveryOrderModel, leg |-> LegModel,
   dual_transaction |-> DualTransactionModel]

Table == DOMAIN Column

Row == [is_active : BOOLEAN, value : Value \cup {Null}, label : BOOLEAN,
        updated_at : Tick]

(* A row not inserted yet.  Committed rows have a positive updated_at.     *)
NoRow == [is_active |-> FALSE, value |-> Null, label |-> FALSE,
          updated_at |-> 0]

-----------------------------------------------------------------------------
(* What each repository does with the key: finds is what a create looks    *)
(* for before it inserts, keeps tells that an update leaves the key alone. *)

Keeps(finds)  == [finds |-> finds, keeps |-> TRUE]
Writes(finds) == [finds |-> finds, keeps |-> FALSE]

CustomerRepository         == Writes("nothing")
LocationRepository         == Writes("nothing")
TerminalRepository         == Writes("nothing")
VesselRepository           == Writes("nothing")
NotificationRepository     == Writes("nothing")
TruckRepository            == Writes("nothing")
ChassisRepository          == Writes("nothing")
EquipmentPoolRepository    == Writes("nothing")
DriverRepository           == Keeps("active")   \* get_active_by_user_id
AddonRepository            == Keeps("active")   \* find_for_code
AddonDriverRateRepository  == Keeps("any")      \* _get_driver_rate_any
LoadTypeTemplateRepository == Keeps("active")   \* find_by_code
ServiceAreaRepository      == Keeps("any")      \* get_duplicate
StreetTurnRepository       == Keeps("active")   \* the dup_q of create
ChassisEventRepository     == Writes("nothing")
ApiKeyRepository           == Keeps("nothing")  \* a key drawn at random
DeliveryOrderRepository    == Writes("nothing")
LegRepository              == Writes("nothing")
DualTransactionRepository  == Writes("nothing")

Repository ==
  [customer |-> CustomerRepository, location |-> LocationRepository,
   terminal |-> TerminalRepository, vessel |-> VesselRepository,
   notification |-> NotificationRepository, truck |-> TruckRepository,
   chassis |-> ChassisRepository, equipment_pool |-> EquipmentPoolRepository,
   driver |-> DriverRepository, addon |-> AddonRepository,
   addon_driver_rate |-> AddonDriverRateRepository,
   load_type_template |-> LoadTypeTemplateRepository,
   service_area |-> ServiceAreaRepository,
   street_turn |-> StreetTurnRepository,
   chassis_event |-> ChassisEventRepository, api_key |-> ApiKeyRepository,
   delivery_order |-> DeliveryOrderRepository, leg |-> LegRepository,
   dual_transaction |-> DualTransactionRepository]

-----------------------------------------------------------------------------
(* The writes each service offers *)

One  == {"create", "update", "delete"}
Bulk == {"create_bulk", "update_bulk", "delete_bulk"}

CustomerService         == One \cup Bulk
LocationService         == One \cup Bulk
TerminalService         == One \cup Bulk
VesselService           == One \cup Bulk
NotificationService     == One \cup Bulk
TruckService            == One \cup {"delete_bulk"}
ChassisService          == One \cup {"delete_bulk"}
EquipmentPoolService    == One \cup {"delete_bulk"}
DriverService           == One \cup Bulk
AddonService            == One \cup {"seed_defaults"}
AddonDriverRateService  == {"create", "delete"}
LoadTypeTemplateService == One \cup {"seed_defaults"}
ServiceAreaService      == {"create", "delete"}
StreetTurnService       == One \cup Bulk   \* approve, reject, cancel update
ChassisEventService     == {"create"}
ApiKeyService           == One             \* revoke deletes
DeliveryOrderService    == One \cup {"update_bulk", "delete_bulk"}
LegService              == One \cup Bulk
DualTransactionService  == One             \* complete and cancel update

Service ==
  [customer |-> CustomerService, location |-> LocationService,
   terminal |-> TerminalService, vessel |-> VesselService,
   notification |-> NotificationService, truck |-> TruckService,
   chassis |-> ChassisService, equipment_pool |-> EquipmentPoolService,
   driver |-> DriverService, addon |-> AddonService,
   addon_driver_rate |-> AddonDriverRateService,
   load_type_template |-> LoadTypeTemplateService,
   service_area |-> ServiceAreaService, street_turn |-> StreetTurnService,
   chassis_event |-> ChassisEventService, api_key |-> ApiKeyService,
   delivery_order |-> DeliveryOrderService, leg |-> LegService,
   dual_transaction |-> DualTransactionService]

-----------------------------------------------------------------------------
(* Transactions *)

(* An item of a request: id is 0 for a row to insert; seen is the value    *)
(* the request read, touched tells that an update changes other columns    *)
(* and that the row a create found is deleted.  mine holds the rows a      *)
(* transaction wrote, at (history) the second it did, there (history) the  *)
(* rows that were in the table when a create looked for its key.           *)
Item(id, value, seen, touched) ==
  [id |-> id, value |-> value, seen |-> seen, touched |-> touched]

NoTx == [op |-> "none", todo |-> <<>>, mine |-> [i \in {} |-> NoRow],
         at |-> [i \in {} |-> 0], there |-> {}]

MasterInit ==
  /\ table \in Table
  /\ row = [i \in Id |-> NoRow]
  /\ issued = 0
  /\ tx = [s \in Session |-> NoTx]
  /\ now = 2

(* NOW() and UTC_TIMESTAMP() have no fraction of a second.                 *)
Stamp(t) == 2 * (t \div 2)

Mine(s) == tx[s].mine
View(s) == [i \in Id |-> IF i \in DOMAIN Mine(s) THEN Mine(s)[i] ELSE row[i]]
Locked(s, i) == \E o \in Session \ {s} : i \in DOMAIN Mine(o)

Inserted(rows)   == {i \in Id : rows[i].updated_at > 0}
Holders(rows, v) == {i \in Inserted(rows) : rows[i].value = v}

(* The unique key sees inactive rows, and rows other transactions wrote.   *)
KeyFree(s, v, i) ==
  Column[table].unique /\ v # Null =>
     /\ Holders(View(s), v) \subseteq {i}
     /\ \A o \in Session \ {s} :
           \A j \in DOMAIN Mine(o) \ {i} : Mine(o)[j].value # v

(* Mutant: the look-up of every repository is among the active rows.       *)
Found_Active(s, v) ==
  IF Repository[table].finds = "nothing" THEN {}
  ELSE {i \in Holders(View(s), v) : View(s)[i].is_active}

(* What a create finds: the active rows with the key, or all of them.      *)
Found(s, v) ==
  CASE Repository[table].finds = "nothing" -> {}
    [] Repository[table].finds = "active"  ->
         {i \in Holders(View(s), v) : View(s)[i].is_active}
    [] Repository[table].finds = "any"     -> Holders(View(s), v)

ActiveIds == {i \in Id : row[i].is_active}

(* A create of a key the repository finds active is refused, one it finds  *)
(* inactive is revived instead (ServiceAreaService.create,                 *)
(* AddonRepository.upsert_driver_rate, which overwrites an active row too).*)
Refused(s, v) ==
  table # "addon_driver_rate" /\ \E i \in Found(s, v) : row[i].is_active

NewItem(s, v) ==
  LET f == Found(s, v)
      i == IF f = {} \/ Repository[table].finds = "active" THEN 0 ELSE CHOOSE j \in f : TRUE
  IN  Item(i, v, v, i # 0 => ~row[i].is_active)

(* create, create_bulk, seed_defaults, which looks at each code later.     *)
CreateItems(s, op) ==
  LET V == Column[table].values
      W == {v \in V : ~Refused(s, v)}
  IN  CASE op = "create" -> {<<NewItem(s, v)>> : v \in W}
        [] op = "create_bulk" -> {<<NewItem(s, v), NewItem(s, w)>> : v \in W, w \in W}
        [] op = "seed_defaults" ->
             UNION {{<<Item(0, v, v, TRUE), Item(0, w, w, TRUE)>> : w \in V \ {v}} : v \in V}
        [] OTHER -> {}

(* What an update or a delete may do to a row it has read.                 *)
Changes(op, i) ==
  LET values == IF Repository[table].keeps \/ op \in {"delete", "delete_bulk"}
                THEN {row[i].value} ELSE Column[table].values
      touched == IF op \in {"update", "update_bulk"} THEN BOOLEAN ELSE {TRUE}
  IN  {Item(i, v, row[i].value, t) : v \in values, t \in touched}

(* update and delete read the rows first; all of them have to be active.   *)
ChangeItems(op) ==
  CASE op \in {"update", "delete"} ->
         UNION {{<<x>> : x \in Changes(op, i)} : i \in ActiveIds}
    [] op \in {"update_bulk", "delete_bulk"} ->
         UNION {{<<x, y>> : x \in Changes(op, i),
                            y \in UNION {Changes(op, j) : j \in ActiveIds \ {i}}} : i \in ActiveIds}
    [] OTHER -> {}

(* A request arrives and reads. *)
Receive(s, op) ==
  /\ tx[s] = NoTx
  /\ op \in Service[table]
  /\ \E items \in CreateItems(s, op) \cup ChangeItems(op) :
        tx' = [tx EXCEPT ![s] =
                 [NoTx EXCEPT !.op = op, !.todo = items,
                              !.there = IF op \in {"create", "create_bulk"}
                                        THEN Inserted(row) ELSE {}]]
  /\ UNCHANGED <<table, row, issued, now>>

Next1(s)  == Head(tx[s].todo)
Writing(s, ops) == tx[s].op \in ops /\ tx[s].todo # <<>>

Put(f, key, v) == [k \in DOMAIN f \cup {key} |-> IF k = key THEN v ELSE f[k]]

Save(s, i, r) ==
  tx' = [tx EXCEPT ![s].todo = Tail(@),
                   ![s].mine = Put(@, i, r),
                   ![s].at   = Put(@, i, Stamp(now))]
Skip(s) == tx' = [tx EXCEPT ![s].todo = Tail(@)]

(* INSERT: an id is handed out even if the request rolls back later.       *)
WriteCreate(s) ==
  LET v == Next1(s).value
      skip == tx[s].op = "seed_defaults" /\ Found(s, v) # {}
  IN
  /\ Writing(s, {"create", "create_bulk", "seed_defaults"}) /\ Next1(s).id = 0
  /\ IF skip THEN Skip(s) /\ UNCHANGED issued
     ELSE /\ issued < MaxRows
          /\ KeyFree(s, v, issued + 1)
          /\ issued' = issued + 1
          /\ Save(s, issued + 1, [is_active |-> TRUE, value |-> v,
                                  label |-> FALSE, updated_at |-> Stamp(now)])
  /\ UNCHANGED <<table, row, now>>

(* UPDATE of the columns that change in the row a create found.  is_active *)
(* is one of them if the row was deleted when it was read: a driver rate   *)
(* that was active then, and was deleted since, stays deleted.  Nothing is *)
(* written if the rate has the amounts already.                            *)
WriteRevive(s) ==
  LET i == Next1(s).id
      revives == Next1(s).touched
  IN
  /\ Writing(s, {"create"}) /\ i # 0
  /\ \/ /\ ~Locked(s, i)
        /\ Save(s, i, [View(s)[i] EXCEPT !.is_active = @ \/ revives,
                                         !.updated_at = Stamp(now)])
     \/ ~revives /\ Skip(s)
  /\ UNCHANGED <<table, row, issued, now>>

(* Mutant: the whole row that was read is written, is_active included.     *)
WriteUpdate_WholeRow(s) ==
  LET x == Next1(s) IN
  /\ Writing(s, {"update", "update_bulk"}) /\ ~Locked(s, x.id)
  /\ KeyFree(s, x.value, x.id)
  /\ Save(s, x.id, [View(s)[x.id] EXCEPT !.is_active = TRUE, !.value = x.value,
                                         !.updated_at = Stamp(now)])
  /\ UNCHANGED <<table, row, issued, now>>

(* update: the columns that differ from what was read are written, by id.  *)
(* The items of a bulk update are looked up once more, among the active    *)
(* rows.  Nothing is written if nothing differs.  The name of a driver is  *)
(* his user's, and writing it leaves the driver row alone.                 *)
WriteUpdate(s) ==
  LET x == Next1(s)
      r == View(s)[x.id]
      v == IF x.value = x.seen THEN r.value ELSE x.value
      named == [r EXCEPT !.label = IF table = "driver" THEN ~@ ELSE @]
  IN
  /\ Writing(s, {"update", "update_bulk"}) /\ ~Locked(s, x.id)
  /\ tx[s].op = "update_bulk" => r.is_active
  /\ KeyFree(s, v, x.id)
  /\ CASE x.value # x.seen \/ (x.touched /\ table # "driver") ->
            Save(s, x.id, [r EXCEPT !.value = v, !.updated_at = Stamp(now)])
       [] x.value = x.seen /\ x.touched /\ table = "driver" ->
            \/ Save(s, x.id, named)
            \/ Save(s, x.id, [r EXCEPT !.updated_at = Stamp(now)])
       [] OTHER -> Skip(s)
  /\ UNCHANGED <<table, row, issued, now>>

(* soft_deactivate_by_id: one statement, for a row that is still active;   *)
(* delete_driver_rate writes the row it has read.                          *)
WriteDelete(s) ==
  LET i == Next1(s).id IN
  /\ Writing(s, {"delete", "delete_bulk"}) /\ ~Locked(s, i)
  /\ IF View(s)[i].is_active \/ table = "addon_driver_rate"
     THEN Save(s, i, [View(s)[i] EXCEPT !.is_active = FALSE,
                                        !.updated_at = Stamp(now)])
     ELSE Skip(s)
  /\ UNCHANGED <<table, row, issued, now>>

(* get_write_db commits once the request has returned.                     *)
Commit(s) ==
  /\ tx[s].op # "none" /\ tx[s].todo = <<>>
  /\ row' = View(s)
  /\ tx' = [tx EXCEPT ![s] = NoTx]
  /\ UNCHANGED <<table, issued, now>>

(* Any failure rolls everything back: a key that is taken, a row that is   *)
(* gone, a deadlock, a lock that is not released in time, a lost client.   *)
Rollback(s) ==
  /\ tx[s].op # "none"
  /\ tx' = [tx EXCEPT ![s] = NoTx]
  /\ UNCHANGED <<table, row, issued, now>>

Pass ==
  /\ now < MaxTime /\ now' = now + 1
  /\ UNCHANGED <<table, row, issued, tx>>

Step(s) == WriteCreate(s) \/ WriteRevive(s) \/ WriteUpdate(s) \/ WriteDelete(s)
=============================================================================
