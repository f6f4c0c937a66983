--------------------------- MODULE CatalogueProofs ---------------------------
(***************************************************************************)
(* Theorems about the master tables and their readers, for any number of   *)
(* rows, key values and requests and pages of any size: what refuses a     *)
(* create, what may bring a deleted row back, what a delta sync leaves     *)
(* out, and what a walk through the pages meets.                           *)
(***************************************************************************)
EXTENDS Catalogue, FiniteSetTheorems, WellFoundedInduction, TLAPS

USE RowsBound

-----------------------------------------------------------------------------
(* The inductive invariant *)

Entry   == [is_active : BOOLEAN, value : Value \cup {Null}, label : BOOLEAN, updated_at : Nat]
ItemSet == [id : Nat, value : Value \cup {Null}, seen : Value \cup {Null}, touched : BOOLEAN]
OpSet   == {"none", "create", "update", "delete", "create_bulk", "update_bulk", "delete_bulk",
            "seed_defaults"}
Creates == {"create", "create_bulk", "seed_defaults"}

Written_Type == UNION {[S -> Entry] : S \in SUBSET Id}
At_Type      == UNION {[S -> Nat] : S \in SUBSET Id}

TxSet == [op : OpSet, todo : Seq(ItemSet), mine : Written_Type, at : At_Type, there : SUBSET Id]

Typed ==
  /\ table \in Table /\ issued \in 0 .. MaxRows /\ now \in Nat /\ now >= 2
  /\ row \in [Id -> Entry]
  /\ tx \in [Session -> TxSet]

(* The ids beyond the last one handed out belong to no row.                *)
Issued ==
  /\ \A i \in Id : row[i].updated_at > 0 => i <= issued
  /\ \A s \in Session : \A i \in DOMAIN Mine(s) :
        i <= issued /\ Mine(s)[i].updated_at > 0

(* A row that is active has been inserted.                                 *)
Alive == \A i \in Id : row[i].is_active => row[i].updated_at > 0

(* A row has one writer at a time.                                         *)
Apart ==
  \A s, o \in Session : s # o => DOMAIN Mine(s) \cap DOMAIN Mine(o) = {}

(* What a request has left to write: rows that are in the table and that   *)
(* it has not written yet, each of them once, and new ones.                *)
Todo(s) ==
  \A m \in DOMAIN tx[s].todo :
    LET x == tx[s].todo[m] IN
    /\ x.id = 0 => tx[s].op \in Creates
    /\ x.id # 0 => /\ x.id \in Id /\ x.id \notin DOMAIN Mine(s) /\ row[x.id].updated_at > 0
                   /\ tx[s].op \in Creates => table \in {"service_area", "addon_driver_rate"}
    /\ \A n \in DOMAIN tx[s].todo : x.id = tx[s].todo[n].id => m = n \/ x.id = 0

(* What a request has written over a deleted row leaves it deleted, but    *)
(* for the creates that revive.                                            *)
Stays(s) ==
  \A i \in DOMAIN Mine(s) :
    Mine(s)[i].is_active =>
      \/ row[i].is_active \/ row[i].updated_at = 0
      \/ tx[s].op = "create" /\ table \in {"service_area", "addon_driver_rate"}

(* Where the updates leave the key alone, a row keeps the one it has.      *)
SeenIn(t) ==
  Repository[table].keeps => \A m \in DOMAIN t.todo : t.todo[m].value = t.todo[m].seen

Kept ==
  /\ \A s \in Session : SeenIn(tx[s])
  /\ Repository[table].keeps =>
       \A s \in Session : \A i \in DOMAIN Mine(s) :
          row[i].updated_at = 0 \/ Mine(s)[i].value = row[i].value

(* What the look-up of a create has met, of the rows it is to insert.      *)
LookedIn(t) ==
  Repository[table].finds # "nothing" =>
    \A m \in DOMAIN t.todo :
      t.todo[m].id = 0 =>
        \A i \in t.there \cap Holders(row, t.todo[m].value) :
           Repository[table].finds = "active" /\ ~row[i].is_active

Looked == \A s \in Session : LookedIn(tx[s])

Met == \A s \in Session : \A i \in tx[s].there : row[i].updated_at > 0

MasterInv ==
  /\ Typed /\ Issued /\ Alive /\ Apart /\ Kept /\ Looked /\ Met
  /\ \A s \in Session : Todo(s) /\ Stays(s)

(* A row that was written bears the second it was written in, unless what  *)
(* changed is the name of its driver.                                      *)
Stamped ==
  \A s \in Session :
    /\ DOMAIN tx[s].at = DOMAIN Mine(s)
    /\ \A i \in DOMAIN Mine(s) :
         OnlyNamed(s, i) \/ Mine(s)[i].updated_at = tx[s].at[i]

(* What the client lacks: it will ask for it, or has it from the first of  *)
(* two statements of its sync, or it slipped by.                           *)
Synced ==
  /\ client \in [since : Nat, sync_time : Nat, reading : BOOLEAN,
                 copy : [Id -> {Shown(r) : r \in Entry}]]
  /\ client.reading \/ client.since = client.sync_time
  /\ \A i \in Id :
       \/ client.copy[i] = Shown(row[i])
       \/ i \in fresh \cup slipped
       \/ client.reading /\ i \in Changed(client.since) \ ActiveIds
  /\ \A i \in fresh \ slipped :
       i \in Id => row[i].updated_at > 0 /\ row[i].updated_at >= client.sync_time

CatalogueInv == MasterInv /\ Stamped /\ Synced

-----------------------------------------------------------------------------
(* The operators *)

(* What the repositories find, and the services that create in bulk.       *)
LEMMA TableFacts ==
  ASSUME NEW t \in Table
  PROVE  /\ Repository[t].finds \in {"nothing", "active", "any"}
         /\ Repository[t].finds = "any" =>
              t \in {"service_area", "addon_driver_rate"} /\ "create_bulk" \notin Service[t]
         /\ Repository[t].finds = "active" => t \notin {"service_area", "addon_driver_rate"}
         /\ Repository[t].finds # "nothing" => Repository[t].keeps
         /\ Service[t] \subseteq OpSet
         /\ Column[t].values \subseteq Value \cup {Null}
<1>1. Service[t] \subseteq One \cup Bulk \cup {"seed_defaults"}
  BY DEF Table, Column, Service, CustomerService, LocationService, TerminalService, VesselService,
     NotificationService, TruckService, ChassisService, EquipmentPoolService, DriverService,
     AddonService, AddonDriverRateService, LoadTypeTemplateService, ServiceAreaService,
     StreetTurnService, ChassisEventService, ApiKeyService, DeliveryOrderService, LegService,
     DualTransactionService, One, Bulk
<1>2. Column[t].values \in {Value, Value \cup {Null}}
  BY DEF Table, Column, KeyColumn, CustomerModel, LocationModel, TerminalModel, VesselModel,
     NotificationModel, TruckModel, ChassisModel, EquipmentPoolModel, DriverModel, AddonModel,
     AddonDriverRateModel, LoadTypeTemplateModel, ServiceAreaModel, StreetTurnModel,
     ChassisEventModel, ApiKeyModel, DeliveryOrderModel, LegModel, DualTransactionModel
<1>3. /\ Repository[t].finds \in {"nothing", "active", "any"}
      /\ Repository[t].finds = "any" => t \in {"service_area", "addon_driver_rate"}
      /\ Repository[t].finds = "active" => t \notin {"service_area", "addon_driver_rate"}
      /\ Repository[t].finds # "nothing" => Repository[t].keeps
  BY DEF Table, Column, Repository, Keeps, Writes, CustomerRepository, LocationRepository,
     TerminalRepository, VesselRepository, NotificationRepository, TruckRepository,
     ChassisRepository, EquipmentPoolRepository, DriverRepository, AddonRepository,
     AddonDriverRateRepository, LoadTypeTemplateRepository, ServiceAreaRepository,
     StreetTurnRepository, ChassisEventRepository, ApiKeyRepository, DeliveryOrderRepository,
     LegRepository, DualTransactionRepository
<1>4. t \in {"service_area", "addon_driver_rate"} => "create_bulk" \notin Service[t]
  BY DEF Service, AddonDriverRateService, ServiceAreaService
<1> QED BY <1>1, <1>2, <1>3, <1>4 DEF One, Bulk, OpSet

(* The clock's stamps.                                                     *)
LEMMA StampFacts ==
  ASSUME NEW t \in Nat, t >= 2
  PROVE  Stamp(t) \in Nat /\ Stamp(t) > 0
BY DEF Stamp

(* The rest of a request.                                                  *)
LEMMA TailFacts ==
  ASSUME NEW S, NEW q \in Seq(S), q # <<>>
  PROVE  /\ Tail(q) \in Seq(S) /\ 1 \in DOMAIN q /\ Head(q) = q[1] /\ Head(q) \in S
         /\ \A m \in DOMAIN Tail(q) : m + 1 \in DOMAIN q /\ m + 1 # 1 /\ Tail(q)[m] = q[m + 1]
  OBVIOUS

(* The functions on some of the ids.                                       *)
LEMMA WrittenFacts ==
  ASSUME NEW f
  PROVE  /\ f \in Written_Type <=> DOMAIN f \subseteq Id /\ f \in [DOMAIN f -> Entry]
         /\ f \in At_Type <=> DOMAIN f \subseteq Id /\ f \in [DOMAIN f -> Nat]
BY DEF Written_Type, At_Type

(* A transaction that has done nothing.                                    *)
LEMMA NoTxFacts ==
  /\ NoTx \in TxSet /\ NoTx.op = "none" /\ NoTx.todo = <<>> /\ DOMAIN NoTx.mine = {} /\ DOMAIN NoTx.at = {}
  /\ NoTx.there = {}
<1>1. NoTx.mine \in Written_Type /\ NoTx.at \in At_Type /\ DOMAIN NoTx.mine = {} /\ DOMAIN NoTx.at = {}
  BY WrittenFacts DEF NoTx
<1>2. NoTx.op = "none" /\ NoTx.todo = <<>> /\ NoTx.there = {} /\ <<>> \in Seq(ItemSet)
  BY DEF NoTx
<1>3. NoTx = [op |-> NoTx.op, todo |-> NoTx.todo, mine |-> NoTx.mine, at |-> NoTx.at,
             there |-> NoTx.there]
  BY DEF NoTx
<1> QED BY <1>1, <1>2, <1>3 DEF TxSet, OpSet

(* What a transaction sees.                                                *)
LEMMA ViewFacts ==
  ASSUME Typed, NEW s \in Session
  PROVE  /\ DOMAIN Mine(s) \subseteq Id /\ \A i \in DOMAIN Mine(s) : Mine(s)[i] \in Entry
         /\ View(s) \in [Id -> Entry]
         /\ \A i \in Id : View(s)[i] = IF i \in DOMAIN Mine(s) THEN Mine(s)[i] ELSE row[i]
<1>1. Mine(s) \in Written_Type
  BY DEF Typed, TxSet, Mine
<1>2. DOMAIN Mine(s) \subseteq Id /\ \A i \in DOMAIN Mine(s) : Mine(s)[i] \in Entry
  BY <1>1, WrittenFacts
<1> QED BY <1>2 DEF View, Typed

(* What a transaction is after it has written a row.                       *)
LEMMA SaveFacts ==
  ASSUME Typed, NEW s \in Session, NEW i \in Id, NEW r \in Entry,
         tx[s].todo # <<>>, Save(s, i, r)
  PROVE  /\ (tx \in [Session -> TxSet])'
         /\ \A o \in Session \ {s} : tx'[o] = tx[o]
         /\ tx'[s].op = tx[s].op /\ tx'[s].todo = Tail(tx[s].todo) /\ tx'[s].there = tx[s].there
         /\ DOMAIN tx'[s].mine = DOMAIN tx[s].mine \cup {i}
         /\ tx'[s].mine[i] = r
         /\ \A j \in DOMAIN tx[s].mine \ {i} : tx'[s].mine[j] = tx[s].mine[j]
         /\ DOMAIN tx'[s].at = DOMAIN tx[s].at \cup {i}
         /\ tx'[s].at[i] = Stamp(now)
         /\ \A j \in DOMAIN tx[s].at \ {i} : tx'[s].at[j] = tx[s].at[j]
<1> PICK m : m = Put(tx[s].mine, i, r)
  OBVIOUS
<1> PICK a : a = Put(tx[s].at, i, Stamp(now))
  OBVIOUS
<1>1. /\ tx[s] \in TxSet /\ tx[s].mine \in Written_Type /\ tx[s].at \in At_Type
      /\ tx[s].todo \in Seq(ItemSet) /\ tx[s].op \in OpSet
  BY DEF Typed, TxSet
<1>2. /\ DOMAIN m = DOMAIN tx[s].mine \cup {i} /\ m[i] = r
      /\ \A j \in DOMAIN tx[s].mine \ {i} : m[j] = tx[s].mine[j]
      /\ m = [j \in DOMAIN m |-> m[j]]
  BY DEF Put
<1>3. /\ DOMAIN a = DOMAIN tx[s].at \cup {i} /\ a[i] = Stamp(now)
      /\ \A j \in DOMAIN tx[s].at \ {i} : a[j] = tx[s].at[j]
      /\ a = [j \in DOMAIN a |-> a[j]]
  BY DEF Put
<1>4. m \in Written_Type
  BY <1>1, <1>2, WrittenFacts
<1>5. a \in At_Type
  BY <1>1, <1>3, WrittenFacts, StampFacts DEF Typed
<1>6. PICK t : t = [tx[s] EXCEPT !.todo = Tail(@), !.mine = m, !.at = a]
  OBVIOUS
<1>7. /\ t.op = tx[s].op /\ t.todo = Tail(tx[s].todo) /\ t.mine = m /\ t.at = a /\ t.there = tx[s].there
      /\ t = [op |-> t.op, todo |-> t.todo, mine |-> t.mine, at |-> t.at, there |-> t.there]
  BY <1>1, <1>6 DEF TxSet
<1>8. t \in TxSet
  BY <1>1, <1>4, <1>5, <1>7, TailFacts DEF TxSet
<1>9. tx' = [tx EXCEPT ![s] = t]
  BY <1>6 DEF Save
<1> QED BY <1>2, <1>3, <1>7, <1>8, <1>9 DEF Typed

-----------------------------------------------------------------------------
(* What a request is about to write *)

(* A create finds rows of the table.                                       *)
LEMMA NewItemFacts ==
  ASSUME Typed, NEW s \in Session, tx[s] = NoTx, NEW v \in Value \cup {Null}
  PROVE  /\ NewItem(s, v) \in ItemSet
         /\ NewItem(s, v).id # 0 =>
              /\ NewItem(s, v).id \in Id /\ row[NewItem(s, v).id].updated_at > 0
              /\ Repository[table].finds = "any"
         /\ NewItem(s, v).value = v /\ NewItem(s, v).seen = v
         /\ NewItem(s, v).id = 0 /\ ~Refused(s, v) /\ Repository[table].finds # "nothing" =>
              \A i \in Holders(row, v) : Repository[table].finds = "active" /\ ~row[i].is_active
<1> PICK f : f = Found(s, v)
  OBVIOUS
<1> PICK i : i = IF f = {} \/ Repository[table].finds = "active" THEN 0 ELSE CHOOSE j \in f : TRUE
  OBVIOUS
<1> PICK touched \in BOOLEAN : touched = (i # 0 => ~row[i].is_active)
  OBVIOUS
<1>1. NewItem(s, v) = [id |-> i, value |-> v, seen |-> v, touched |-> touched]
  BY Zenon DEF NewItem, Item
<1>2. ASSUME i # 0 PROVE i \in f /\ Repository[table].finds = "any"
  <2>1. Repository[table].finds \in {"nothing", "active", "any"}
    BY TableFacts DEF Typed
  <2>2. Repository[table].finds = "nothing" => f = {}
    BY DEF Found
  <2>3. f # {} /\ Repository[table].finds # "active" /\ i = CHOOSE j \in f : TRUE
    BY <1>2
  <2>4. i \in f
    BY ONLY <2>3
  <2> QED BY <2>1, <2>2, <2>3, <2>4
<1>3. View(s) = row
  BY NoTxFacts DEF View, Mine, Typed
<1>4. f \subseteq {j \in Id : row[j].updated_at > 0}
  BY <1>3, TableFacts DEF Found, Holders, Inserted, Typed
<1>5. i = 0 \/ (i \in Id /\ row[i].updated_at > 0 /\ Repository[table].finds = "any")
  BY <1>2, <1>4
<1>6. i \in Nat
  BY ONLY <1>5, RowsBound DEF Id
<1>7. NewItem(s, v).id = i /\ NewItem(s, v).value = v /\ NewItem(s, v).seen = v
  BY <1>1
<1>8. ASSUME i = 0, ~Refused(s, v), Repository[table].finds # "nothing", NEW j \in Holders(row, v)
      PROVE  Repository[table].finds = "active" /\ ~row[j].is_active
  <2>1. CASE Repository[table].finds = "active"
    <3>1. row[j].is_active => j \in Found(s, v)
      BY <1>3, <1>8, <2>1 DEF Found
    <3>2. table # "addon_driver_rate"
      BY <2>1, TableFacts DEF Typed
    <3> QED BY <1>8, <2>1, <3>1, <3>2 DEF Refused
  <2>2. CASE Repository[table].finds = "any"
    <3>1. j \in f
      BY <1>3, <1>8, <2>2 DEF Found
    <3>2. i \in f /\ f \subseteq Id
      BY <1>4, <2>2, <3>1
    <3> QED BY <1>8, <3>2 DEF Id
  <2> QED BY <1>8, <2>1, <2>2, TableFacts DEF Typed
<1> QED BY <1>1, <1>5, <1>6, <1>7, <1>8 DEF ItemSet

(* Nothing else makes a new row.                                           *)
LEMMA CreatesOnly ==
  ASSUME NEW s, NEW op, CreateItems(s, op) # {}
  PROVE  op \in Creates
<1>1. ASSUME op # "create", op # "create_bulk", op # "seed_defaults"
      PROVE  CreateItems(s, op) = {}
  BY <1>1 DEF CreateItems
<1> QED BY <1>1 DEF Creates

(* What a create has to write.                                             *)
LEMMA CreateFacts ==
  ASSUME Typed, NEW s \in Session, tx[s] = NoTx, NEW op \in Service[table],
         NEW items \in CreateItems(s, op)
  PROVE  /\ items \in Seq(ItemSet) /\ op \in Creates
         /\ \A m \in DOMAIN items :
              items[m].id # 0 =>
                 /\ items[m].id \in Id /\ row[items[m].id].updated_at > 0
                 /\ table \in {"service_area", "addon_driver_rate"}
                 /\ \A n \in DOMAIN items : m = n
         /\ \A m \in DOMAIN items : items[m].value = items[m].seen
         /\ op # "seed_defaults" /\ Repository[table].finds # "nothing" =>
              \A m \in DOMAIN items :
                items[m].id = 0 =>
                  \A i \in Holders(row, items[m].value) :
                     Repository[table].finds = "active" /\ ~row[i].is_active
<1> DEFINE V == Column[table].values
           W == {v \in V : ~Refused(s, v)}
<1>1. V \subseteq Value \cup {Null} /\ W \subseteq V
  BY TableFacts DEF Typed
<1>2. CASE op = "create"
  <2>1. PICK v \in W : items = <<NewItem(s, v)>>
    BY <1>2 DEF CreateItems
  <2>2. /\ NewItem(s, v) \in ItemSet /\ DOMAIN items = {1} /\ items[1] = NewItem(s, v)
        /\ v \in Value \cup {Null} /\ ~Refused(s, v)
    BY <1>1, <2>1, NewItemFacts
  <2> QED BY <1>1, <1>2, <2>1, <2>2, NewItemFacts, TableFacts DEF Creates, Typed
<1>3. CASE op = "create_bulk"
  <2>1. PICK v \in W, w \in W : items = <<NewItem(s, v), NewItem(s, w)>>
    BY <1>3 DEF CreateItems
  <2>2. Repository[table].finds # "any"
    BY <1>3, TableFacts DEF Typed
  <2>3. ASSUME NEW u \in W
        PROVE  /\ NewItem(s, u) \in ItemSet /\ NewItem(s, u).id = 0
               /\ NewItem(s, u).value = u /\ NewItem(s, u).seen = u
               /\ Repository[table].finds # "nothing" =>
                    \A i \in Holders(row, u) :
                       Repository[table].finds = "active" /\ ~row[i].is_active
    BY <1>1, <2>2, <2>3, NewItemFacts
  <2>4. /\ items \in Seq(ItemSet)
        /\ \A m \in DOMAIN items : items[m] \in {NewItem(s, v), NewItem(s, w)}
    BY <2>1, <2>3
  <2> HIDE DEF W
  <2> QED BY <1>3, <2>3, <2>4 DEF Creates
<1>4. CASE op = "seed_defaults"
  <2>1. CreateItems(s, op) =
          UNION {{<<Item(0, v, v, TRUE), Item(0, w, w, TRUE)>> : w \in V \ {v}} : v \in V}
    BY <1>4 DEF CreateItems
  <2> HIDE DEF V
  <2>2. PICK v \in V, w \in V : items = <<Item(0, v, v, TRUE), Item(0, w, w, TRUE)>>
    BY <2>1
  <2>3. \A u \in V : LET x == Item(0, u, u, TRUE) IN
                     x \in ItemSet /\ x.id = 0 /\ x.value = x.seen
    BY <1>1 DEF Item, ItemSet
  <2> PICK x, y \in ItemSet :
        items = <<x, y>> /\ x.id = 0 /\ y.id = 0 /\ x.value = x.seen /\ y.value = y.seen
    BY <2>2, <2>3
  <2>4. /\ items \in Seq(ItemSet)
        /\ \A m \in DOMAIN items : items[m].id = 0 /\ items[m].value = items[m].seen
    OBVIOUS
  <2> QED BY <1>4, <2>4 DEF Creates
<1>5. op \in Creates
  BY CreatesOnly
<1> QED BY <1>2, <1>3, <1>4, <1>5 DEF Creates

(* What an update or a delete has to write.                                *)
LEMMA ChangeFacts ==
  ASSUME Typed, NEW op \in Service[table], NEW items \in ChangeItems(op)
  PROVE  /\ items \in Seq(ItemSet) /\ op \notin Creates
         /\ \A m \in DOMAIN items : items[m].id \in ActiveIds
         /\ \A m, n \in DOMAIN items : items[m].id = items[n].id => m = n
         /\ Repository[table].keeps =>
              \A m \in DOMAIN items : items[m].value = items[m].seen
<1>1. ASSUME NEW i \in ActiveIds, NEW x \in Changes(op, i)
      PROVE  x \in ItemSet /\ x.id = i /\ (Repository[table].keeps => x.value = x.seen)
  <2> DEFINE values == IF Repository[table].keeps \/ op \in {"delete", "delete_bulk"}
                       THEN {row[i].value} ELSE Column[table].values
             touched == IF op \in {"update", "update_bulk"} THEN BOOLEAN ELSE {TRUE}
  <2>1. Changes(op, i) = {Item(i, v, row[i].value, t) : v \in values, t \in touched}
    BY DEF Changes
  <2> HIDE DEF values, touched
  <2>6. PICK v \in values, t \in touched : x = Item(i, v, row[i].value, t)
    BY <2>1
  <2>2. i \in Id /\ row[i].value \in Value \cup {Null}
    BY DEF ActiveIds, Typed, Entry
  <2>3. v \in Value \cup {Null}
    BY <2>2, TableFacts DEF Typed, values
  <2>4. t \in BOOLEAN
    BY DEF touched
  <2>5. i \in Nat
    BY ONLY <2>2, RowsBound DEF Id
  <2>7. Repository[table].keeps => v = row[i].value
    BY DEF values
  <2> QED BY <2>2, <2>3, <2>4, <2>5, <2>6, <2>7 DEF Item, ItemSet
<1>2. CASE op \in {"update", "delete"}
  <2>1. ChangeItems(op) = UNION {{<<x>> : x \in Changes(op, i)} : i \in ActiveIds}
    BY <1>2 DEF ChangeItems
  <2>2. PICK i \in ActiveIds : \E x \in Changes(op, i) : items = <<x>>
    BY <2>1
  <2>3. PICK x \in Changes(op, i) : items = <<x>>
    BY <2>2
  <2>4. x \in ItemSet /\ x.id = i /\ (Repository[table].keeps => x.value = x.seen)
    BY <1>1
  <2> QED BY <1>2, <2>3, <2>4 DEF Creates
<1>3. CASE op \in {"update_bulk", "delete_bulk"}
  <2>1. ChangeItems(op) =
          UNION {{<<x, y>> : x \in Changes(op, i),
                             y \in UNION {Changes(op, j) : j \in ActiveIds \ {i}}} : i \in ActiveIds}
    BY <1>3 DEF ChangeItems
  <2>2. PICK i, j \in ActiveIds : i # j /\
          \E x \in Changes(op, i), y \in Changes(op, j) : items = <<x, y>>
    BY <2>1
  <2>3. PICK x \in Changes(op, i), y \in Changes(op, j) : items = <<x, y>>
    BY <2>2
  <2>4. /\ x \in ItemSet /\ x.id = i /\ y \in ItemSet /\ y.id = j
        /\ Repository[table].keeps => x.value = x.seen /\ y.value = y.seen
    BY <1>1
  <2>5. items \in Seq(ItemSet) /\ DOMAIN items = {1, 2} /\ items[1] = x /\ items[2] = y
    BY <2>3, <2>4
  <2> QED BY <1>3, <2>2, <2>4, <2>5 DEF Creates
<1> QED BY <1>2, <1>3 DEF ChangeItems

-----------------------------------------------------------------------------
(* What a step does to the invariant of the table *)

(* A row is written, of those in the table or a new one.                   *)
LEMMA SaveStep ==
  ASSUME MasterInv, Stamped, NEW s \in Session, NEW i \in Id, NEW r \in Entry,
         tx[s].todo # <<>>, Save(s, i, r), UNCHANGED <<table, row, now>>,
         ~Locked(s, i), i \notin DOMAIN Mine(s), r.updated_at > 0,
         Repository[table].keeps => row[i].updated_at = 0 \/ r.value = row[i].value,
         \/ issued' = issued /\ i <= issued /\ Head(tx[s].todo).id = i
         \/ issued' = issued + 1 /\ i = issued + 1 /\ Head(tx[s].todo).id = 0,
         r.is_active => \/ row[i].is_active \/ row[i].updated_at = 0
                        \/ tx[s].op = "create" /\ table \in {"service_area", "addon_driver_rate"},
         r.label # row[i].label \/ r.updated_at = Stamp(now)
  PROVE  MasterInv' /\ Stamped'
<1>1. Typed
  BY DEF MasterInv
<1>2. /\ \A o \in Session \ {s} : tx'[o] = tx[o]
      /\ tx'[s].op = tx[s].op /\ tx'[s].todo = Tail(tx[s].todo) /\ tx'[s].there = tx[s].there
      /\ DOMAIN tx'[s].mine = DOMAIN tx[s].mine \cup {i} /\ tx'[s].mine[i] = r
      /\ \A j \in DOMAIN tx[s].mine \ {i} : tx'[s].mine[j] = tx[s].mine[j]
      /\ DOMAIN tx'[s].at = DOMAIN tx[s].at \cup {i} /\ tx'[s].at[i] = Stamp(now)
      /\ \A j \in DOMAIN tx[s].at \ {i} : tx'[s].at[j] = tx[s].at[j]
  BY <1>1, SaveFacts
<1>3. Typed'
  <2>1. (tx \in [Session -> TxSet])'
    BY <1>1, SaveFacts
  <2>2. issued' \in 0 .. MaxRows
    BY <1>1 DEF Typed, Id
  <2> QED BY <1>1, <2>1, <2>2 DEF Typed
<1>4. /\ DOMAIN Mine(s)' = DOMAIN Mine(s) \cup {i} /\ Mine(s)'[i] = r
      /\ \A j \in DOMAIN Mine(s) : Mine(s)'[j] = Mine(s)[j]
      /\ \A o \in Session \ {s} : Mine(o)' = Mine(o)
  BY <1>2 DEF Mine
<1>5. issued \in Nat /\ issued' \in Nat /\ issued <= issued' /\ i <= issued' /\ i \in Nat /\ i > 0
  BY <1>1 DEF Typed, Id
<1>6. Issued'
  <2>1. \A j \in Id : row[j].updated_at > 0 => j <= issued'
    BY <1>5 DEF MasterInv, Issued, Id
  <2>2. ASSUME NEW o \in Session, NEW j \in DOMAIN Mine(o)'
        PROVE  j <= issued' /\ Mine(o)'[j].updated_at > 0
    <3>1. CASE o = s /\ j = i
      BY <1>4, <1>5, <3>1
    <3>2. CASE ~(o = s /\ j = i)
      <4>1. j \in DOMAIN Mine(o) /\ Mine(o)'[j] = Mine(o)[j]
        BY <1>4, <3>2
      <4>2. j \in Id /\ j <= issued /\ Mine(o)[j].updated_at > 0
        BY <1>1, <4>1, ViewFacts DEF MasterInv, Issued
      <4> QED BY <1>5, <4>1, <4>2 DEF Id
    <3> QED BY <3>1, <3>2
  <2> QED BY <2>1, <2>2 DEF Issued
<1>7. Apart'
  BY <1>4 DEF MasterInv, Apart, Locked
<1>8. Kept'
  <2>1. (\A o \in Session : SeenIn(tx[o]))'
    <3>1. \A o \in Session \ {s} : SeenIn(tx[o])'
      BY <1>2 DEF MasterInv, Kept, SeenIn
    <3>2. tx[s].todo \in Seq(ItemSet) /\ SeenIn(tx[s])
      BY <1>1 DEF Typed, TxSet, MasterInv, Kept
    <3>3. \A m \in DOMAIN Tail(tx[s].todo) :
             m + 1 \in DOMAIN tx[s].todo /\ Tail(tx[s].todo)[m] = tx[s].todo[m + 1]
      BY <3>2, TailFacts
    <3>4. SeenIn(tx[s])'
      BY <1>2, <3>2, <3>3 DEF SeenIn
    <3> QED BY <3>1, <3>4
  <2>2. ASSUME Repository[table].keeps, NEW o \in Session, NEW j \in DOMAIN Mine(o)'
        PROVE  row[j].updated_at = 0 \/ Mine(o)'[j].value = row[j].value
    <3>1. CASE o = s /\ j = i
      BY <1>4, <2>2, <3>1
    <3>2. CASE ~(o = s /\ j = i)
      BY <1>4, <2>2, <3>2 DEF MasterInv, Kept
    <3> QED BY <3>1, <3>2
  <2> QED BY <2>1, <2>2 DEF Kept
<1>9. Looked' /\ Met'
  <2>1. \A o \in Session \ {s} : LookedIn(tx[o])'
    BY <1>2 DEF MasterInv, Looked, LookedIn, Holders, Inserted
  <2>2. tx[s].todo \in Seq(ItemSet) /\ LookedIn(tx[s])
    BY <1>1 DEF Typed, TxSet, MasterInv, Looked
  <2>3. \A m \in DOMAIN Tail(tx[s].todo) :
           m + 1 \in DOMAIN tx[s].todo /\ Tail(tx[s].todo)[m] = tx[s].todo[m + 1]
    BY <2>2, TailFacts
  <2>4. LookedIn(tx[s])'
    BY <1>2, <2>2, <2>3 DEF LookedIn, Holders, Inserted
  <2>5. Met'
    BY <1>2 DEF MasterInv, Met
  <2> QED BY <2>1, <2>4, <2>5 DEF Looked
<1>10. (\A o \in Session : Stays(o))'
  <2>1. \A o \in Session \ {s} : Stays(o)'
    BY <1>2, <1>4 DEF MasterInv, Stays
  <2>2. Stays(s)'
    BY <1>2, <1>4 DEF MasterInv, Stays
  <2> QED BY <2>1, <2>2
<1>11. (\A o \in Session : Todo(o))'
  <2>1. \A o \in Session \ {s} : Todo(o)'
    BY <1>2, <1>4 DEF MasterInv, Todo
  <2>2. Todo(s)'
    <3> SUFFICES ASSUME NEW m \in DOMAIN Tail(tx[s].todo), NEW x, x = Tail(tx[s].todo)[m]
                 PROVE  /\ x.id = 0 => tx[s].op \in Creates
                        /\ x.id # 0 =>
                             /\ x.id \in Id /\ x.id \notin DOMAIN Mine(s) \cup {i}
                             /\ row[x.id].updated_at > 0
                             /\ tx[s].op \in Creates => table \in {"service_area", "addon_driver_rate"}
                        /\ \A n \in DOMAIN Tail(tx[s].todo) :
                             x.id = Tail(tx[s].todo)[n].id => m = n \/ x.id = 0
      BY <1>2, <1>4 DEF Todo
    <3>1. tx[s].todo \in Seq(ItemSet)
      BY <1>1 DEF Typed, TxSet
    <3>2. /\ m + 1 \in DOMAIN tx[s].todo /\ x = tx[s].todo[m + 1] /\ m + 1 # 1 /\ m \in Nat
          /\ 1 \in DOMAIN tx[s].todo /\ Head(tx[s].todo) = tx[s].todo[1]
          /\ \A n \in DOMAIN Tail(tx[s].todo) :
               n \in Nat /\ n + 1 \in DOMAIN tx[s].todo /\ Tail(tx[s].todo)[n] = tx[s].todo[n + 1]
      BY <3>1, TailFacts
    <3>3. Todo(s)
      BY DEF MasterInv
    <3>4. x.id # 0 => /\ x.id \in Id /\ x.id \notin DOMAIN Mine(s) /\ row[x.id].updated_at > 0
                      /\ tx[s].op \in Creates => table \in {"service_area", "addon_driver_rate"}
      BY <3>2, <3>3 DEF Todo
    <3>5. \A n \in DOMAIN Tail(tx[s].todo) : x.id = Tail(tx[s].todo)[n].id => m = n \/ x.id = 0
      BY <3>2, <3>3 DEF Todo
    <3>6. x.id = 0 => tx[s].op \in Creates
      BY <3>2, <3>3 DEF Todo
    <3>7. ASSUME x.id # 0 PROVE x.id # i
      <4>1. CASE Head(tx[s].todo).id = i
        BY <3>2, <3>3, <3>7, <4>1 DEF Todo
      <4>2. CASE i = issued + 1
        <5>1. x.id <= issued
          BY <3>4, <3>7 DEF MasterInv, Issued
        <5> QED BY <1>5, <4>2, <5>1
      <4> QED BY <4>1, <4>2
    <3> QED BY <3>4, <3>5, <3>6, <3>7
  <2> QED BY <2>1, <2>2
<1>12. Stamped'
  <2>1. ASSUME NEW o \in Session \ {s}
        PROVE  /\ (DOMAIN tx[o].at = DOMAIN Mine(o))'
               /\ (\A j \in DOMAIN Mine(o) : OnlyNamed(o, j) \/ Mine(o)[j].updated_at = tx[o].at[j])'
    BY <1>2, <1>4 DEF Stamped, OnlyNamed
  <2>2. (DOMAIN tx[s].at = DOMAIN Mine(s))'
    BY <1>2, <1>4 DEF Stamped
  <2>3. (\A j \in DOMAIN Mine(s) : OnlyNamed(s, j) \/ Mine(s)[j].updated_at = tx[s].at[j])'
    BY <1>2, <1>4 DEF Stamped, OnlyNamed
  <2> QED BY <2>1, <2>2, <2>3 DEF Stamped
<1>13. Alive'
  BY DEF MasterInv, Alive
<1> QED BY <1>3, <1>6, <1>7, <1>8, <1>9, <1>10, <1>11, <1>12, <1>13 DEF MasterInv

(* An item is passed over, or a transaction ends with nothing to say of    *)
(* what it wrote.                                                          *)
LEMMA QuietStep ==
  ASSUME MasterInv, Stamped, NEW s \in Session, NEW t \in TxSet, tx' = [tx EXCEPT ![s] = t],
         UNCHANGED <<table, row, issued, now>>,
         \/ t.mine = tx[s].mine /\ t.at = tx[s].at /\ t.op = tx[s].op
         \/ DOMAIN t.mine = {} /\ DOMAIN t.at = {},
         \A m \in DOMAIN t.todo :
            /\ t.todo[m].id = 0 => t.op \in Creates
            /\ t.todo[m].id # 0 =>
                 /\ t.todo[m].id \in Id /\ t.todo[m].id \notin DOMAIN t.mine
                 /\ row[t.todo[m].id].updated_at > 0
                 /\ t.op \in Creates => table \in {"service_area", "addon_driver_rate"}
            /\ \A n \in DOMAIN t.todo : t.todo[m].id = t.todo[n].id => m = n \/ t.todo[m].id = 0,
         SeenIn(t), LookedIn(t), \A i \in t.there : row[i].updated_at > 0
  PROVE  MasterInv' /\ Stamped'
<1>1. Typed /\ tx'[s] = t /\ \A o \in Session \ {s} : tx'[o] = tx[o]
  BY DEF MasterInv, Typed
<1>2. Typed'
  BY <1>1 DEF Typed
<1>3. /\ \A o \in Session \ {s} : Mine(o)' = Mine(o)
      /\ DOMAIN Mine(s)' \subseteq DOMAIN Mine(s)
      /\ \A j \in DOMAIN Mine(s)' : Mine(s)'[j] = Mine(s)[j] /\ t.op = tx[s].op /\ t.at = tx[s].at
      /\ Mine(s)' = t.mine
  BY <1>1 DEF Mine
<1>4. Issued' /\ Apart'
  BY <1>3 DEF MasterInv, Issued, Apart
<1>5. Kept'
  <2>1. (\A o \in Session : SeenIn(tx[o]))'
    BY <1>1 DEF MasterInv, Kept, SeenIn
  <2> QED BY <1>3, <2>1 DEF MasterInv, Kept
<1>6. Looked' /\ Met'
  BY <1>1 DEF MasterInv, Looked, LookedIn, Met, Holders, Inserted
<1>7. (\A o \in Session : Stays(o))'
  <2>1. \A o \in Session \ {s} : Stays(o)'
    BY <1>1, <1>3 DEF MasterInv, Stays
  <2>2. Stays(s)'
    BY <1>1, <1>3 DEF MasterInv, Stays
  <2> QED BY <2>1, <2>2
<1>8. (\A o \in Session : Todo(o))'
  <2>1. \A o \in Session \ {s} : Todo(o)'
    BY <1>1, <1>3 DEF MasterInv, Todo
  <2>2. Todo(s)'
    BY <1>1, <1>3 DEF Todo
  <2> QED BY <2>1, <2>2
<1>9. Stamped'
  <2>1. ASSUME NEW o \in Session \ {s}
        PROVE  /\ (DOMAIN tx[o].at = DOMAIN Mine(o))'
               /\ (\A j \in DOMAIN Mine(o) : OnlyNamed(o, j) \/ Mine(o)[j].updated_at = tx[o].at[j])'
    BY <1>1, <1>3 DEF Stamped, OnlyNamed
  <2>2. (DOMAIN tx[s].at = DOMAIN Mine(s))'
    <3>1. DOMAIN tx[s].at = DOMAIN tx[s].mine
      BY DEF Stamped, Mine
    <3>2. DOMAIN t.at = DOMAIN t.mine
      BY <3>1
    <3> QED BY <1>1, <1>3, <3>2
  <2>3. (\A j \in DOMAIN Mine(s) : OnlyNamed(s, j) \/ Mine(s)[j].updated_at = tx[s].at[j])'
    BY <1>1, <1>3 DEF Stamped, OnlyNamed
  <2> QED BY <2>1, <2>2, <2>3 DEF Stamped
<1>10. Alive'
  BY DEF MasterInv, Alive
<1> QED BY <1>2, <1>4, <1>5, <1>6, <1>7, <1>8, <1>9, <1>10 DEF MasterInv

(* A request has read what it is about to write.                           *)
LEMMA ReceiveStep ==
  ASSUME MasterInv, Stamped, NEW s \in Session, NEW op, Receive(s, op)
  PROVE  MasterInv' /\ Stamped'
<1>1. Typed /\ op \in Service[table] /\ tx[s] = NoTx /\ UNCHANGED <<table, row, issued, now>>
  BY DEF MasterInv, Receive
<1>2. PICK items \in CreateItems(s, op) \cup ChangeItems(op) :
        tx' = [tx EXCEPT ![s] =
                 [NoTx EXCEPT !.op = op, !.todo = items,
                              !.there = IF op \in {"create", "create_bulk"}
                                        THEN Inserted(row) ELSE {}]]
  BY DEF Receive
<1> PICK there : there = IF op \in {"create", "create_bulk"} THEN Inserted(row) ELSE {}
  OBVIOUS
<1>3. /\ items \in Seq(ItemSet)
      /\ \A m \in DOMAIN items :
            /\ items[m].id = 0 => op \in Creates
            /\ items[m].id # 0 =>
                 /\ items[m].id \in Id /\ row[items[m].id].updated_at > 0
                 /\ op \in Creates => table \in {"service_area", "addon_driver_rate"}
            /\ \A n \in DOMAIN items : items[m].id = items[n].id => m = n \/ items[m].id = 0
      /\ Repository[table].keeps => \A m \in DOMAIN items : items[m].value = items[m].seen
      /\ Repository[table].finds # "nothing" =>
            \A m \in DOMAIN items :
              items[m].id = 0 =>
                \A i \in there \cap Holders(row, items[m].value) :
                   Repository[table].finds = "active" /\ ~row[i].is_active
  <2>1. CASE items \in CreateItems(s, op)
    BY <1>1, <2>1, CreateFacts
  <2>2. CASE items \in ChangeItems(op)
    <3>1. /\ items \in Seq(ItemSet) /\ op \notin Creates
          /\ \A m \in DOMAIN items : items[m].id \in ActiveIds
          /\ \A m, n \in DOMAIN items : items[m].id = items[n].id => m = n
          /\ Repository[table].keeps => \A m \in DOMAIN items : items[m].value = items[m].seen
      BY <1>1, <2>2, ChangeFacts
    <3>2. \A i \in ActiveIds : i \in Id /\ i # 0 /\ row[i].updated_at > 0
      BY DEF ActiveIds, Id, MasterInv, Alive
    <3> QED BY <3>1, <3>2
  <2> QED BY <2>1, <2>2
<1> PICK t : t = [NoTx EXCEPT !.op = op, !.todo = items, !.there = there]
  OBVIOUS
<1>4. /\ t.op = op /\ t.todo = items /\ t.mine = NoTx.mine /\ t.at = NoTx.at /\ t.there = there
      /\ there \subseteq Id
      /\ t = [op |-> t.op, todo |-> t.todo, mine |-> t.mine, at |-> t.at, there |-> t.there]
  BY DEF NoTx, Inserted
<1>5. t \in TxSet
  BY <1>1, <1>3, <1>4, NoTxFacts, TableFacts DEF TxSet, Typed
<1>6. DOMAIN t.mine = {} /\ DOMAIN t.at = {}
  BY <1>4, NoTxFacts
<1>7. \A m \in DOMAIN t.todo :
         /\ t.todo[m].id = 0 => t.op \in Creates
         /\ t.todo[m].id # 0 =>
              /\ t.todo[m].id \in Id /\ t.todo[m].id \notin DOMAIN t.mine
              /\ row[t.todo[m].id].updated_at > 0
              /\ t.op \in Creates => table \in {"service_area", "addon_driver_rate"}
         /\ \A n \in DOMAIN t.todo : t.todo[m].id = t.todo[n].id => m = n \/ t.todo[m].id = 0
  BY <1>3, <1>4, <1>6
<1>8. tx' = [tx EXCEPT ![s] = t]
  BY <1>2
<1>9. SeenIn(t) /\ LookedIn(t) /\ \A i \in t.there : row[i].updated_at > 0
  BY <1>3, <1>4 DEF SeenIn, LookedIn, Inserted
<1> QED BY ONLY <1>1, <1>5, <1>6, <1>7, <1>8, <1>9, QuietStep, MasterInv, Stamped

(* The item that a request is at.                                          *)
LEMMA ItemFacts ==
  ASSUME MasterInv, NEW s \in Session, tx[s].todo # <<>>
  PROVE  /\ Next1(s) \in ItemSet
         /\ Repository[table].keeps => Next1(s).value = Next1(s).seen
         /\ Next1(s).id = 0 => tx[s].op \in Creates
         /\ Next1(s).id # 0 =>
              /\ Next1(s).id \in Id /\ Next1(s).id \notin DOMAIN Mine(s)
              /\ row[Next1(s).id].updated_at > 0 /\ Next1(s).id <= issued
              /\ View(s)[Next1(s).id] = row[Next1(s).id]
              /\ tx[s].op \in Creates => table \in {"service_area", "addon_driver_rate"}
<1>1. Typed /\ Todo(s) /\ tx[s].todo \in Seq(ItemSet)
  BY DEF MasterInv, Typed, TxSet
<1>2. 1 \in DOMAIN tx[s].todo /\ Next1(s) = tx[s].todo[1] /\ Next1(s) \in ItemSet
  BY <1>1, TailFacts DEF Next1
<1>3. Next1(s).id # 0 => /\ Next1(s).id \in Id /\ Next1(s).id \notin DOMAIN Mine(s)
                         /\ row[Next1(s).id].updated_at > 0
                         /\ tx[s].op \in Creates => table \in {"service_area", "addon_driver_rate"}
  BY <1>1, <1>2 DEF Todo
<1>4. Next1(s).id = 0 => tx[s].op \in Creates
  BY <1>1, <1>2 DEF Todo
<1>5. Repository[table].keeps => Next1(s).value = Next1(s).seen
  BY <1>2 DEF MasterInv, Kept, SeenIn
<1> QED BY <1>1, <1>2, <1>3, <1>4, <1>5, ViewFacts DEF MasterInv, Issued

(* An item is passed over.                                                 *)
LEMMA SkipStep ==
  ASSUME MasterInv, Stamped, NEW s \in Session, tx[s].todo # <<>>, Skip(s),
         UNCHANGED <<table, row, issued, now>>
  PROVE  MasterInv' /\ Stamped'
<1>1. Typed /\ Todo(s) /\ tx[s] \in TxSet /\ tx[s].todo \in Seq(ItemSet)
  BY DEF MasterInv, Typed, TxSet
<1> PICK t : t = [tx[s] EXCEPT !.todo = Tail(@)]
  OBVIOUS
<1>2. /\ t.op = tx[s].op /\ t.todo = Tail(tx[s].todo) /\ t.mine = tx[s].mine /\ t.at = tx[s].at
      /\ t.there = tx[s].there
      /\ t = [op |-> t.op, todo |-> t.todo, mine |-> t.mine, at |-> t.at, there |-> t.there]
  BY <1>1 DEF TxSet
<1>3. t \in TxSet
  BY <1>1, <1>2, TailFacts DEF TxSet
<1>4. \A m \in DOMAIN t.todo :
         /\ m \in Nat /\ m + 1 \in DOMAIN tx[s].todo /\ t.todo[m] = tx[s].todo[m + 1]
  BY <1>1, <1>2, TailFacts
<1>5. \A m \in DOMAIN tx[s].todo :
         /\ tx[s].todo[m].id = 0 => tx[s].op \in Creates
         /\ tx[s].todo[m].id # 0 =>
              /\ tx[s].todo[m].id \in Id /\ tx[s].todo[m].id \notin DOMAIN tx[s].mine
              /\ row[tx[s].todo[m].id].updated_at > 0
              /\ tx[s].op \in Creates => table \in {"service_area", "addon_driver_rate"}
         /\ \A n \in DOMAIN tx[s].todo :
              tx[s].todo[m].id = tx[s].todo[n].id => m = n \/ tx[s].todo[m].id = 0
  BY <1>1 DEF Todo, Mine
<1>6. \A m \in DOMAIN t.todo :
         /\ t.todo[m].id = 0 => t.op \in Creates
         /\ t.todo[m].id # 0 =>
              /\ t.todo[m].id \in Id /\ t.todo[m].id \notin DOMAIN t.mine
              /\ row[t.todo[m].id].updated_at > 0
              /\ t.op \in Creates => table \in {"service_area", "addon_driver_rate"}
         /\ \A n \in DOMAIN t.todo : t.todo[m].id = t.todo[n].id => m = n \/ t.todo[m].id = 0
  BY <1>2, <1>4, <1>5
<1>7. tx' = [tx EXCEPT ![s] = t]
  BY DEF Skip
<1>8. SeenIn(t) /\ LookedIn(t) /\ \A i \in t.there : row[i].updated_at > 0
  BY <1>2, <1>4 DEF MasterInv, Kept, SeenIn, Looked, LookedIn, Met
<1> QED BY ONLY <1>2, <1>3, <1>6, <1>7, <1>8, QuietStep, MasterInv, Stamped,
           UNCHANGED <<table, row, issued, now>>

(* A transaction is undone.                                                *)
LEMMA RollbackStep ==
  ASSUME MasterInv, Stamped, NEW s \in Session, Rollback(s)
  PROVE  MasterInv' /\ Stamped'
<1>1. tx' = [tx EXCEPT ![s] = NoTx] /\ UNCHANGED <<table, row, issued, now>>
  BY DEF Rollback
<1>2. NoTx \in TxSet /\ DOMAIN NoTx.todo = {} /\ DOMAIN NoTx.mine = {} /\ DOMAIN NoTx.at = {}
  BY NoTxFacts
<1>3. SeenIn(NoTx) /\ LookedIn(NoTx) /\ \A i \in NoTx.there : row[i].updated_at > 0
  BY <1>2, NoTxFacts DEF SeenIn, LookedIn
<1> QED BY ONLY <1>1, <1>2, <1>3, QuietStep, MasterInv, Stamped

(* Each of the writes.                                                     *)
LEMMA WriteStep ==
  ASSUME MasterInv, Stamped, NEW s \in Session, Step(s)
  PROVE  MasterInv' /\ Stamped' /\ UNCHANGED <<table, row, now>>
<1> DEFINE x == Next1(s)
<1>1. Typed /\ tx[s] \in TxSet /\ now \in Nat /\ now >= 2
  BY DEF MasterInv, Typed
<1>2. Stamp(now) \in Nat /\ Stamp(now) > 0
  BY <1>1, StampFacts
<1>3. tx[s].todo # <<>> /\ UNCHANGED <<table, row, now>>
  BY DEF Step, WriteCreate, WriteRevive, WriteUpdate, WriteDelete, Writing
<1>4. /\ x \in ItemSet /\ x.value \in Value \cup {Null}
      /\ Repository[table].keeps => x.value = x.seen
      /\ x.id = 0 => tx[s].op \in Creates
      /\ x.id # 0 => /\ x.id \in Id /\ x.id \notin DOMAIN Mine(s)
                     /\ row[x.id].updated_at > 0 /\ x.id <= issued
                     /\ View(s)[x.id] = row[x.id]
                     /\ tx[s].op \in Creates => table \in {"service_area", "addon_driver_rate"}
  BY <1>3, ItemFacts DEF ItemSet
<1> HIDE DEF x
<1>5. \A i \in Id : row[i] \in Entry /\ row[i] = [is_active |-> row[i].is_active, value |-> row[i].value,
                                   label |-> row[i].label, updated_at |-> row[i].updated_at]
  BY <1>1 DEF Typed, Entry
<1>6. CASE WriteCreate(s)
  <2>1. CASE Skip(s) /\ UNCHANGED issued
    BY <1>3, <2>1, SkipStep
  <2>2. CASE ~(Skip(s) /\ UNCHANGED issued)
    <3> PICK r : r = [is_active |-> TRUE, value |-> x.value, label |-> FALSE, updated_at |-> Stamp(now)]
      OBVIOUS
    <3>1. /\ x.id = 0 /\ issued < MaxRows
          /\ issued' = issued + 1 /\ Save(s, issued + 1, r)
      BY <1>6, <2>2 DEF WriteCreate, x
    <3>2. r \in Entry /\ r.value = x.value /\ r.updated_at = Stamp(now)
      BY <1>2, <1>4 DEF Entry
    <3>3. issued \in Nat /\ issued + 1 \in Id
      BY <1>1, <3>1 DEF Typed, Id
    <3>4. /\ ~Locked(s, issued + 1) /\ issued + 1 \notin DOMAIN Mine(s)
          /\ ~(row[issued + 1].updated_at > 0) /\ row[issued + 1].updated_at \in Nat
      <4>1. \A o \in Session : \A i \in DOMAIN Mine(o) : i \in Id /\ i <= issued
        BY <1>1, ViewFacts DEF MasterInv, Issued
      <4>2. \A o \in Session : issued + 1 \notin DOMAIN Mine(o)
        BY <3>3, <4>1
      <4>3. row[issued + 1].updated_at > 0 => issued + 1 <= issued
        BY <3>3 DEF MasterInv, Issued
      <4>4. row[issued + 1].updated_at \in Nat
        BY <1>5, <3>3 DEF Entry
      <4> QED BY <3>3, <4>2, <4>3, <4>4 DEF Locked
    <3>5. row[issued + 1].updated_at = 0
      BY <3>4
    <3>6. Head(tx[s].todo).id = 0
      BY <3>1 DEF x, Next1
    <3> QED BY <1>2, <1>3, <3>1, <3>2, <3>3, <3>4, <3>5, <3>6, SaveStep
  <2> QED BY <2>1, <2>2
<1>7. ASSUME NEW r \in Entry, x.id # 0, ~Locked(s, x.id), Save(s, x.id, r), UNCHANGED issued,
             r.updated_at > 0, Repository[table].keeps => r.value = row[x.id].value,
             r.is_active => row[x.id].is_active \/ tx[s].op = "create",
             r.label # row[x.id].label \/ r.updated_at = Stamp(now)
      PROVE  MasterInv' /\ Stamped'
  <2>1. Head(tx[s].todo).id = x.id
    BY DEF x, Next1
  <2>2. tx[s].op = "create" => table \in {"service_area", "addon_driver_rate"}
    BY <1>4, <1>7 DEF Creates
  <2> QED BY <1>3, <1>4, <1>7, <2>1, <2>2, SaveStep
<1>9. CASE WriteRevive(s)
  <2>0. x.id # 0 /\ UNCHANGED issued /\ tx[s].op = "create" /\ x.touched \in BOOLEAN
    BY <1>4, <1>9 DEF WriteRevive, Writing, x, ItemSet
  <2>1. CASE Skip(s)
    BY <1>3, <2>0, <2>1, SkipStep
  <2>2. CASE ~Skip(s)
    <3> PICK r : r = [View(s)[x.id] EXCEPT !.is_active = @ \/ x.touched, !.updated_at = Stamp(now)]
      OBVIOUS
    <3>1. ~Locked(s, x.id) /\ Save(s, x.id, r)
      BY <1>9, <2>2 DEF WriteRevive, x
    <3>2. r \in Entry /\ r.value = row[x.id].value /\ r.updated_at = Stamp(now)
      BY <1>2, <1>4, <1>5, <2>0 DEF Entry
    <3> QED BY <1>2, <1>3, <1>7, <2>0, <3>1, <3>2
  <2> QED BY <2>1, <2>2
<1>10. CASE WriteDelete(s)
  <2>0. x.id # 0 /\ ~Locked(s, x.id) /\ UNCHANGED issued
    BY <1>4, <1>10 DEF WriteDelete, Writing, x, Creates
  <2>1. CASE Skip(s)
    BY <1>3, <2>0, <2>1, SkipStep
  <2>2. CASE ~Skip(s)
    <3> PICK r : r = [View(s)[x.id] EXCEPT !.is_active = FALSE, !.updated_at = Stamp(now)]
      OBVIOUS
    <3>1. Save(s, x.id, r)
      BY <1>10, <2>2 DEF WriteDelete, x
    <3>2. r \in Entry /\ r.value = row[x.id].value /\ r.updated_at = Stamp(now) /\ ~r.is_active
      BY <1>2, <1>4, <1>5, <2>0 DEF Entry
    <3> QED BY <1>2, <1>3, <1>7, <2>0, <3>1, <3>2
  <2> QED BY <2>1, <2>2
<1>11. CASE WriteUpdate(s)
  <2>0. x.id # 0 /\ ~Locked(s, x.id) /\ UNCHANGED issued
    BY <1>4, <1>11 DEF WriteUpdate, Writing, x, Creates
  <2> PICK e : e = row[x.id]
    OBVIOUS
  <2> PICK v : v = IF x.value = x.seen THEN e.value ELSE x.value
    OBVIOUS
  <2> PICK named : named = [e EXCEPT !.label = IF table = "driver" THEN ~@ ELSE @]
    OBVIOUS
  <2>1. /\ e \in Entry /\ View(s)[x.id] = e /\ v \in Value \cup {Null} /\ e.updated_at > 0
        /\ e = [is_active |-> e.is_active, value |-> e.value, label |-> e.label,
                updated_at |-> e.updated_at]
    BY <1>4, <1>5, <2>0 DEF Entry
  <2>2. Repository[table].keeps => v = e.value
    BY <1>4
  <2>3. CASE Skip(s)
    BY <1>3, <2>0, <2>3, SkipStep
  <2>4. CASE Save(s, x.id, [e EXCEPT !.value = v, !.updated_at = Stamp(now)])
    <3> PICK r : r = [e EXCEPT !.value = v, !.updated_at = Stamp(now)]
      OBVIOUS
    <3>1. r \in Entry /\ r.value = v /\ r.updated_at = Stamp(now) /\ r.is_active = e.is_active
      BY <1>2, <2>1 DEF Entry
    <3> QED BY <1>2, <1>3, <1>7, <2>0, <2>2, <2>4, <3>1
  <2>5. CASE Save(s, x.id, [e EXCEPT !.updated_at = Stamp(now)])
    <3> PICK r : r = [e EXCEPT !.updated_at = Stamp(now)]
      OBVIOUS
    <3>1. r \in Entry /\ r.value = e.value /\ r.updated_at = Stamp(now) /\ r.is_active = e.is_active
      BY <1>2, <2>1 DEF Entry
    <3> QED BY <1>2, <1>3, <1>7, <2>0, <2>5, <3>1
  <2>6. CASE Save(s, x.id, named) /\ table = "driver"
    <3>1. /\ named \in Entry /\ named.value = e.value /\ named.updated_at = e.updated_at
          /\ named.is_active = e.is_active /\ named.label # e.label
      BY <2>1, <2>6 DEF Entry
    <3> QED BY <1>2, <1>3, <1>7, <2>0, <2>1, <2>6, <3>1
  <2> QED BY <1>11, <2>1, <2>3, <2>4, <2>5, <2>6 DEF WriteUpdate, x
<1> QED BY <1>3, <1>6, <1>9, <1>10, <1>11 DEF Step

(* What a transaction wrote is in the table, for the others to see.        *)
LEMMA CommitStep ==
  ASSUME MasterInv, Stamped, NEW s \in Session, Commit(s)
  PROVE  MasterInv' /\ Stamped'
<1>1. /\ Typed /\ row' = View(s) /\ tx' = [tx EXCEPT ![s] = NoTx] /\ UNCHANGED <<table, issued, now>>
      /\ tx \in [Session -> TxSet]
  BY DEF MasterInv, Commit, Typed
<1>2. /\ tx' \in [Session -> TxSet] /\ tx'[s] = NoTx /\ DOMAIN Mine(s)' = {}
      /\ \A o \in Session \ {s} : tx'[o] = tx[o] /\ Mine(o)' = Mine(o)
  BY <1>1, NoTxFacts DEF Mine
<1>3. /\ View(s) \in [Id -> Entry]
      /\ \A i \in Id : row'[i] = IF i \in DOMAIN Mine(s) THEN Mine(s)[i] ELSE row[i]
  BY <1>1, ViewFacts
<1>4. Typed'
  BY <1>1, <1>2, <1>3 DEF Typed
<1>5. \A o \in Session \ {s} : \A i \in DOMAIN Mine(o) : i \in Id /\ row'[i] = row[i]
  <2>1. ASSUME NEW o \in Session \ {s}, NEW i \in DOMAIN Mine(o) PROVE i \in Id /\ row'[i] = row[i]
    <3>1. i \in Id
      BY <1>1, ViewFacts
    <3>2. i \notin DOMAIN Mine(s)
      BY DEF MasterInv, Apart
    <3> QED BY <1>3, <3>1, <3>2
  <2> QED BY <2>1
<1>6. Issued' /\ Alive' /\ Apart'
  BY <1>1, <1>2, <1>3 DEF MasterInv, Issued, Alive, Apart
<1>7. Kept' /\ Looked' /\ Met'
  <2>1. (\A o \in Session : SeenIn(tx[o]))'
    BY <1>1, <1>2, NoTxFacts DEF MasterInv, Kept, SeenIn
  <2>2. Kept'
    BY <1>1, <1>2, <1>5, <2>1 DEF MasterInv, Kept
  <2>3. ASSUME Repository[table].finds # "nothing", NEW j \in Id, row[j].updated_at > 0
        PROVE  /\ row'[j].value = row[j].value
               /\ Repository[table].finds = "active" /\ ~row[j].is_active => ~row'[j].is_active
    <3>1. Repository[table].keeps
      BY <1>1, <2>3, TableFacts DEF Typed
    <3>2. Repository[table].finds = "active" => table \notin {"service_area", "addon_driver_rate"}
      BY <1>1, TableFacts DEF Typed
    <3>3. row[j].updated_at # 0
      BY <2>3
    <3> QED BY <1>3, <3>1, <3>2, <3>3 DEF MasterInv, Kept, Stays
  <2>4. \A o \in Session : tx[o].there \subseteq Id /\ \A j \in tx[o].there : row[j].updated_at > 0
    BY DEF MasterInv, Typed, TxSet, Met
  <2>5. ASSUME NEW o \in Session \ {s}, Repository[table].finds # "nothing",
               NEW m \in DOMAIN tx[o].todo, tx[o].todo[m].id = 0,
               NEW j \in tx[o].there \cap Holders(row', tx[o].todo[m].value)
        PROVE  Repository[table].finds = "active" /\ ~row'[j].is_active
    <3>1. j \in Id /\ row[j].updated_at > 0 /\ row'[j].value = tx[o].todo[m].value
      BY <2>4 DEF Holders
    <3>2. j \in Holders(row, tx[o].todo[m].value)
      BY <2>3, <2>5, <3>1 DEF Holders, Inserted
    <3>3. Repository[table].finds = "active" /\ ~row[j].is_active
      BY <2>5, <3>2 DEF MasterInv, Looked, LookedIn
    <3> QED BY <2>3, <2>5, <3>1, <3>3
  <2>6. LookedIn(NoTx)' /\ \A o \in Session \ {s} : LookedIn(tx[o])'
    BY <1>1, <1>2, <2>5, NoTxFacts DEF LookedIn, Holders, Inserted
  <2>7. Looked'
    BY <1>2, <2>6 DEF Looked, LookedIn
  <2>8. Met'
    BY <1>2, <1>3, <2>4, NoTxFacts DEF MasterInv, Issued, Met
  <2> QED BY <2>2, <2>7, <2>8
<1>8. (\A o \in Session : Stays(o))'
  <2>1. \A o \in Session \ {s} : Stays(o)'
    BY <1>1, <1>2, <1>5 DEF MasterInv, Stays
  <2>2. Stays(s)'
    BY <1>2 DEF Stays
  <2> QED BY <2>1, <2>2
<1>9. (\A o \in Session : Todo(o))'
  <2>1. \A i \in Id : row[i].updated_at > 0 => row'[i].updated_at > 0
    BY <1>3 DEF MasterInv, Issued
  <2>2. \A o \in Session \ {s} : Todo(o)'
    BY <1>1, <1>2, <2>1 DEF MasterInv, Todo
  <2>3. Todo(s)'
    BY <1>2, NoTxFacts DEF Todo
  <2> QED BY <2>2, <2>3
<1>10. Stamped'
  <2>1. ASSUME NEW o \in Session \ {s}
        PROVE  /\ (DOMAIN tx[o].at = DOMAIN Mine(o))'
               /\ (\A j \in DOMAIN Mine(o) : OnlyNamed(o, j) \/ Mine(o)[j].updated_at = tx[o].at[j])'
    BY <1>2, <1>5 DEF Stamped, OnlyNamed
  <2>2. /\ (DOMAIN tx[s].at = DOMAIN Mine(s))'
        /\ (\A j \in DOMAIN Mine(s) : OnlyNamed(s, j) \/ Mine(s)[j].updated_at = tx[s].at[j])'
    BY <1>2, NoTxFacts
  <2> QED BY <2>1, <2>2 DEF Stamped
<1> QED BY <1>4, <1>6, <1>7, <1>8, <1>9, <1>10 DEF MasterInv

-----------------------------------------------------------------------------
(* What the readers have *)

(* A row that is committed anew, or that stays as it was.                  *)
LEMMA CommitSynced ==
  ASSUME CatalogueInv, NEW s \in Session, CommitSeen(s)
  PROVE  Synced'
<1>1. /\ Typed /\ row' = View(s) /\ fresh' = fresh \cup Written(s)
      /\ slipped' = (slipped \ Written(s)) \cup Slipping(s) /\ UNCHANGED client
  BY DEF CatalogueInv, MasterInv, CommitSeen, Commit
<1>2. /\ DOMAIN Mine(s) \subseteq Id
      /\ \A i \in Id : row'[i] = IF i \in DOMAIN Mine(s) THEN Mine(s)[i] ELSE row[i]
  BY <1>1, ViewFacts
<1>3. /\ Written(s) \subseteq Id
      /\ \A i \in Id \ Written(s) : row'[i] = row[i]
      /\ \A i \in Written(s) : i \in DOMAIN Mine(s) /\ row'[i] = Mine(s)[i]
  BY <1>2 DEF Written
<1>4. ASSUME NEW i \in Id
      PROVE  \/ client.copy[i] = Shown(row'[i])
             \/ i \in fresh' \cup slipped'
             \/ client.reading /\ i \in Changed(client.since)' \ ActiveIds'
  <2>1. CASE i \in Written(s)
    BY <1>1, <2>1
  <2>2. CASE i \notin Written(s)
    <3>1. row'[i] = row[i]
      BY <1>3, <2>2
    <3>2. i \in fresh \cup slipped => i \in fresh' \cup slipped'
      BY <1>1, <2>2
    <3>3. i \in Changed(client.since) \ ActiveIds => i \in Changed(client.since)' \ ActiveIds'
      BY <1>1, <3>1 DEF Changed, ActiveIds
    <3> QED BY <3>1, <3>2, <3>3 DEF CatalogueInv, Synced
  <2> QED BY <2>1, <2>2
<1>5. ASSUME NEW i \in fresh' \ slipped', i \in Id
      PROVE  row'[i].updated_at > 0 /\ row'[i].updated_at >= client.sync_time
  <2>1. CASE i \in Written(s)
    <3>1. i \notin Slipping(s) /\ i \in DOMAIN Mine(s) /\ row'[i] = Mine(s)[i]
      BY <1>1, <1>3, <2>1
    <3>2. ~OnlyNamed(s, i) /\ ~(tx[s].at[i] < client.sync_time)
      BY <2>1, <3>1 DEF Slipping
    <3>3. Mine(s)[i].updated_at = tx[s].at[i]
      BY <3>1, <3>2 DEF CatalogueInv, Stamped
    <3>4. Mine(s)[i].updated_at > 0 /\ Mine(s)[i].updated_at \in Nat /\ client.sync_time \in Nat
      <4>1. Mine(s)[i] \in Entry
        BY <1>1, <3>1, ViewFacts
      <4> QED BY <3>1, <4>1 DEF CatalogueInv, MasterInv, Issued, Entry, Synced
    <3> QED BY <3>1, <3>2, <3>3, <3>4
  <2>2. CASE i \notin Written(s)
    BY <1>1, <1>3, <1>5, <2>2 DEF CatalogueInv, Synced
  <2> QED BY <2>1, <2>2
<1> QED BY <1>1, <1>4, <1>5 DEF CatalogueInv, Synced

(* The first statement of a sync takes in every row that may differ.       *)
LEMMA ItemsSynced ==
  ASSUME CatalogueInv, SyncItems
  PROVE  Synced'
<1> PICK copy : copy = [i \in Id |-> IF i \in Changed(client.since) \cap ActiveIds
                                     THEN Shown(row[i]) ELSE client.copy[i]]
  OBVIOUS
<1>1. /\ ~client.reading /\ client' = [client EXCEPT !.reading = TRUE, !.sync_time = now, !.copy = copy]
      /\ fresh' = {} /\ slipped' = slipped \ Changed(client.since) /\ UNCHANGED row
  BY DEF SyncItems, masterVars
<1>2. /\ Typed /\ client \in [since : Nat, sync_time : Nat, reading : BOOLEAN,
                              copy : [Id -> {Shown(r) : r \in Entry}]]
  BY DEF CatalogueInv, MasterInv, Synced
<1>3. copy \in [Id -> {Shown(r) : r \in Entry}]
  BY <1>2 DEF Typed
<1>4. /\ client' \in [since : Nat, sync_time : Nat, reading : BOOLEAN,
                      copy : [Id -> {Shown(r) : r \in Entry}]]
      /\ client'.reading /\ client'.since = client.since /\ client'.copy = copy
  BY <1>1, <1>2, <1>3 DEF Typed
<1>5. client.since = client.sync_time
  BY <1>1 DEF CatalogueInv, Synced
<1>6. ASSUME NEW i \in Id
      PROVE  \/ copy[i] = Shown(row[i])
             \/ i \in slipped'
             \/ i \in Changed(client.since) \ ActiveIds
  <2>1. CASE i \in Changed(client.since)
    BY <2>1
  <2>2. CASE i \notin Changed(client.since)
    <3>1. i \notin fresh \ slipped
      BY <1>5, <2>2 DEF CatalogueInv, Synced, Changed
    <3>2. client.copy[i] = Shown(row[i]) \/ i \in slipped
      BY <1>1, <3>1 DEF CatalogueInv, Synced
    <3> QED BY <1>1, <2>2, <3>2
  <2> QED BY <2>1, <2>2
<1>7. Changed(client.since) = Changed(client.since)'
  BY <1>1, <1>4 DEF Changed
<1> QED BY <1>1, <1>4, <1>6, <1>7 DEF Synced, ActiveIds

(* The second drops those that were deleted.                               *)
LEMMA DeletedSynced ==
  ASSUME CatalogueInv, SyncDeleted
  PROVE  Synced'
<1> PICK copy : copy = [i \in Id |-> IF i \in Changed(client.since) \ ActiveIds
                                     THEN Missing ELSE client.copy[i]]
  OBVIOUS
<1>1. /\ client.reading
      /\ client' = [client EXCEPT !.reading = FALSE, !.since = client.sync_time, !.copy = copy]
      /\ UNCHANGED <<row, fresh, slipped>>
  BY DEF SyncDeleted, masterVars
<1>2. /\ Typed /\ client \in [since : Nat, sync_time : Nat, reading : BOOLEAN,
                              copy : [Id -> {Shown(r) : r \in Entry}]]
  BY DEF CatalogueInv, MasterInv, Synced
<1>3. \A i \in Id : i \notin ActiveIds => Missing = Shown(row[i]) /\ row[i] \in Entry
  BY <1>2 DEF ActiveIds, Shown, Typed
<1>4. copy \in [Id -> {Shown(r) : r \in Entry}]
  BY <1>2, <1>3
<1>5. /\ client' \in [since : Nat, sync_time : Nat, reading : BOOLEAN,
                      copy : [Id -> {Shown(r) : r \in Entry}]]
      /\ client'.since = client.sync_time /\ client'.sync_time = client.sync_time /\ client'.copy = copy
  BY <1>1, <1>2, <1>4
<1>6. ASSUME NEW i \in Id PROVE copy[i] = Shown(row[i]) \/ i \in fresh \cup slipped
  BY <1>3 DEF CatalogueInv, Synced
<1> QED BY <1>1, <1>5, <1>6 DEF CatalogueInv, Synced

-----------------------------------------------------------------------------
(* The invariant holds *)

(* Whatever the router, a write is one of four steps.                      *)
LEMMA WriteForms ==
  ASSUME Write
  PROVE  \E s \in Session :
            \/ \E op : Receive(s, op) /\ UNCHANGED readerVars
            \/ Step(s) /\ UNCHANGED readerVars
            \/ CommitSeen(s)
            \/ Rollback(s) /\ UNCHANGED readerVars
<1>1. ASSUME NEW s, NEW services, Request(s, services)
      PROVE  \/ \E op : Receive(s, op) /\ UNCHANGED readerVars
             \/ Step(s) /\ UNCHANGED readerVars
             \/ CommitSeen(s)
             \/ Rollback(s) /\ UNCHANGED readerVars
  BY <1>1 DEF Request
<1>2. PICK s \in Session : \E services : Request(s, services)
  BY Zenon DEF Write, CustomerRouter, LocationRouter, TerminalRouter, VesselRouter,
     NotificationRouter, TruckRouter, ChassisRouter, EquipmentPoolRouter, DriverRouter,
     AddonRouter, LoadTypeTemplateRouter, ServiceAreaRouter, StreetTurnRouter,
     ChassisEventRouter, ApiKeyRouter, DeliveryOrderRouter, LegRouter, DualTransactionRouter
<1> QED BY <1>1, <1>2

(* The readers' part of the invariant is about the rows and their own.     *)
LEMMA QuietSynced ==
  ASSUME Synced, UNCHANGED <<row, client, fresh, slipped>>
  PROVE  Synced'
BY DEF Synced, Changed, ActiveIds

(* The table's part is about the table.                                    *)
LEMMA QuietMaster ==
  ASSUME MasterInv, Stamped, UNCHANGED <<table, row, issued, tx>>, now' \in Nat, now' >= 2
  PROVE  MasterInv' /\ Stamped'
<1>1. /\ Typed' /\ Issued' /\ Alive' /\ Apart'
      /\ \A s \in Session : Todo(s)' /\ Stays(s)'
  BY DEF MasterInv, Typed, Issued, Alive, Apart, Todo, Stays, Mine
<1>2. Kept' /\ Looked' /\ Met'
  BY DEF MasterInv, Kept, SeenIn, Looked, LookedIn, Met, Holders, Inserted, Mine
<1>3. Stamped'
  BY DEF Stamped, Mine, OnlyNamed
<1> QED BY <1>1, <1>2, <1>3 DEF MasterInv

(* No step of the specification breaks the invariant.                      *)
LEMMA CatalogueStep ==
  ASSUME CatalogueInv, [Next]_vars
  PROVE  CatalogueInv'
<1>1. MasterInv /\ Stamped /\ Synced /\ now \in Nat /\ now >= 2
  BY DEF CatalogueInv, MasterInv, Typed
<1>2. CASE Write
  <2> PICK s \in Session :
        \/ \E op : Receive(s, op) /\ UNCHANGED readerVars
        \/ Step(s) /\ UNCHANGED readerVars
        \/ CommitSeen(s)
        \/ Rollback(s) /\ UNCHANGED readerVars
    BY <1>2, WriteForms
  <2>1. ASSUME NEW op, Receive(s, op), UNCHANGED readerVars PROVE CatalogueInv'
    <3>1. UNCHANGED <<row, client, fresh, slipped>>
      BY <2>1 DEF Receive, readerVars
    <3> QED BY <1>1, <2>1, <3>1, ReceiveStep, QuietSynced DEF CatalogueInv
  <2>2. CASE Step(s) /\ UNCHANGED readerVars
    <3>1. UNCHANGED <<client, fresh, slipped>>
      BY <2>2 DEF readerVars
    <3> QED BY <1>1, <2>2, <3>1, WriteStep, QuietSynced DEF CatalogueInv
  <2>3. CASE CommitSeen(s)
    BY <1>1, <2>3, CommitStep, CommitSynced DEF CommitSeen, CatalogueInv
  <2>4. CASE Rollback(s) /\ UNCHANGED readerVars
    <3>1. UNCHANGED <<row, client, fresh, slipped>>
      BY <2>4 DEF Rollback, readerVars
    <3> QED BY <1>1, <2>4, <3>1, RollbackStep, QuietSynced DEF CatalogueInv
  <2> QED BY <2>1, <2>2, <2>3, <2>4
<1>3. CASE Pass /\ UNCHANGED readerVars
  <2>1. UNCHANGED <<table, row, issued, tx, client, fresh, slipped>> /\ now' = now + 1
    BY <1>3 DEF Pass, readerVars
  <2> QED BY <1>1, <2>1, QuietMaster, QuietSynced DEF CatalogueInv
<1>4. CASE SyncItems \/ SyncDeleted
  <2>1. UNCHANGED <<table, row, issued, tx, now>>
    BY <1>4 DEF SyncItems, SyncDeleted, masterVars
  <2>2. MasterInv' /\ Stamped'
    BY <1>1, <2>1, QuietMaster
  <2> QED BY <1>4, <2>2, ItemsSynced, DeletedSynced DEF CatalogueInv
<1>5. CASE \/ \E order \in {"ASC", "DESC"} : StartWalk(order)
           \/ ReadPage
           \/ UNCHANGED vars
  <2>1. UNCHANGED <<table, row, issued, tx, now, client, fresh, slipped>>
    BY <1>5 DEF StartWalk, ReadPage, vars, masterVars, readerVars
  <2> QED BY <1>1, <2>1, QuietMaster, QuietSynced DEF CatalogueInv
<1> QED BY <1>2, <1>3, <1>4, <1>5 DEF Next

(* It holds at the start.                                                  *)
LEMMA CatalogueStart ==
  ASSUME Init
  PROVE  CatalogueInv
<1>1. /\ table \in Table /\ row = [i \in Id |-> NoRow] /\ issued = 0
      /\ tx = [s \in Session |-> NoTx] /\ now = 2
      /\ client = [since |-> 0, sync_time |-> 0, reading |-> FALSE, copy |-> [i \in Id |-> Missing]]
      /\ fresh = {} /\ slipped = {}
  BY DEF Init, MasterInit
<1>2. NoRow \in Entry /\ NoRow.updated_at = 0 /\ ~NoRow.is_active /\ Shown(NoRow) = Missing
  BY DEF NoRow, Entry, Shown
<1>3. /\ \A s \in Session : tx[s] = NoTx /\ DOMAIN Mine(s) = {} /\ DOMAIN tx[s].at = {}
                            /\ DOMAIN tx[s].todo = {}
      /\ \A i \in Id : row[i] = NoRow
  BY <1>1, NoTxFacts DEF Mine
<1>4. Typed
  BY <1>1, <1>2, NoTxFacts DEF Typed
<1>5. Issued /\ Alive /\ Apart
  BY <1>2, <1>3 DEF Issued, Alive, Apart
<1>6. Kept /\ Looked /\ Met
  BY <1>3, NoTxFacts DEF Kept, SeenIn, Looked, LookedIn, Met
<1>7. \A s \in Session : Todo(s) /\ Stays(s)
  BY <1>3 DEF Todo, Stays
<1>8. Stamped
  BY <1>3 DEF Stamped
<1>9. Synced
  <2>1. [i \in Id |-> Missing] \in [Id -> {Shown(r) : r \in Entry}]
    BY <1>2
  <2> QED BY <1>1, <1>2, <1>3, <2>1 DEF Synced
<1> QED BY <1>4, <1>5, <1>6, <1>7, <1>8, <1>9 DEF CatalogueInv, MasterInv

(* The inductive invariant: what the requests under way hold and have left *)
(* to do is known, and so is what the client lacks.                        *)
THEOREM CatalogueIsSound == Spec => []CatalogueInv
<1>1. Init => CatalogueInv
  BY CatalogueStart
<1>2. CatalogueInv /\ [Next]_vars => CatalogueInv'
  BY CatalogueStep
<1> QED BY <1>1, <1>2, PTL DEF Spec

(* The unique key stands in the way of a create that its look-up let       *)
(* through only for a row that was not in the table when it looked, or,    *)
(* where it looks among the active rows, for a deleted one.                *)
THEOREM AlwaysLooked == Spec => []LookedBeforeItInserts
<1>1. CatalogueInv => LookedBeforeItInserts
  BY DEF CatalogueInv, MasterInv, Looked, LookedIn, LookedBeforeItInserts
<1> QED BY <1>1, CatalogueIsSound, PTL

(* A deleted row comes back only by the creates that are meant to revive   *)
(* it, never by an update that had read it before.                         *)
THEOREM RevivedOnPurpose == Spec => DeletedComesBackOnPurpose
<1> DEFINE Purpose ==
             \A i \in Id :
                row[i].updated_at > 0 /\ ~row[i].is_active /\ row'[i].is_active
                => \E s \in Session : tx[s].op = "create"
                                      /\ table \in {"service_area", "addon_driver_rate"}
<1>1. ASSUME CatalogueInv, Write PROVE Purpose
  <2> PICK s \in Session :
        \/ \E op : Receive(s, op) /\ UNCHANGED readerVars
        \/ Step(s) /\ UNCHANGED readerVars
        \/ CommitSeen(s)
        \/ Rollback(s) /\ UNCHANGED readerVars
    BY <1>1, WriteForms
  <2>1. CASE CommitSeen(s)
    <3>1. Typed /\ Stays(s) /\ row' = View(s)
      BY <1>1, <2>1 DEF CatalogueInv, MasterInv, CommitSeen, Commit
    <3>2. \A i \in Id : row'[i] = IF i \in DOMAIN Mine(s) THEN Mine(s)[i] ELSE row[i]
      BY <3>1, ViewFacts
    <3> QED BY <3>1, <3>2 DEF Stays
  <2>2. CASE ~CommitSeen(s)
    <3>1. row' = row
      BY <1>1, <2>2, WriteStep DEF CatalogueInv, Receive, Rollback
    <3> QED BY <3>1
  <2> QED BY <2>1, <2>2
<1>2. CatalogueInv /\ [Next]_vars => [Purpose]_vars
  <2> SUFFICES ASSUME CatalogueInv, Next, ~Write PROVE Purpose
    BY <1>1
  <2>1. row' = row
    BY DEF Next, Pass, SyncItems, SyncDeleted, StartWalk, ReadPage, masterVars
  <2> QED BY <2>1
<1>3. Spec => [][Purpose]_vars
  <2> HIDE DEF Purpose
  <2> QED BY <1>2, CatalogueIsSound, PTL DEF Spec
<1> QED BY <1>3 DEF DeletedComesBackOnPurpose

(* Between syncs the client has every row as it is in the table, except    *)
(* those committed since its last sync began and those that slipped by.    *)
THEOREM SyncAlwaysComplete == Spec => []SyncIsComplete
<1>1. CatalogueInv => SyncIsComplete
  BY DEF CatalogueInv, Synced, SyncIsComplete
<1> QED BY <1>1, CatalogueIsSound, PTL

-----------------------------------------------------------------------------
(* What a walk has met *)

(* A page that is not the last is of rows ahead of those left for later.   *)
Ahead(i) == pager.cursor = 0 \/ Before(pager.order, pager.cursor, i)

Walked ==
  /\ pager \in [state : {"off", "on", "done"}, order : {"ASC", "DESC"}, cursor : Nat,
                saw : Seq(SUBSET Id), steady : SUBSET Id]
  /\ pager.state # "off" => pager.steady \subseteq ActiveIds
  /\ pager.state = "on" =>
       /\ \A n \in DOMAIN pager.saw : \A i \in pager.saw[n] : ~Ahead(i)
       /\ \A i \in pager.steady : Ahead(i) \/ \E n \in DOMAIN pager.saw : i \in pager.saw[n]
  /\ pager.state # "off" =>
       \A m, n \in DOMAIN pager.saw : m # n => pager.saw[m] \cap pager.saw[n] = {}
  /\ WalkIsExact

(* Of any rows there is a first in either order.                           *)
LEMMA FirstRow ==
  ASSUME NEW S, S \subseteq Id, S # {}, NEW order \in {"ASC", "DESC"}
  PROVE  \E i \in S : \A j \in S : j = i \/ Before(order, i, j)
<1> DEFINE R == OpToRel(<, Nat)
<1>1. IsWellFoundedOn(R, Nat)
  BY NatLessThanWellFounded
<1>2. \A m, n \in Nat : m < n => <<m, n>> \in R
  BY DEF OpToRel
<1> HIDE DEF R
<1>3. CASE order = "ASC"
  <2>1. S \subseteq Nat
    BY DEF Id
  <2>2. PICK i \in S : \A j \in S : ~(<<j, i>> \in R)
    BY <1>1, <2>1, WFMin
  <2>3. \A j \in S : ~(j < i)
    BY <1>2, <2>1, <2>2
  <2>4. \A j \in S : j = i \/ i < j
    BY <2>1, <2>3
  <2> QED BY <1>3, <2>4 DEF Before
<1>4. CASE order = "DESC"
  <2> DEFINE T == {n \in 0 .. MaxRows : MaxRows - n \in S}
  <2>1. \A i \in S : MaxRows - i \in T
    BY DEF Id
  <2>2. T \subseteq Nat /\ T # {}
    BY <2>1
  <2>3. PICK t \in T : \A u \in T : ~(<<u, t>> \in R)
    <3> HIDE DEF T
    <3> QED BY <1>1, <2>2, WFMin
  <2>4. \A j \in S : ~(MaxRows - j < t)
    <3> HIDE DEF T
    <3> QED BY <1>2, <2>1, <2>2, <2>3
  <2>5. MaxRows - t \in S /\ t \in 0 .. MaxRows
    BY <2>3
  <2>6. \A j \in S : j = MaxRows - t \/ j < MaxRows - t
    BY <2>4, <2>5 DEF Id
  <2> QED BY <1>4, <2>5, <2>6 DEF Before
<1> QED BY <1>3, <1>4

(* What ReadPage cuts: some rows, of which the last is before all the      *)
(* others, or all of them when there is no next page.                      *)
LEMMA PageFacts ==
  ASSUME NEW found, found \subseteq Id, NEW order \in {"ASC", "DESC"},
         NEW page, page = FirstOf(found, order)
  PROVE  /\ page \subseteq found
         /\ Cardinality(found) > Take =>
              /\ LastOf(page, order) \in page
              /\ \A i \in page : ~Before(order, LastOf(page, order), i)
              /\ \A i \in found \ page : Before(order, LastOf(page, order), i)
         /\ ~(Cardinality(found) > Take) => page = found
<1> DEFINE Preds(i) == {j \in found : Before(order, j, i)}
<1> USE TakeBound
<1>1. page = {i \in found : Cardinality(Preds(i)) < Take}
  BY DEF FirstOf
<1>2. IsFiniteSet(found) /\ Cardinality(found) \in Nat
  <2>1. IsFiniteSet(Id)
    BY FS_Interval DEF Id
  <2>2. found \in SUBSET Id
    OBVIOUS
  <2>3. IsFiniteSet(found)
    BY <2>1, <2>2, FS_Subset
  <2> QED BY <2>3, FS_CardinalityType
<1>3. \A i : IsFiniteSet(Preds(i)) /\ Cardinality(Preds(i)) \in Nat
  <2> SUFFICES ASSUME NEW i PROVE IsFiniteSet(Preds(i)) /\ Cardinality(Preds(i)) \in Nat
    OBVIOUS
  <2>1. Preds(i) \in SUBSET found
    OBVIOUS
  <2>2. IsFiniteSet(Preds(i))
    BY <1>2, <2>1, FS_Subset
  <2> QED BY <2>2, FS_CardinalityType
<1>4. /\ \A i, j \in Id : i = j \/ Before(order, i, j) \/ Before(order, j, i)
      /\ \A i, j \in Id : Before(order, i, j) => i # j /\ ~Before(order, j, i)
      /\ \A i, j, k \in Id : Before(order, i, j) /\ Before(order, j, k) => Before(order, i, k)
  BY DEF Before, Id
<1>5. ASSUME NEW i \in found \ page, NEW d \in page
      PROVE  Before(order, d, i)
  <2> SUFFICES ASSUME ~Before(order, d, i)
               PROVE  FALSE
    OBVIOUS
  <2>1. d \in found /\ (i = d \/ Before(order, i, d))
    BY <1>1, <1>4
  <2>2. Preds(i) \in SUBSET Preds(d)
    BY <1>1, <1>4, <2>1
  <2>3. Cardinality(Preds(i)) <= Cardinality(Preds(d))
    BY <1>3, <2>2, FS_Subset
  <2>4. Cardinality(Preds(d)) < Take /\ ~(Cardinality(Preds(i)) < Take)
    BY <1>1, <1>5
  <2> QED
    <3> HIDE DEF Preds
    <3> QED BY <1>3, <2>3, <2>4
<1>6. ASSUME found # {}
      PROVE  page # {}
  <2>1. PICK i \in found : \A j \in found : j = i \/ Before(order, i, j)
    BY <1>6, FirstRow
  <2>2. Preds(i) = {}
    BY <1>4, <2>1
  <2>3. Cardinality(Preds(i)) < Take
    BY <2>2, FS_EmptySet
  <2> QED BY <1>1, <2>3
<1>7. ASSUME Cardinality(found) > Take
      PROVE  /\ LastOf(page, order) \in page
             /\ \A i \in page : ~Before(order, LastOf(page, order), i)
  <2>1. found # {}
    BY <1>7, FS_EmptySet
  <2>2. page # {} /\ page \subseteq Id
    BY <1>1, <1>6, <2>1
  <2> DEFINE other == IF order = "ASC" THEN "DESC" ELSE "ASC"
  <2>3. \A i, j : Before(other, i, j) <=> Before(order, j, i)
    BY DEF Before
  <2>4. PICK i \in page : \A j \in page : j = i \/ Before(other, i, j)
    BY <2>2, FirstRow
  <2>5. \E x \in page : \A j \in page : j = x \/ Before(order, j, x)
    <3> HIDE DEF other
    <3> QED BY <2>3, <2>4
  <2>6. /\ LastOf(page, order) \in page
        /\ \A j \in page : j = LastOf(page, order) \/ Before(order, j, LastOf(page, order))
    BY <2>5 DEF LastOf
  <2> QED BY <1>4, <2>2, <2>6
<1>8. ASSUME ~(Cardinality(found) > Take), NEW i \in found
      PROVE  i \in page
  <2>1. Preds(i) \in SUBSET found /\ i \notin Preds(i)
    BY <1>4
  <2>2. Cardinality(Preds(i)) <= Cardinality(found) /\ Cardinality(Preds(i)) # Cardinality(found)
    <3> HIDE DEF Preds
    <3> QED BY <1>2, <2>1, FS_Subset
  <2> QED
    <3>1. Cardinality(Preds(i)) < Take
      <4> HIDE DEF Preds
      <4> QED BY <1>2, <1>3, <1>8, <2>2
    <3> QED BY <1>1, <3>1
<1>9. page \subseteq found
  BY <1>1
<1> QED BY <1>5, <1>7, <1>8, <1>9

(* Reading a page moves the walk past what the page holds, and no further. *)
LEMMA PageWalked ==
  ASSUME Walked, ReadPage
  PROVE  Walked'
<1> DEFINE found == Beyond(pager.order, pager.cursor)
           page  == FirstOf(found, pager.order)
           last  == LastOf(page, pager.order)
           more  == Cardinality(found) > Take
<1>1. /\ pager.state = "on" /\ row' = row
      /\ pager' = [pager EXCEPT !.saw = Append(@, page),
                                !.state = IF more THEN "on" ELSE "done",
                                !.cursor = IF more THEN last ELSE @]
  BY DEF ReadPage, masterVars
<1>2. /\ pager \in [state : {"off", "on", "done"}, order : {"ASC", "DESC"}, cursor : Nat,
                    saw : Seq(SUBSET Id), steady : SUBSET Id]
      /\ pager.steady \subseteq ActiveIds /\ ActiveIds' = ActiveIds /\ ActiveIds \subseteq Id
  BY <1>1 DEF Walked, ActiveIds
<1>3. found = {i \in ActiveIds : Ahead(i)} /\ found \subseteq Id
  BY <1>2 DEF Beyond, Ahead
<1>4. /\ page \subseteq found
      /\ more => /\ last \in page
                 /\ \A i \in page : ~Before(pager.order, last, i)
                 /\ \A i \in found \ page : Before(pager.order, last, i)
      /\ ~more => page = found
  <2>1. page = FirstOf(found, pager.order)
    OBVIOUS
  <2>2. pager.order \in {"ASC", "DESC"}
    BY <1>2
  <2> HIDE DEF found, page
  <2> QED BY <1>3, <2>1, <2>2, PageFacts
<1>5. /\ \A n \in DOMAIN pager.saw : \A i \in pager.saw[n] : ~Ahead(i)
      /\ \A i \in pager.steady : Ahead(i) \/ \E n \in DOMAIN pager.saw : i \in pager.saw[n]
      /\ \A m, n \in DOMAIN pager.saw : m # n => pager.saw[m] \cap pager.saw[n] = {}
  BY <1>1 DEF Walked
<1> HIDE DEF page, last, more
<1>6. /\ pager'.state = IF more THEN "on" ELSE "done"
      /\ pager'.order = pager.order /\ pager'.steady = pager.steady
      /\ pager'.cursor = IF more THEN last ELSE pager.cursor
      /\ pager'.saw = Append(pager.saw, page)
  BY <1>1, <1>2
<1>7. more => last \in Id /\ last \in Nat /\ last > 0
  BY <1>3, <1>4 DEF Id
<1>8. pager' \in [state : {"off", "on", "done"}, order : {"ASC", "DESC"}, cursor : Nat,
                  saw : Seq(SUBSET Id), steady : SUBSET Id]
  <2>1. page \in SUBSET Id
    BY <1>3, <1>4
  <2>2. Append(pager.saw, page) \in Seq(SUBSET Id)
    BY <1>2, <2>1
  <2> QED BY <1>1, <1>2, <1>7, <2>2
<1>9. /\ DOMAIN pager'.saw = DOMAIN pager.saw \cup {Len(pager.saw) + 1}
      /\ Len(pager.saw) + 1 \notin DOMAIN pager.saw
      /\ pager'.saw[Len(pager.saw) + 1] = page
      /\ \A n \in DOMAIN pager.saw : pager'.saw[n] = pager.saw[n]
  BY <1>2, <1>6
<1>10. \A m, n \in DOMAIN pager'.saw : m # n => pager'.saw[m] \cap pager'.saw[n] = {}
  <2>1. \A n \in DOMAIN pager.saw : pager.saw[n] \cap page = {}
    BY <1>3, <1>4, <1>5
  <2> QED BY <1>5, <1>9, <2>1
<1>11. \A i \in pager.steady :
          i \in found \/ \E n \in DOMAIN pager.saw : i \in pager.saw[n]
  BY <1>2, <1>3, <1>5
<1>12. \A i \in pager.steady :
          i \in found \ page \/ \E n \in DOMAIN pager'.saw : i \in pager'.saw[n]
  BY <1>9, <1>11
<1>13. CASE more
  <2>1. \A i : Ahead(i)' <=> Before(pager.order, last, i)
    BY <1>6, <1>7, <1>13 DEF Ahead
  <2>2. \A n \in DOMAIN pager'.saw : \A i \in pager'.saw[n] : ~Ahead(i)'
    <3>1. ASSUME NEW n \in DOMAIN pager.saw, NEW i \in pager.saw[n]
          PROVE  ~Before(pager.order, last, i)
      <4>1. ~Ahead(i) /\ Ahead(last) /\ i \in Id
        BY <1>2, <1>3, <1>4, <1>5, <1>13, <3>1
      <4>2. i \in Nat /\ last \in Nat /\ pager.cursor \in Nat /\ pager.order \in {"ASC", "DESC"}
        BY <1>2, <1>7, <1>13, <4>1 DEF Id
      <4> QED BY <4>1, <4>2 DEF Ahead, Before
    <3> QED BY <1>4, <1>9, <1>13, <2>1, <3>1
  <2>3. \A i \in pager'.steady : Ahead(i)' \/ \E n \in DOMAIN pager'.saw : i \in pager'.saw[n]
    BY <1>4, <1>6, <1>12, <1>13, <2>1
  <2> QED BY <1>2, <1>6, <1>8, <1>10, <1>13, <2>2, <2>3 DEF Walked, WalkIsExact
<1>14. CASE ~more
  <2>1. \A i \in pager'.steady : \E n \in DOMAIN pager'.saw : i \in pager'.saw[n]
    BY <1>4, <1>6, <1>12, <1>14
  <2> QED BY <1>2, <1>6, <1>8, <1>10, <1>14, <2>1 DEF Walked, WalkIsExact
<1> QED BY <1>13, <1>14

(* A walk that begins has everything ahead of it.                          *)
LEMMA StartWalked ==
  ASSUME Walked, NEW order \in {"ASC", "DESC"}, StartWalk(order)
  PROVE  Walked'
<1>1. pager' = [state |-> "on", order |-> order, cursor |-> 0, saw |-> <<>>, steady |-> ActiveIds]
      /\ ActiveIds' = ActiveIds /\ ActiveIds \subseteq Id
  BY DEF StartWalk, NoWalk, masterVars, ActiveIds
<1>2. <<>> \in Seq(SUBSET Id) /\ DOMAIN <<>> = {}
  OBVIOUS
<1> QED BY <1>1, <1>2 DEF Walked, Ahead, WalkIsExact

(* A commit may insert and delete: what is no longer active all along is   *)
(* not expected any more.                                                  *)
LEMMA CommitWalked ==
  ASSUME Walked, NEW s \in Session, CommitSeen(s)
  PROVE  Walked'
<1>1. pager' = [pager EXCEPT !.steady = {i \in @ : row'[i].is_active}]
  BY DEF CommitSeen
<1>2. pager \in [state : {"off", "on", "done"}, order : {"ASC", "DESC"}, cursor : Nat,
                 saw : Seq(SUBSET Id), steady : SUBSET Id]
  BY DEF Walked
<1>3. /\ pager'.state = pager.state /\ pager'.order = pager.order
      /\ pager'.cursor = pager.cursor /\ pager'.saw = pager.saw
      /\ pager'.steady = {i \in pager.steady : row'[i].is_active}
  BY <1>1, <1>2
<1>4. pager'.steady \subseteq pager.steady /\ pager'.steady \subseteq ActiveIds'
  BY <1>2, <1>3 DEF ActiveIds
<1>5. pager' \in [state : {"off", "on", "done"}, order : {"ASC", "DESC"}, cursor : Nat,
                  saw : Seq(SUBSET Id), steady : SUBSET Id]
  BY <1>1, <1>2
<1>6. \A i : Ahead(i)' <=> Ahead(i)
  BY <1>3 DEF Ahead
<1> QED BY <1>3, <1>4, <1>5, <1>6 DEF Walked, WalkIsExact

(* The walk depends on the rows and its own state alone.                   *)
LEMMA QuietWalked ==
  ASSUME Walked, UNCHANGED <<row, pager>>
  PROVE  Walked'
BY DEF Walked, Ahead, ActiveIds, WalkIsExact

(* No step of the specification breaks a walk.                             *)
LEMMA WalkStep ==
  ASSUME Walked, CatalogueInv, [Next]_vars
  PROVE  Walked'
<1>1. CASE Write
  <2> PICK s \in Session :
        \/ \E op : Receive(s, op) /\ UNCHANGED readerVars
        \/ Step(s) /\ UNCHANGED readerVars
        \/ CommitSeen(s)
        \/ Rollback(s) /\ UNCHANGED readerVars
    BY <1>1, WriteForms
  <2>1. CASE CommitSeen(s)
    BY <2>1, CommitWalked
  <2>2. CASE ~CommitSeen(s)
    <3>1. row' = row
      BY <2>2, WriteStep DEF CatalogueInv, Receive, Rollback
    <3>2. pager' = pager
      BY <2>2 DEF readerVars
    <3> QED BY <3>1, <3>2, QuietWalked
  <2> QED BY <2>1, <2>2
<1>2. CASE ReadPage
  BY <1>2, PageWalked
<1>3. CASE \E order \in {"ASC", "DESC"} : StartWalk(order)
  BY <1>3, StartWalked
<1>4. CASE (Pass /\ UNCHANGED readerVars) \/ SyncItems \/ SyncDeleted \/ UNCHANGED vars
  <2>1. UNCHANGED <<row, pager>>
    BY <1>4 DEF Pass, SyncItems, SyncDeleted, vars, masterVars, readerVars
  <2> QED BY <2>1, QuietWalked
<1> QED BY <1>1, <1>2, <1>3, <1>4 DEF Next

(* A walk through the pages in the order of the ids, either way, meets     *)
(* every row that is active all along, and no row twice, whatever is       *)
(* inserted, deleted and revived between its pages.                        *)
THEOREM WalkAlwaysExact == Spec => []WalkIsExact
<1>1. Init => Walked
  <2>1. <<>> \in Seq(SUBSET Id)
    OBVIOUS
  <2> QED BY <2>1 DEF Init, NoWalk, Walked, WalkIsExact
<1>2. Walked /\ CatalogueInv /\ [Next]_vars => Walked'
  BY WalkStep
<1>3. Spec => []Walked
  BY <1>1, <1>2, CatalogueIsSound, PTL DEF Spec
<1>4. Walked => WalkIsExact
  BY DEF Walked
<1> QED BY <1>3, <1>4, PTL

=============================================================================
