# A TLA+ model of the TMS backend

The repository is the backend of a drayage TMS: dispatchers take delivery orders
for containers, cut each container's journey into legs, give the legs to drivers,
who move them through a mobile application; the completed legs are paid to the
driver (settlements) and charged to the customer (invoices).  It is a FastAPI
application on MySQL, Redis and an S3 store, with one asynchronous SQLAlchemy
session per request, served by one uvicorn process (`Dockerfile:29`).

This directory holds TLA+ modules of the parts where that system is hard to get
right, the TLC runs that check them and the TLAPS proofs of what matters most.
Paths below are relative to `src/src/` of the repository.

- [The system](#the-system): the inventory of its parts
- [How a request runs](#how-a-request-runs): what every module assumes of a session
- [The modules](#the-modules) and how they correspond to the code
- [The runs](#the-runs), their bounds, and what they show
- [Disagreements](#disagreements) between the code and what it says of itself
- [The proofs](#the-proofs)
- [What is not modelled](#what-is-not-modelled)
- [The plan](#the-plan)

## The system

### Dispatch: legs, orders, containers, stops, drivers

| part | state | operations | what makes it correct |
|---|---|---|---|
| legs (`leg/`) | one row per move: driver, container, status, answer of the driver, `reissued_from_leg_id`, `is_active` | create, create_bulk, update, update_bulk, assign, unassign, apply_load_type, reissue_dry_run, delete, delete_bulk, transition | the status follows the graph of `leg/state_machine.py`; a dry run is replaced once; generation replaces no leg under way; a driver answers once |
| delivery orders (`delivery_order/`) | status, hold, cancellation, `is_active` | transition, set_hold, cancel, delete, and the derivation `derive_do_dispatch_state` | while automatic, the status is the one its legs give; a derivation never overrides the dispatcher; a cancelled order is not on hold |
| containers (`container/`) | `work_state`, `is_active` | delete, and the derivation `derive_and_save_state` | `work_state` is the one its stops and legs give; HOLD and CANCELLED stay |
| container stops (`container_stop/`) | container, sequence number, arrival, `is_active` | create, update, reorder, delete, each with the derivation | the same |
| driver application (`driver_mobile/`) | none of its own | accept, reject, checkpoint, arrival at and departure from a stop, documents | a driver acts on his own legs, once |
| driver segments (`leg_driver_segment/`) | the drivers of a leg in sequence | create, update, delete, each refreshing `leg.driver_id` | `leg.driver_id` is the driver of the last segment |

They interact by calls in the request: a leg operation calls the derivations of
its order and its container, some in its own transaction, some after its commit in
a `try` whose exceptions are dropped (`leg/service.py:279-305`, `514-521`).  What is
hard is exactly that: which operations derive and which do not, derivations that
are lost, and requests of dispatchers and drivers that overlap on rows nobody locks.

### Money: payroll and invoices

| part | state | operations | what makes it correct |
|---|---|---|---|
| payroll (`payroll/`) | settlements of a driver and period, their lines (one per leg) and charges, totals | build, build_period, confirm, mark_paid, void, add_charge, delete | a leg is paid once; an unresolved line is never confirmed; the total is the sum; what is confirmed is frozen |
| invoices (`invoice/`) | invoices of an order, their lines, totals | create with prefill, add, change and delete a line, transition, delete | the total is the sum of the lines; what is issued is frozen |

### Rates

| part | state | operations | what makes it correct |
|---|---|---|---|
| rate sheets (`rate_sheet/`) | versions of the price of a cell, each with its period | create, delete, set_rate, set_rate_bulk, the resolution ladder of `resolve.py` | the versions of a cell are disjoint in time; no price is lost; a leg is paid by the most specific rate that covers it |
| rate zones (`rate_zone/`) | atoms (zips, cities) of a zone in a scope | create, update, replace and add members, delete | an atom is in one zone of a scope |
| rate groups, driver assignments (`rate_group/`, `driver_rate_assignment/`) | which sheet pays which driver, when; the default group of a method | create, update, delete | one answer per driver and date |
| rate import (`rate_import/`) | none | dry run and import of a file | an import is a batch of the requests above |

A settlement asks `payroll/resolve.py`, which asks the assignment of the driver,
the group, its sheets and its zones: what is hard is the order of that ladder and
the many ways by which versions and zones come to be.

### Master data and its readers

| part | state | operations | what makes it correct |
|---|---|---|---|
| customers, locations, terminals, vessels, notifications, trucks, chassis, equipment pools, drivers, addons and their driver rates, load type templates, service areas, street turns, chassis events, API keys; orders, legs and dual transactions as rows | one row each, most with a unique key per team that counts deleted rows | create, update, soft delete, one by one and in bulk; some seed or revive | a create is refused for a key in use, not for a row its own look-up overlooked; a deleted row stays deleted unless somebody asks for it |
| pagination and delta sync (`common/pagination/`) | none; the client keeps a copy and a cursor | `sync_delta`, `cursor_paginate` | a client that syncs has what the table has; a walk meets each row once |

### Access, messages and files

| part | state | operations | what makes it correct |
|---|---|---|---|
| authentication (`auth/`) | sessions, refresh tokens, one-time codes in Redis | login, sign-up, rotate, logout, reset, the check of every request | a session that was closed lets nobody in; whoever looks for the sessions of a user finds them |
| users (`user/`) | accounts | create, delete | a deleted user is out; a code opens one account |
| roles (`rbac/`), teams (`team/`) | groups and their codes, members, three caches in Redis | invite, remove, leave, assign, edit a group, read through the caches | no cache stays wrong |
| realtime (`realtime/`) | connections, their bounded queues, one subscriber task per team | publish, register, unregister, ping, shutdown | a client gets the events of its team in order and once |
| files (`file/`) | a table and a store | upload, commit, replace, remove, deactivate | every row has its object |

`PROJECT.json` lists all parts, those without a module too, with the status of each,
and lists the hazards of the code at the lines where they bite.

## How a request runs

Every module takes this from `database/mysql_connection.py:26-144` and
`database/dependencies.py:18-33`:

- a request has a session of its own, at READ COMMITTED, and commits when it ends
  (`get_write_db`); some services commit earlier by themselves;
- autoflush and `expire_on_commit` are off, and no row is ever read FOR UPDATE.
  A SELECT sees what is committed, but a row the session already loaded keeps its
  old attributes (the identity map); a guard is evaluated on what was loaded, not
  on the row;
- a flush writes only the attributes that differ from those loaded.  Two requests
  lose an update of one another exactly when they change the same column
  (`Merge` in `DispatchRC`, `Column` in `Invoice`, the two conditionals of
  `SaveSettlement` in `Payroll`);
- a flushed row is locked until the commit.  An inserted leg holds a shared lock on
  its order as well, through its foreign key (`OrderFree`).  Inserted charges and
  invoice lines refer to the secondary unique key `(team_id, id)` of their header,
  which no update of the header touches, so they keep nobody out;
- anything may fail anywhere (a deadlock, a lock wait, a lost connection, the
  process): what is not committed is lost (`Fail`, `FailPayroll`, `FailInvoice`,
  `Rollback`), but what was done to Redis or to the store remains (`Files`,
  `TeamRoles`);
- in production some reads go to a replica (`get_team_scope`, the syncs).  Its lag is
  left out: every read sees what is committed.

## The modules

| module | models | extends |
|---|---|---|
| `LegStates` | the rows of legs, orders, stops, the two graphs, and the pure functions `compute_dispatch_status` and `compute_work_state` | |
| `Dispatch` | one order with its containers, legs and stops, one request at a time | `LegStates` |
| `DispatchRC` | the leg and order requests of `Dispatch` when they overlap | `LegStates` |
| `Payroll` | the settlements of one driver and period, requests overlapping | |
| `Invoice` | the invoices of one order, requests overlapping | |
| `Billing` | both sides of the money of a leg | `Payroll`, `Invoice` |
| `PriceList` | what a rate sheet promises: announcements of prices, of which none is lost | |
| `RateGroups` | the groups by which drivers are paid, their defaults, the assignments | |
| `RateSheets` | the sheets of the groups and the versions of their prices; implements `PriceList` | `RateGroups` |
| `RateZones` | the zones and their atoms | |
| `Rates` | groups, sheets and zones together, and how a leg is priced | `RateSheets`, `RateZones` |
| `Sessions` | logins, tokens and sessions over keys of Redis that expire | |
| `Accounts` | sign-up, codes, resets, deletion of accounts | `Sessions` |
| `TeamRoles` | members, groups and codes, and the caches of all three | |
| `MasterTable` | a table of master data: its rows and the transactions that write them | |
| `Catalogue` | that table with a client that syncs it and one that pages through it | `MasterTable` |
| `Files` | the files of a user in a database and an object store | |
| `Realtime` | web sockets, subscribers, queues | |
| `DispatchProofs`, `DispatchRCProofs`, `BillingProofs`, `RateProofs`, `AccountProofs`, `CatalogueProofs`, `FilesProofs` | theorems about the module each extends | `Dispatch`, `DispatchRC`, `Billing`, `Rates`, `Accounts`, `Catalogue`, `Files` |
| `RedisProofs` | theorems about what is cached in Redis and what is published through it | `TeamRoles`, `Realtime` |
| `MCDispatch` ... `MCRealtime` | values of constants, symmetry and constraints of the runs | |

Names ending in an underscore and a word (`Rederived_LiveOnly`, `Confirm_Unresolved`)
are plausible bugs, defined next to what they would replace; they belong to no
specification and serve to show that a property notices them.

### Dispatch

`leg`, `order`, `live`, `work`, `stop` are the tables (`live` is `is_active` of the
containers).  `issued` counts inserted legs; their identifiers grow.  `hook` is what
the last request has committed but not derived yet: `assign_driver`,
`unassign_driver`, `reissue_dry_run` and `transition` commit and then derive the
container and the order, each derivation in a `try` of its own.  `DeriveContainer`
and `DeriveOrder` are those derivations, `LoseHook` is the swallowed exception or
the dead process.  `delete` of a leg derives before its commit, both derivations in one
`try` that swallows a failure (`leg/service.py:514-521`): the deletion is committed with
both done, or with that of the container alone, or with neither (the three
alternatives of `DeleteLeg`).  Every other operation derives, or does not, within its
action, and a derivation that fails there takes the request with it.

Some operations change what a derived status depends on and derive nothing: the
bulk edits, PUT on a leg for the order, the start of a leg for its container, the
rejection of an offer, a driver segment, a manual transition, a deletion whose
derivation failed.  `staleOrder` and
`staleWork` record that this happened; no action reads them.  They make it possible
to say exactly when a derived status may be trusted (`OrderAgrees`, `WorkAgrees`)
instead of leaving those operations out.  Which operations skip a derivation is a
claim about the code: where an action uses `SkipStatus` or `SkipWork`, the method
has no call of the derivation.

| action | code |
|---|---|
| `CreateLeg`, `CreateLegBulk` | `leg/service.py` create, create_bulk |
| `UpdateLeg`, `UpdateLegBulk` | update, update_bulk |
| `AssignDriver`, `UnassignDriver`, `ReissueDryRun`, `TransitionLeg` | the methods of the same names; they owe a hook |
| `ApplyLoadType` | apply_load_type and `leg/generator.py` |
| `DeleteLeg`, `DeleteLegBulk` | delete, delete_bulk |
| `Checkpoint`, `AcceptOffer`, `RejectOffer` | `driver_mobile/service.py` |
| `ReportStop` | report_stop_arrive and report_stop_depart, `driver_mobile/service_v3.py` |
| `RefreshActiveDriver` | what create, update and delete of a segment do to the leg |
| `CreateStop` ... `DeleteStop` | `container_stop/service.py`, with the unique key that counts deleted rows |
| `TransitionOrder`, `SetHold`, `CancelOrder`, `DeleteOrder`, `DeleteContainer` | `delivery_order/service.py`, `container/service.py` |

### DispatchRC

The same requests cut where another one can come between: load and decide (`Change`,
`LoadOrder`), flush (`Flush`) or commit (`Commit`), refresh of the returned row
(`Refresh`), and the derivation in its three reads and writes (`ReadOrder`, `CountLegs`,
`Save`), which `delete` may lose (`SwallowFailure`).  `req[w]` is the session of a request:
the legs as loaded and as changed, the order likewise.  Whether a request derives, and on
which side of its commit, is its field `derives`.  Containers are left to `Dispatch`: their
derivation touches neither a leg nor the order.

### Payroll, Invoice, Billing

A payroll request is a read that decides (`CollectLegs`, `Confirm`, `MarkPaid`, `Void`,
`AddCharge`), for `add_charge` a second read that adds up (`SumCharges`), and the commit
(`Build`, `SaveSettlement`).  Amounts are symbolic: a total is the set of the charges it
adds up, so that a charge missing from a sum or counted on top cannot cancel out.  An
invoice line has a quantity and a unit price from small sets and the amount it charges,
that of one unit if the quantity is zero (`Charged`); `AddLine`, `UpdateLine`, `DeleteLine`
are followed by `FlushLine`, `SumLines` and `SaveInvoice`.  The legs a settlement pays and
the lines an invoice charges share no row, which is why `Billing` interleaves the two sides
and a constraint may move one of them at a time.

### PriceList, RateGroups, RateSheets, RateZones, Rates

A version of a cell has the day it starts and the day it ends, `Forever` for NULL.
`WithRate` is `versioning.set_rate`; `SetRate` and `SetRateBulk` are the requests that
call it once and several times.  `Announced` maps the versions to announcements, and
`List == INSTANCE PriceList WITH announced <- Announced, ...` is the promise they keep.
Cells are sets of one or two ends (an atom, or the number of a zone), for the
endpoints of a cell are stored in order: a lane has no direction.  A city is one of a
state; `Name` and `NameOf` are what cities are called, for a leg or a cell may name a city
without its state (`leg/schemas/request.py:30-34`), which `Matching` then takes for that of
any state, as the queries of `rate_zone/repository.py:146-154` do.

`RateGroups` has create, update and delete of groups and assignments, `RateZones`
every way by which a zone gets members, an import being a batch of those.
`Candidates`, `MatrixAnswer`, `GroupAnswer`, `Chains` and `Resolve` in `Rates` are the
functions of `rate_sheet/resolve.py` and `payroll/resolve.py`, in their order; where
the code takes the first row of a query without an order, they give the set of
rows it may take.

### Sessions, Accounts

`sess`, `refresh`, `mapped`, `listed` and `known` are families of Redis keys.  A request
is cut where it awaits Redis in between (`LoginRead`, `LoginClose`, `LoginOpen`;
`RotateRead`, `RotateWrite`; `Bearer`, `BearerFill`), and `SessionExpires`, `UserExpires`
and `CodeGone` may take any key at any time.  `closed` is history: the sessions that
a logout, a later login on the device or a reset has ended.  A session also carries,
as history, whether it was opened while a reset of its user was under way (`raced`,
`Wiping`): such a session may end unlisted and alive.  A login that inserted its account
commits it in the end (`CommitAccount`); when it fails (`LoginFails`), the account of a
sign-up goes with it, while that of an OAuth user is committed, for the callback answers
the failure with a redirect.

`Accounts` adds the one-time codes.  A `form` is a request with a code, cut where it awaits
Redis as well: `VerifyRead` reads the code and `VerifyOk` marks it as verified; `UseCode`
reads that mark, `TakeCode` deletes it, and `Register` inserts the account and goes on as a
login, as `DriverLogin` does for a driver.  `raced` is history: the codes that two forms held
at a time.  `RegisterOAuth` and `HireDriver` open accounts without a code, the second for a
driver whom a dispatcher enters, with a password nobody knows.  `ConfirmReset` reads the
sessions to close, `ResetWipe` closes them, `ResetDone` deletes the code.  `DeleteUser` closes
no session.

A web socket is let in by its token and the membership alone (`realtime/router.py:35-82`):
it asks neither for the session nor for the row of the user, so `ClosedStaysClosed` and
`DeletedIsOut` are about requests over HTTP.

### TeamRoles

A writer changes its rows, deletes the keys it knows of (`Invalidate`) and commits when
the request ends; a reader that misses a key reads the committed rows (`ScopeRead`,
`MetaRead`, `CodesRead`) and sets the key later (`...Fill`).  A key carries, as history,
whether a write overlapped its read (`over`).  The keys each operation deletes are
`MetaKeys`, `ScopeKeys` and `ListKeys`.

### MasterTable, Catalogue

The services and repositories of the nineteen tables are copies of one another with a few
differences.  The copies are one set of actions; the differences are descriptors with
the names of the classes: `Column` (does the key exist, may it be NULL), `Repository`
(what a create looks for before it inserts, whether an update leaves the key alone),
`Service` (which operations there are).  `table`, chosen initially, says which table a
behaviour is about.  A request is a transaction that reads (`Receive`), writes item after
item under row locks (`WriteCreate`, `WriteRevive`, `WriteUpdate`, `WriteDelete`) and
commits.  What it writes of a row follows the columns the session found changed: a row read
as active is not written active.  `there`, history, is what stood in the table when a create
looked for its key.  Columns keep whole seconds while the clock runs in half seconds, because
`sync_delta` compares the two.

`SyncItems` and `SyncDeleted` are the two queries of a sync, between which others commit;
`StartWalk` and `ReadPage` are `cursor_paginate`: a page is the set of those rows past the
cursor that fewer than `Take` come before (`FirstOf`), the next cursor the last of them
(`LastOf`), and `pager.saw` the sequence of the pages.  `fresh` and `slipped` are history:
the rows committed since the last sync began, and those whose last change no sync can
see.  The client is not part of the repository: it does with an answer what the
schema of `SyncMeta` tells it to.

### Files

`asset` are the committed rows, `store` and `temps` the objects.  `Commit` begins a request
that removes and adds files; `DeleteRows`, `Place` and `FlushAndClean` are its phases
between awaits of the database.  A key is a name and the suffixes it was given.  `Place` is
the loop over the uploads: `Copies` are the choices of places in the list that can be
copied, `Objects` what stands in the way of each copy, and `Placed` the rows made of them,
each under an identifier that counts the copies before it and a key that avoids what
`_object_exists` sees (`Seen`), which is nothing where the look-up fails.  The keys a
request names as uploads are not held to be under `tmp/`: `Lists` draws them from the
objects of the user, too, and `CommitElsewhere` is another user doing the same to one of
them.  `misused` is history: the keys so named, and those put over by a look-up that
failed.  `CommitSession` is the commit of `get_write_db`, and `Rollback` any failure before
it.  The store is not transactional: what a request has put there or deleted stays when the
request fails.  `LateFailures` tells whether a request may fail after it has deleted
objects, the one failure the code does not survive.

### Realtime

An action is what a task of the event loop does between two awaits.  `Register`, `Unregister`
and `Shutdown` hold the lock of the registry, and `Unregister` keeps it while it awaits the
task it cancelled (`Awaited`).  A subscriber is `Subscribe`d, `Listen`s, may `Crash` when
it loses Redis, and `Close`s when cancelled.  `Offer` is the bounded queue that drops its
oldest event.  A silent client (`FallSilent`) is known by the pings sent since it was
last heard.  A send that fails ends the connection at once here; in the code `send_loop`
stops (`realtime/router.py:93`) and the connection is found dead by the next receive or ping,
which is later and delivers no more.

## The runs

TLC explores every run to the end, within its constraint; none is simulated.

| run | instance | shows |
|---|---|---|
| `DispatchAlone` | 2 legs, 2 stops, 1 container, 1 driver, every state of the order | reissues form a chain (`ReissueLineage`), a driver answers once (`OneAnswer`), statuses follow the graph (`RespectsGraph`), generation replaces no leg under way (`GenerationKeepsProtected`); the derived statuses agree with the rows unless a derivation was skipped or lost (`OrderAgrees`, `WorkAgrees`) and override nobody (`AutomationNeverOverrides`); `CancelledNotHeld`, `TypeOK` |
| `RCOverlap` | 2 requests on 1 leg and every state of the order, 1 request on 2 legs | what holds whatever overlaps: a status is written along an edge from the status its writer loaded (`StatusStepsSeen`), a stale session undeletes no leg (`DeletedStaysDeleted`) and revives no cancelled order (`CancelSticks`) |
| `BillingAlone` | 2 legs, 2 settlements, 2 charges; 1 invoice, 2 lines; one request on each side, two where both write the status of a settlement | `SettledOnce`, `ConfirmedIsResolved`, `PayrollTotalAgrees`, `ConfirmedIsFrozen`, `StatusFollowsLoaded`; `InvoiceTotalAgrees`, `IssuedIsFrozen`; the two type invariants |
| `Sheets` | 3 days of a lane, 2 sheets | the versions implement a price list (`ImplementsPriceList`) and the one in force on a day is the one set latest in the calendar (`LookupIsLatest`) |
| `Rates` | 2 groups, 2 zones, 2 sheets, 2 zips, 2 cities of one name, 1 driver | an atom is in one zone of a scope (`OneZonePerAtom`); a leg between zips, or cities with their states, is paid by the most specific rate that covers its lane, and unresolved only if none does (`ResolveIsMostSpecific`) |
| `Accounts` | 2 accounts of one contact, 2 devices, 2 sessions, 2 requests, 2 forms, 2 codes | an ended session stays ended (`ClosedStaysClosed`), a live one is on the list by which a reset finds it unless it was opened during a reset (`LiveIsListed`), a code opens one account unless two requests overlap with it (`OneAccountPerCode`); a deleted user is out in the end and stays out (`DeletedIsOut`) |
| `TeamRoles` | 2 users, 1 custom group, 1 writer, 1 reader | every writer deletes the keys it makes untrue (`SerialIsTrue`); what a reader sets late is gone in the end (`StaleEnds`) |
| `Catalogue` | 19 tables, 2 key values, 2 requests, 3 rows, 3 seconds | the unique key, which counts deleted rows, refuses a create for a row that its look-up could not see, and no other (`LookedBeforeItInserts`); `DeletedComesBackOnPurpose`; a sync misses what slipped by it and nothing else (`SyncIsComplete`); `WalkIsExact` |
| `Files` | 2 requests, 2 uploads of one name, 3 rows | every row has an object of its own (`RowsHaveObjects`), no upload goes before its copy is there (`UploadsSurvive`), but for keys taken for uploads or put over |
| `Realtime` | 2 connections of a team, 3 tasks, 2 events, a queue of one | events come in order and once, less those the queue dropped (`NothingLostButOverflow`); what is heard arrives (`EventsArrive`); silent connections end (`IdleEnds`) |
| `SettledTwice`, `FilesRollback` | the smallest instance that shows it | [disagreements](#disagreements) |

### Bounds, and why they are enough

- *Dispatch.*  Two legs are what a derivation can tell apart: whether some leg has no
  driver and whether some leg has one.  They also give a reissue with its copy and a
  generation with what it replaces; a chain of reissues relates a leg to its original
  only.  One driver and none: the definitions compare a driver with the caller or with
  none.  Two stops give a last stop, another one, and the unique key in every
  configuration of reorder.  `Parts` explores three parts of the product: legs without a
  container with every state of the order, where a leg says no more than whether it waits
  for a driver; legs of a container in the automatic phase, outside which a leg operation
  does the same to the legs; and the container with its stops, whose `work_state` depends
  on no answer of a driver.
- *Two requests in flight* are enough for a stale read and a lost update.  In
  `RCOverlap` they do all they can to the leg or all they can to the order, not both;
  with a second leg, or a leg without a container, requests come one at a time.
- *Money.*  Two settlements give a leg that could be paid twice, two lines a prefill and
  an addition; the quantities are none, one and more.  Settlements and invoices move one at
  a time, for they share no row.  `StatusFollowsLoaded` is about requests that overlap, so
  two that write the status of a settlement do (`OnlyStatusesOverlap`): one is confirmed
  while it is voided, or voided while it is paid.  The claims about one request at a time
  hold of these too, and not if a charge or a build overlaps.
- *Rates.*  Three days are a version before, at and after the one that is set; two sheets
  of one cell because versions are looked up by both.  In `Rates`, `Focus` is either
  every request about the zones of two groups, with nothing else there (`OnlyZones`); or one
  group with two zones and two prices (`OneGroup`), so that every rung of the ladder has the
  price and a later one too, a lane between two zones and one within a zone among them; or
  a group and the default group it inherits from, each with a price, and a zone (`TwoGroups`),
  so that a less specific price of its own is there beside a more specific one of the
  default.  Two cities have one name, in two states.
- *Accounts.*  Two sessions, one of which closes the other, on two devices.  With two
  accounts the requests that overlap log in, log out or wipe.  Once a code was sent there is
  one session and one request on it at a time (`WithCodes`), while two forms overlap, also
  with one code, before that session is opened; and others log in and out around the reset
  of the account that signed up (`AroundReset`): a reset races a login.
- *TeamRoles.*  The user nobody follows is there to be the last administrator or not.
- *Catalogue.*  Two requests on two rows are all that a unique key or a lock can tell
  apart: they overlap on one table of each kind (`Kind`), and come one at a time on one row
  of the others, which differ from these in name only.  A sync treats each row by itself, so
  it has one row of four tables; three rows of one table with pages of one give a walk with
  a first, an inner and a last page.
- *Files.*  Two requests that remove the same row do not overlap (`RemovalsApart`):
  the overlap is one of the [disagreements](#disagreements) that no run is devoted to.
  The open requests name two keys together (`FewKeys`): two of one request, one in the way of
  the other, or one each.  Rows and misused keys are three together (`FewMisused`): a key is
  taken from a row, or put over while its row is removed, with a second row beside it.
- *Realtime.*  Of two connections one may leave while the other comes; a queue of one
  overflows at the second event; three tasks are one listening, one being cancelled and
  one starting.
- `CHECK_DEADLOCK FALSE` stands where the bounded counters of accounts, rows or events
  can be used up, or the worker shut down, so that nothing is left to do: `Accounts`,
  `TeamRoles`, `Catalogue`, `Files`, `FilesRollback`, `Realtime`.

### Fairness

- `Accounts` and `TeamRoles`: a key of Redis goes when its TTL has run out (WF of
  `UserExpires`, `ExpireMeta`, `ExpireScope`, `ExpireList`), and a request that was let
  in is answered (`BearerFill`, `Answer`).  Writers promise nothing; `StaleEnds` has
  the premise that they stop.
- `Realtime` (`EventLoop`): asyncio.Lock serves its waiters in order, so a connection that
  waits to register or to leave is not overtaken for ever, although others take the lock
  again and again (SF of `Register \/ Unregister \/ Awaited`, for each connection); a
  send ends and a timer fires (WF of `Send`, and of `Ping \/ IdleClose`); the event loop
  runs a subscriber that can run (WF of `Subscribe \/ Listen \/ Close`, for each task).
  That a send ends is an assumption on the network: a ping is sent before the idle limit is
  looked at (`realtime/router.py:110`), so a `send_text` that blocked for ever would keep a
  connection open.
  At the idle limit a ping or the close may come first; past it only the close is left.
  Nothing obliges a client to talk or leave, Redis to fail, or anything to be
  published, and nothing is published once the worker is down.
- `Dispatch`, `DispatchRC`, the billing, rates, catalogue and file specifications state
  none: nothing obliges a dispatcher or a driver to send a request, and the one
  obligation there is, the derivation after a commit, is dropped when it fails.
  `OrderAgrees` and `WorkAgrees` say what is true instead.

## Disagreements

Two are runs that expect a violation, of a property that quotes the repository.

- `SettledTwice`: two overlapping builds both find a leg unsettled, and no unique key
  on `payroll_line.leg_id` stops the second (`payroll/repository.py:27`).
- `FilesRollback`: a request that has removed a file and fails afterwards gets its row back
  without its object, though the objects are kept for a rollback (`file/service.py:85`):
  they are deleted after the flush, not after the commit.

Others were met while reading or modelling; the models have them, or leave the request
out, and no run is devoted to them:

- containers: the rules at the head of `container/state_derive.py:3-11` are not those of the
  code.  By the rules a container waits for a plan when no *leg* follows the stop that was
  reached last, and is at a stop when a PENDING leg follows; the code asks whether a *stop*
  follows (`next_seq`).  By the rules it is COMPLETED once its legs are and the last stop, of
  type TERMINUS, is reached; the code takes the last stop of any type, and a container whose
  legs are completed before that is AT_STOP, which the rules do not say.  `WorkAgrees` is
  about the code: that `work_state` is what the derivation gives, whenever it ran last;
- dispatch: a deletion of a leg answers success though its container and order were not
  derived (`leg/service.py:514-521`); a rejection leaves an order DISPATCHED that has an
  unassigned leg (`delivery_order/state_derive.py:6`); `rejected_at` survives the next
  assignment, whose driver can neither see nor accept the offer; a leg that starts between
  the check and the commit of a regeneration is replaced under way;
- invoices: a line that is added while the invoice is issued ends on the issued invoice; a
  line of quantity zero, which no schema refuses (`invoice/schemas/request.py:36`), charges
  one unit while its column keeps the zero (`invoice/service.py:159`, `183`); the columns
  keep two decimals, and the amount is that of the quantity before it is rounded to them,
  which the model leaves out;
- sessions: a late logout of an old session unmaps the device of the new one; a session that
  is opened while a reset of its user is under way survives it and is on no list any
  more, though the reset is to invalidate all sessions of the user
  (`auth/service.py:636`);
- codes: `ensure_signup_email_verified` reads that a request is verified and deletes the mark
  in a later step (`auth/service.py:753-762`), so two requests with one code both pass, and
  the second opens an account with it once the first one's is deleted; likewise
  `_verify_otp_common` marks a code as verified that another request has used up meanwhile.
  `OneAccountPerCode` excepts the codes with which two requests overlapped;
- teams: two administrators who leave at once both pass the count (`team/service.py:348`);
- syncs: a change of the second of a sync, or committed late, is missed (`slipped`), and
  so is the name of a driver, which another table owns;
- rates: changing the method of a default group leaves two defaults of a method;
  `set_rate` of a sheet does not check the zones its cell names; a leg with a city without its
  state is priced by the zone, first by id, that lists a city of that name in *any* state
  (`rate_zone/repository.py:146-154`), though a member must have a state because names are not
  unique (`rate_zone/schemas/request.py:26`), and is unresolved when that zone has no price
  and another one has: `ResolveIsMostSpecific` says little of such legs;
- files: two requests that replace the same file leave the new row of one without object;
- files: nothing holds the `temp_keys` of a request (`user/schemas/request.py:53`) to be keys
  of uploads: a file named there is copied, and its object deleted as if it were the upload
  (`file/service.py:434`), so that its row is left without one; `remove_file_ids` are held
  to be files of some user, not of the one who asks (`file/repository.py:112-145`);
- files: `_object_exists` takes any error of the store for "not there"
  (`file/service.py:1051-1057`), so that a file is put over another one of its name; if that
  one is removed by the same request, the new object is deleted with it and then the
  upload.  `RowsHaveObjects` and `UploadsSurvive` except the keys of both cases, `misused`;
- pages: `take` has no lower bound (`common/pagination/schemas/pagination_request.py:31`); a
  walk with pages of none is told at once that there is no more (`TakeBound` excludes it);
- unique keys: the creates of drivers, addons, load type templates and street turns look for
  their key among the active rows and the key counts deleted ones, so that a key once deleted
  is refused for good; the default addons, "skipping codes that exist already"
  (`addon/service.py:86`), cannot be seeded any more once one of them was deleted;
- driver rates: a rate that is found active and deleted before it is written stays deleted,
  and the request that set it answers success (`addon/repository.py:87`);
- street turns: an order of a deleted turn is offered as a candidate and cannot be used;
  an approval may overwrite a cancellation;
- API keys: an update that overlaps a revocation edits a revoked key, whose `updated_at`
  no longer tells when it was revoked (`api_key/service.py:76`);
- realtime: a crashed subscriber stays registered, so nobody of its team is served until
  all have left (`EventsArrive` excludes it); a fan-out that fails within
  `container/state_derive.py` rolls back a request that answers success;
- requests that always fail: `POST /containers` with its stops, the bulk creation of orders
  with containers, `POST /files/commit`, `POST /rbac/groups/{id}/codes` with `op=add`, the
  deletion of the last member of a team (`user/service.py:235`).

## The proofs

`tlapm` checks every step, from nothing but named assumptions on the constants: the
bounds are naturals (`BoundAssumption`, `PayrollBounds`, `InvoiceBounds`, `GroupBounds`,
`SheetBounds`, `ZoneBounds`, `SessionBounds`, `CodeBounds`, `RowsBound`, `FileBounds`); a null
is none of the values it stands in for (`NullAssumption`, `NullPrices`, `NamesApart`,
`TaskAssumption`), nor is an upload the absence of one or a key of the user (`Apart`), and
each has a name (`Names`); a city is no zip, a name is neither, and a zone none of them
(`ZipMaster`, `CityNames`, `Ends`); a lane has at most two ends (`Lanes`); one is a quantity
(`OneUnit`); a queue and a page hold something (`QueueAssumption`, `TakeBound`); the users followed
are users (`WatchedUsers`).  TLC evaluates each of them on the runs.  How many legs,
drivers, settlements, versions, sessions, rows, files, connections and overlapping requests
there are is arbitrary.

Few of the properties are inductive as they stand.  What each proof adds is below; the
steps follow the disjuncts of Next.

### Dispatch (`DispatchProofs`)

- `TypeCorrect`, and with it `CancelledNeverHeld` and `OrderNeverOverridden`, which need no
  more: an order changes by a derivation, which keeps to the automatic phase, or by a
  request of the dispatcher (`OrderSteps`).
- `OrderAlwaysAgrees`.  An action that derives leaves the status the legs give; one that
  skips the derivation raises `staleOrder` or changed no leg in a way that
  `DispatchStatus` can see; the rest owe a hook.  The heart is `DispatchStatusStable`: two
  tables of any size with the same active legs that need, and that have, a driver give
  the same status.
- `LineageAlwaysHolds`, `GraphAlwaysRespected`, `AnsweredOnce`, `ProtectedAlwaysKept`.
  Each step of the legs is one of a few shapes (`StepsOfLegs`): an edit of rows that are
  there along the graph, an insertion at the next identifier, a reissue, a generation.
  `Fresh` (identifiers not issued yet are blank rows) is what makes an insertion harmless:
  without it a copy could overwrite a leg, and a chain of reissues could close.
- `WorkAlwaysAgrees`.  A container agrees with its stops and legs, or is marked stale.  As for
  the order, what `DerivedWork` sees of the rows is isolated (`OneLegSame`,
  `InsertedLegSame`); `StopsFresh` (a stop never created is inactive) says that creating one
  changes no other container.

### Overlapping requests (`DispatchRCProofs`)

`SessionsAreSound` states the invariant: the rows keep their types, unissued legs are
blank, and every session is `Sound`: it saves the legs it loaded, each with a status one
move from the one *it loaded*, whatever is committed by now, and the order it will write is
cancelled if the one it loaded was.  `StatusAlwaysSteps`, `CancelAlwaysSticks` and
`DeletedAlwaysStays` follow from what a flush does with such a session (`MergeLeg`,
`MergeOrder`: only columns that the request changed are written), for any number of
requests.

### Money (`BillingProofs`)

- However many requests overlap: `PayrollTypeCorrect`, `ResolvedWhenConfirmed` and
  `StatusAlwaysFollows` from `PayrollInv`: the status a session goes to write is the one it
  loaded, VOID, or one edge further, and then the lines it checked, which no step
  changes, are resolved.  `InvoiceTypeCorrect` from `InvoiceInv`, which is about the row lock
  of a flushed line: two sessions that have flushed never hold the same loaded line
  (`LinesLocked`), so the line an UPDATE will write is still there when it commits
  (`HasItsLine`), and no column is merged with a row that is gone.
- When the requests of a side run one at a time (`OneClerk`, `OneEditor`: the premise that
  the properties are claims under, and which `SettledTwice` shows is needed):
  `LegSettledOnce`, `ChargesAlwaysAdded`, `ConfirmedStaysFrozen` from `PayrollAlone`, and
  `LinesAlwaysAdded`, `IssuedStaysFrozen` from `InvoiceAlone`.  Both say that what the only
  session holds is still so when it writes: the legs it collected are settled by nobody,
  the status it loaded is the status, the total it computed is that of the rows as they
  will be.  A request between its read and its commit still interleaves with the legs of
  the driver and with failures.

### Rates (`RateProofs`)

- `ZonesNeverShare`: `OneZonePerAtom` with its types is inductive.
- `VersionsAreChained`: the versions are rows and `Chained`, that is, each lasts at least a
  day, two of a cell do not overlap and none starts on the day of another (`Apart`), and a
  day past the first version of a cell has one (`NoGap`).  `set_rate` keeps this wherever in the
  calendar the new version goes.  `LookupAlwaysLatest` follows, and so does
  `SheetsImplementPriceList`, the refinement: initial states map to initial states, and each
  request maps to the announcement of the prices it names or to a stutter.
- `ResolveAlwaysMostSpecific`: `RatesInv` joins the types of groups, the zones, the sheets and
  `OneSheetPerSlot`.  With an atom in one zone and one sheet in a slot, the rungs of the
  ladder hold every cell that covers the lane and each has at most one candidate, so the
  first row found is the most specific one; with the versions chained, a rung without an
  answer has no rate on that day.  For a city without its state only the first half of
  this is true, and only that is claimed.

### Access (`AccountProofs`, `RedisProofs`)

- `AccountsAreSound` states `AccountsInv`; `ClosedAlwaysStaysClosed`, `LiveAlwaysListed` and
  `NoCodeUsedTwice` are its consequences.  `SessionsInv` says what requests know
  between two awaits: the sessions they name were opened, and a reset under way has read
  every session of its user that is alive and was not opened during it (`Knows`).  This
  is why `LiveIsListed` has its exception: without it the invariant is false, and the
  counterexample is the race listed under [disagreements](#disagreements).  `CodesInv` says
  of every code with which no two forms overlapped that one form at most holds it, that it
  opened one account at most and is nowhere any more once it has, neither in Redis nor in a
  form (`SpentIsGone`), and that it is out of Redis when its form goes to insert
  (`TakenIsGone`): a form that reads it later must have read it before.
- `SerialAlwaysTrue`: a reader whose read was not overlapped read what is committed
  (`Serial`), a writer asks for what its operation may (`Sound`, `Asked`), and once it has
  invalidated, every key its change makes untrue is gone or was read under its eyes
  (`Gone`); then its commit falsifies none of the others.

### Tables (`CatalogueProofs`)

`CatalogueIsSound` states `CatalogueInv`.  `MasterInv`: two transactions hold no row in common
(`Apart`); where updates leave the key alone no uncommitted row changes it (`Kept`); what a
transaction has left to do names rows that exist, once each (`Todo`), and of the rows that
were there when it looked none holds a key it is to insert, but for deleted ones the look-up
does not see (`Looked`); and what it will write active was active, or new, or is a revival by
a create (`Stays`).  `Looked` outlives the commits of others by `Kept` and `Stays`.
`AlwaysLooked` and `RevivedOnPurpose` follow.  For the sync, `Stamped` is what
is known of the times of uncommitted rows and `Synced` that each row of the client is as in
the table, fresh, slipped, or about to be dropped by the second half of the sync;
`SyncAlwaysComplete` follows.  All nineteen tables are covered by one proof, by the
descriptors.

`WalkAlwaysExact` is about pages of any size over tables of any length.  `Walked` says that
the rows met so far are none of those the walk has ahead of it (`Ahead`), that a steady row
is ahead or was met, and that no two pages share a row.  `PageFacts` is what carries it across
a page: every row of the page is at the cursor or before, and every row left out comes after
it.  It rests on a finite set of rows having a first and a last in either order (`FirstRow`,
from the well-foundedness of the naturals) and on counting the rows before one.  The steady
rows stay active by definition and keep their identifiers, so no write matters.

### Files (`FilesProofs`)

`FilesAreSound` states `FilesInv`: what a request has read of the rows it removes is still in
the table and still theirs (`Removes`); what it is about to insert has its object, under an
identifier and a key no two share (`Inserts`), nor two requests (`InsertsApart`), nor the
request and a row that stands (`StandsApart`), each but for misused keys; and no suffix is
ahead of the identifiers (`Suffixed`), in the store and in the keys named as uploads, which is
what makes a key with a new suffix free.  `RowsAlwaysHaveObjects` is a
part of it.  `UploadsAlwaysSurvive` needs of it that the objects a request deletes for the
rows it removes are none of those it has just put (`OwnPaths`).  `PlacedFacts` is the lemma
about the loop: for a list of any length, the identifiers of the copies are new and differ, and so
do their keys unless they were misused.  It assumes that no key under `tmp/` is one under
the prefix of the user (`Apart`).

All three except the keys in `misused`, which only the two ways above fill, and have two
premises, because the code does not keep the property without them.
`LateFailures = FALSE`: no request fails after it has deleted objects; `FilesRollback` shows
what happens otherwise.  `[]RemovalsApart`: requests that remove the same row do not overlap;
otherwise the second one waits for the first, finds no row to delete, puts its replacement
under the key that the first has made free, and then deletes the object of that key, which
is the one it read of the row.

### Realtime (`RedisProofs`)

`RegistryIsSound` states `RealtimeInv`: the task alive for a team is the one registered, a team
with connections has one (`Registered`); its inbox has no gap up to what was published
(`Consecutive`); every registered connection that was offered anything was offered all the
task heard (`InStep`); and what a connection sent and queued is in order, short of exactly
what its queue dropped (`Orderly`).  `NothingEverLost` follows, for any length of queue.

### What stays with TLC

- Liveness (`DeletedIsOut`, `StaleEnds`, `EventsArrive`, `IdleEnds`): ENABLED is out of the
  prover's reach, and so are the fairness conditions.

Every other property of a passing run is stated by a theorem: those of `BillingAlone` that
are about one request at a time, and those of `Files`, under the premises named above.

## What is not modelled

- Columns no property tells apart: names, notes, places, times, prices, addresses.
  Times of stops are reduced to "arrived", columns of master data to the key and one other.
- The derivation of a container in `DispatchRC`; the segments of a leg as rows (their
  effect on the leg is `RefreshActiveDriver`); the links of chassis and equipment.
- The statuses of street turns and dual transactions: as rows they are in `Catalogue`.
  What a bundle owes its two legs when only one assignment commits is not documented.
- The cost side of invoices, and the sum of a prefilled line, whose amount, quantity
  and unit price are copied independently; the models leave it free.
- Requests about rates that overlap, two `set_rate` of a cell or two zones taking an atom:
  nothing in the code keeps them apart, and the runs have one such request at a time.
- Orders of a list other than by id, filters, and page numbers.
- The fan-out of notifications, the creation and deletion of teams, the exchange with an
  OAuth provider, the parsing of imported files, the processing of images.
- The lag of reader replicas; the pools of connections.
- Rate limiting, leg layers, chat, analytics, the AI intake, zip codes, migrations,
  scripts: counters, append-only or read-only rows, or calls of an external provider.  No
  operation relates their rows to others.

## The plan

What would add most next, in this order:

1. *Segments and pairs*: the drivers of a leg as rows, the statuses of street turns and dual
   transactions, composed with the assignment of `Dispatch`.
2. *Overlap of rates*, two `set_rate` of a cell or two zones taking an atom, and the fan-out of
   notifications in the session that publishes.
3. *The derivation of containers* in `DispatchRC`, as that of the order.
