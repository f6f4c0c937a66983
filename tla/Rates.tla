------------------------------- MODULE Rates --------------------------------
(***************************************************************************)
(* The rates of a team: groups, zones and sheets together, the requests    *)
(* that go through a group (RateGroupEntryService, RateImportService), and *)
(* the resolution of what a driver is paid for a leg (RateResolver).       *)
(***************************************************************************)
EXTENDS RateZones, RateSheets

CONSTANTS
  NoZip,   \* a leg without the zip of a place
  NoCity   \* and without its city

ratesVars == <<groupVars, zoneVars, sheetVars>>

Coord == Atom \cup Name \cup ZoneId

(* A lane is the unordered pair of its two ends (lane.normalize_cell); {}  *)
(* is the cell of a sheet that pays by the mile or by the hour.            *)
ASSUME Lanes == Cell \subseteq {S \in SUBSET Coord : Cardinality(S) <= 2}

(* The zips, the cities and the zones of a lane have columns of their own. *)
ASSUME Ends == (Atom \cup Name) \cap ZoneId = {}

UnitCell == {}

RatesInit == SheetsInit /\ ZonesInit

-----------------------------------------------------------------------------
(* Requests through a group *)

(* validate_cell_zone_refs: the zones of a cell exist, are of the kind of  *)
(* the sheet and in reach of its group.  set_entry and the imports ask for *)
(* it; the set_rate of a sheet does not.                                   *)
ValidZoneRefs(kind, g, c) ==
  \A z \in c \cap ZoneId :
     kind \in Matrix /\ GetZone(z) /\ zone[z].kind = kind /\ zone[z].scope \in {Global, g}

(* _ensure_sheet: the sheet of the slot, created if there is none.         *)
EnsureSheet(g, k, s, i) ==
  LET slot == FindSlot(g, k, s) IN
  IF slot # {} THEN i \in slot /\ UNCHANGED <<sheet, sheets>>
  ELSE i = sheets + 1 /\ InsertSheet(g, k, s)

(* A group that pays by a unit has no lanes and no service types           *)
(* (_cell_from_flat).                                                      *)
CellFor(k, c) == IF k \in Matrix THEN c ELSE UnitCell

(* set_entry; set_entries_bulk and import_group_entries are several of     *)
(* them that commit together.  The kind of the sheet is the method of the  *)
(* group.                                                                  *)
SetEntry(g, s, i, r) ==
  LET k == group[g].method IN
  /\ group[g].is_active
  /\ ValidZoneRefs(k, g, CellFor(k, r.cell))
  /\ EnsureSheet(g, k, IF k \in Matrix THEN s ELSE NoService, i)
  /\ version' = WithRow(version, i, [r EXCEPT !.cell = CellFor(k, @)])

(* import_sheet_entries, unless it is a dry run.                           *)
ImportSheetEntries(i, r, q) ==
  /\ ValidZoneRefs(sheet[i].kind, sheet[i].rate_group, r.cell)
  /\ SetRateBulk(i, r, q)

RatesNext ==
  \/ (GroupsNext \/ AssignmentsNext) /\ UNCHANGED <<zoneVars, sheetVars>>
  \/ ZonesNext /\ UNCHANGED <<groupVars, sheetVars>>
  \/ SheetsNext /\ UNCHANGED <<groupVars, zoneVars>>
  \/ \E g \in Group, s \in Service \cup {NoService}, i \in SheetId, r \in Rate :
        SetEntry(g, s, i, r) /\ UNCHANGED <<groupVars, zoneVars>>
  \/ \E i \in SheetId, r \in Rate, d \in Day, a \in Value :
        ImportSheetEntries(i, r, [r EXCEPT !.day = d, !.amount = a]) /\ UNCHANGED <<groupVars, zoneVars>>

RatesSpec == RatesInit /\ [][RatesNext]_ratesVars

-----------------------------------------------------------------------------
(* Resolution *)

(* A leg may name the city of a place without its state.                   *)
Place == [zip : Zip \cup {NoZip}, city : City \cup Name \cup {NoCity}]

(* The atom of a place that a method prices: for CITY the city, derived    *)
(* from the zip when the leg has none.                                     *)
AtomAt(method, p) ==
  IF method = "ZIP" THEN p.zip
  ELSE IF p.city # NoCity THEN p.city
  ELSE LET cities == {c \in City : p.zip \in ZipsOf[c]} IN
       IF cities = {} THEN NoCity ELSE CHOOSE c \in cities : TRUE

SheetFor(g, k, s) ==
  LET own == FindSlot(g, k, s) IN IF own # {} THEN own ELSE FindSlot(g, k, NoService)

(* Mutant: the zones are tried before the atoms.                           *)
Candidates_ZonesFirst(g, k, f, t) ==
  LET fz == ZonesFor(k, f, g)
      tz == ZonesFor(k, t, g)
  IN  << {{y, z} : y \in fz, z \in tz}, {{f, z} : z \in tz}, {{y, t} : y \in fz},
         {{f, t}} >>

(* The cells tried in turn for a lane from f to t: atom and atom, atom and *)
(* zone, zone and atom, zone and zone.                                     *)
Candidates(g, k, f, t) ==
  LET fz == ZonesFor(k, f, g)
      tz == ZonesFor(k, t, g)
  IN  << {{f, t}}, {{f, z} : z \in tz}, {{y, t} : y \in fz},
         {{y, z} : y \in fz, z \in tz} >>

(* resolve_cell: the version in force, if it has the price that is needed. *)
Priced(i, c, day) == {v \in FindOpenEntry(version, i, c, day) : v.amount # NoAmount}

(* _resolve_matrix within one group.                                       *)
MatrixAnswer(g, k, s, day, f, t) ==
  LET asked == SheetFor(g, k, s)
      tried == Candidates(g, k, f, t)
      hit(n) == UNION {Priced(i, c, day) : i \in asked, c \in tried[n]}
      hits  == {n \in 1 .. 4 : hit(n) # {}}
  IN  IF hits = {} THEN {} ELSE hit(CHOOSE n \in hits : \A m \in hits : n <= m)

(* _resolve_unit within one group.                                         *)
UnitAnswer(g, k, day) ==
  UNION {Priced(i, UnitCell, day) : i \in FindSlot(g, k, NoService)}

(* f and t are the atoms of the two places of the leg.                     *)
GroupAnswer(g, k, s, day, f, t) ==
  IF k \notin Matrix THEN UnitAnswer(g, k, day)
  ELSE IF {f, t} \cap {NoZip, NoCity} # {} THEN {}
  ELSE MatrixAnswer(g, k, s, day, f, t)

(* The groups asked, first and second: the assigned one, or the default of *)
(* the zips for a driver without an assignment, and the default of its     *)
(* method if it inherits; 0 for none.  A deleted group answers nothing.    *)
Chains(d, day) ==
  LET assigned_groups == {assignment[a].group : a \in ActiveForDriver(d, day)}
      first == IF assigned_groups # {} THEN assigned_groups ELSE DefaultsFor("ZIP")
      second(g) == IF group[g].is_default \/ ~group[g].inherits_default THEN {0}
                   ELSE DefaultsFor(group[g].method)
  IN  UNION {IF g = 0 \/ ~group[g].is_active THEN {<<0, 0>>}
             ELSE {<<g, h>> : h \in second(g)} : g \in first}

(* What the driver may be paid for a leg: a version, or none (UNRESOLVED). *)
Resolve(chain, s, day, f, t) ==
  LET answer(g) == IF g = 0 THEN {}
                   ELSE GroupAnswer(g, group[chain[1]].method, s, day, f, t)
  IN  IF answer(chain[1]) # {} THEN answer(chain[1]) ELSE answer(chain[2])

-----------------------------------------------------------------------------

(* The rates that could pay for a lane in a group: those in force that     *)
(* name each end by its atom or by a zone around it.                       *)
Names(g, k, a) ==
  LET around(scope) == {z \in ZoneId : /\ zone[z].is_active /\ zone[z].kind = k
                                       /\ zone[z].scope = scope
                                       /\ \E m \in zone[z].members :
                                            m = a \/ (m \in City /\ NameOf[m] = a)}
  IN  {a} \cup (IF around(g) # {} THEN around(g) ELSE around(Global))

Covering(g, k, s, day, f, t) ==
  LET cells  == {{x, y} : x \in Names(g, k, f), y \in Names(g, k, t)}
      priced == SheetFor(g, k, s)
  IN  {v \in version : /\ v.sheet \in priced /\ v.amount # NoAmount
                        /\ v.from <= day /\ day <= v.to
                        /\ v.cell \in cells}

(* How many ends of its lane a cell names by a zone; a lane within one     *)
(* zone names both.                                                        *)
ByZone(cell) == IF cell \subseteq ZoneId THEN 2 ELSE Cardinality(cell \cap ZoneId)

(* A leg whose ends are zips, or cities with their states, is paid by the  *)
(* most specific rate that covers its lane: of those of the driver's       *)
(* group, or else of the default group it inherits from, one that names    *)
(* the fewest ends by a zone; and it is unresolved only if nothing covers  *)
(* it (RateResolver, the ladder).  Of a leg with a city without its state  *)
(* only this holds: at most one rate pays it, one of the two groups that   *)
(* names the city like the leg does or by a zone that lists some city of   *)
(* that name.                                                              *)
ResolveIsMostSpecific ==
  \A d \in Driver, day \in Day : \A chain \in Chains(d, day) :
     chain[1] # 0 /\ group[chain[1]].method \in Matrix =>
     LET k == group[chain[1]].method
         known == {AtomAt(k, p) : p \in Place} \ {NoZip, NoCity}
     IN  \A s \in Service, f, t \in known :
         LET cover(g) == IF g = 0 THEN {} ELSE Covering(g, k, s, day, f, t)
             own    == cover(chain[1])
             usable == IF own # {} THEN own ELSE cover(chain[2])
             paid   == Resolve(chain, s, day, f, t)
         IN  /\ Cardinality(paid) <= 1
             /\ paid \subseteq cover(chain[1]) \cup cover(chain[2])
             /\ {f, t} \subseteq Atom =>
                  /\ paid = {} <=> usable = {}
                  /\ paid \subseteq usable
                  /\ \A v \in paid, u \in usable : ByZone(v.cell) <= ByZone(u.cell)
=============================================================================
