------------------------------ MODULE RateZones ------------------------------
(***************************************************************************)
(* Rate zones: RateZoneService and its repository.  A zone is a set of     *)
(* atoms (zips or cities, by its kind) in a scope, global or that of one   *)
(* group.  Names, polygons and colours are left out.  A request is one     *)
(* step: two that overlap may each take an atom, see README.               *)
(***************************************************************************)
EXTENDS RateGroups

CONSTANTS
  Zip,
  City,        \* cities, each of a state
  Name,        \* what a city is called; several states may have one of the name
  NameOf,      \* the name of each city
  ZipsOf,      \* the zip master: the zips of each city
  MaxZones     \* bound: how many zones are ever created

ASSUME ZoneBounds == MaxZones \in Nat
ASSUME ZipMaster == Zip \cap City = {} /\ ZipsOf \in [City -> SUBSET Zip]
ASSUME CityNames == NameOf \in [City -> Name] /\ Name \cap (Zip \cup City) = {}

VARIABLES
  zone,   \* rate_zone and, in members, rate_zone_member
  zones   \* how many zones were inserted

zoneVars == <<zone, zones>>

-----------------------------------------------------------------------------

Atom   == Zip \cup City
ZoneId == 1 .. MaxZones
Global == 0                          \* rate_group_id IS NULL
Scope  == {Global} \cup Group

ZoneKind == {"ZIP", "CITY"}

AtomsOf(kind) == IF kind = "ZIP" THEN Zip ELSE City

ZoneRow ==
  [is_active : BOOLEAN, kind : ZoneKind, scope : Scope, members : SUBSET Atom]

NoZone == [is_active |-> FALSE, kind |-> "ZIP", scope |-> Global, members |-> {}]

ZonesTypeOK ==
  /\ zone \in [ZoneId -> ZoneRow]
  /\ zones \in 0 .. MaxZones

ZonesInit ==
  /\ zone = [z \in ZoneId |-> NoZone]
  /\ zones = 0

-----------------------------------------------------------------------------

GetZone(z) == z <= zones /\ zone[z].is_active

(* Mutant: the scope that the zone leaves is the one looked at.            *)
NoConflict_OldScope(z, scope, atoms) ==
  \A y \in ZoneId \ {z} :
     zone[y].is_active /\ z \in ZoneId /\ zone[y].scope = zone[z].scope =>
        zone[y].members \cap atoms = {}

(* list_conflicting_atoms: none of the atoms is in another active zone of  *)
(* the scope.  The city of a member has a state: requests and the import   *)
(* refuse one without.                                                     *)
NoConflict(z, scope, atoms) ==
  \A y \in ZoneId \ {z} :
     zone[y].is_active /\ zone[y].scope = scope => zone[y].members \cap atoms = {}

(* _validate_group                                                         *)
ValidScope(scope) == scope # Global => group[scope].is_active

CreateZone(kind, scope, atoms) ==
  /\ zones < MaxZones
  /\ ValidScope(scope)
  /\ atoms \subseteq AtomsOf(kind)
  /\ NoConflict(0, scope, atoms)
  /\ zones' = zones + 1
  /\ zone' = [zone EXCEPT ![zones + 1] =
                [is_active |-> TRUE, kind |-> kind, scope |-> scope, members |-> atoms]]

(* update: a zone moves to another scope only if that is free of its atoms *)
(* and changes its kind only while it has none.                            *)
UpdateZone(z, kind, scope) ==
  /\ GetZone(z)
  /\ scope # zone[z].scope =>
       ValidScope(scope) /\ NoConflict(z, scope, zone[z].members)
  /\ kind # zone[z].kind => zone[z].members = {}
  /\ zone' = [zone EXCEPT ![z].kind = kind, ![z].scope = scope]
  /\ UNCHANGED zones

(* replace_members, and import_zone_members when it is not a dry run: the  *)
(* same checks, all or nothing.                                            *)
ReplaceMembers(z, atoms) ==
  /\ GetZone(z)
  /\ atoms \subseteq AtomsOf(zone[z].kind)
  /\ NoConflict(z, zone[z].scope, atoms)
  /\ zone' = [zone EXCEPT ![z].members = atoms]
  /\ UNCHANGED zones

AddMembersByCity(z, c) ==
  LET atoms == zone[z].members \cup ZipsOf[c] IN
  /\ GetZone(z)
  /\ zone[z].kind = "ZIP"
  /\ ZipsOf[c] # {}
  /\ NoConflict(z, zone[z].scope, atoms)
  /\ zone' = [zone EXCEPT ![z].members = atoms]
  /\ UNCHANGED zones

(* delete keeps the members of the zone.                                   *)
DeleteZone(z) ==
  /\ GetZone(z)
  /\ zone' = [zone EXCEPT ![z].is_active = FALSE]
  /\ UNCHANGED zones

ZonesNext ==
  \/ \E kind \in ZoneKind, scope \in Scope, atoms \in SUBSET Atom :
        CreateZone(kind, scope, atoms)
  \/ \E z \in ZoneId, kind \in ZoneKind, scope \in Scope : UpdateZone(z, kind, scope)
  \/ \E z \in ZoneId, atoms \in SUBSET Atom : ReplaceMembers(z, atoms)
  \/ \E z \in ZoneId, c \in City : AddMembersByCity(z, c)
  \/ \E z \in ZoneId : DeleteZone(z)

-----------------------------------------------------------------------------

(* The members looked for: the city of a leg is compared by its name       *)
(* alone when the leg has no state for it, whatever state the member is in.*)
Matching(atom) == {m \in Atom : m = atom \/ (m \in City /\ NameOf[m] = atom)}

Holding(kind, atom, scope) ==
  {z \in ZoneId : /\ zone[z].is_active /\ zone[z].kind = kind
                  /\ zone[z].scope = scope
                  /\ zone[z].members \cap Matching(atom) # {}}

(* _scoped_zone_query: the zones of the kind that hold the atom, those of  *)
(* the group before the global ones, the first of them in order of id.     *)
ZonesFor(kind, atom, g) ==
  LET own  == Holding(kind, atom, g)
      best == IF own # {} THEN own ELSE Holding(kind, atom, Global)
  IN  {z \in best : \A y \in best : z <= y}

(* An atom is in at most one active zone of a scope, whatever zones are    *)
(* created, moved between scopes, filled by list, by city or by import,    *)
(* and deleted (list_conflicting_atoms: one zone per atom in a scope).     *)
OneZonePerAtom ==
  \A y, z \in ZoneId :
     y # z /\ zone[y].is_active /\ zone[z].is_active /\ zone[y].scope = zone[z].scope
        => zone[y].members \cap zone[z].members = {}
=============================================================================
