----------------------------- MODULE RateProofs -----------------------------
(***************************************************************************)
(* Theorems about the rates, for any number of groups, zones, sheets and   *)
(* days: the zones of a scope do not share an atom, and the versions of a  *)
(* cell implement a price list.                                            *)
(***************************************************************************)
EXTENDS Rates, FiniteSetTheorems, WellFoundedInduction, TLAPS

USE GroupBounds, ZoneBounds, SheetBounds

-----------------------------------------------------------------------------
(* Zones *)

ZonesInv == ZonesTypeOK /\ OneZonePerAtom

(* A zone that gets new columns: the others of its scope hold none of its  *)
(* atoms.                                                                  *)
LEMMA PutZone ==
  ASSUME ZonesInv, NEW z \in ZoneId, NEW row \in ZoneRow,
         row.is_active => NoConflict(z, row.scope, row.members),
         zone' = [zone EXCEPT ![z] = row]
  PROVE  OneZonePerAtom' /\ zone' \in [ZoneId -> ZoneRow]
<1>1. zone' \in [ZoneId -> ZoneRow]
  BY DEF ZonesInv, ZonesTypeOK
<1>2. \A y \in ZoneId : zone'[y] = IF y = z THEN row ELSE zone[y]
  BY DEF ZonesInv, ZonesTypeOK
<1>3. ASSUME NEW x \in ZoneId, NEW y \in ZoneId, x # y,
             zone'[x].is_active, zone'[y].is_active, zone'[x].scope = zone'[y].scope
      PROVE  zone'[x].members \cap zone'[y].members = {}
  <2>1. CASE x = z
    BY <1>2, <1>3, <2>1 DEF NoConflict
  <2>2. CASE y = z
    BY <1>2, <1>3, <2>2 DEF NoConflict
  <2>3. CASE x # z /\ y # z
    BY <1>2, <1>3, <2>3 DEF ZonesInv, OneZonePerAtom
  <2> QED
    BY <2>1, <2>2, <2>3
<1> QED
  BY <1>1, <1>3 DEF OneZonePerAtom

LEMMA ZonesStep ==
  ASSUME ZonesInv, ZonesNext
  PROVE  ZonesInv'
<1> USE DEF ZonesInv
<1>0. zone \in [ZoneId -> ZoneRow] /\ zones \in 0 .. MaxZones
  BY DEF ZonesTypeOK
<1>1. ASSUME NEW kind \in ZoneKind, NEW scope \in Scope, NEW atoms \in SUBSET Atom,
             CreateZone(kind, scope, atoms)
      PROVE  ZonesInv'
  <2> DEFINE row == [is_active |-> TRUE, kind |-> kind, scope |-> scope,
                     members |-> atoms]
  <2>1. /\ zones + 1 \in ZoneId /\ zones' = zones + 1 /\ zones' \in 0 .. MaxZones
        /\ zone' = [zone EXCEPT ![zones + 1] = row]
    BY <1>0, <1>1 DEF CreateZone, ZoneId
  <2>2. row \in ZoneRow
    BY DEF ZoneRow
  <2>3. NoConflict(zones + 1, row.scope, row.members)
    BY <1>1 DEF CreateZone, NoConflict, ZoneId
  <2> HIDE DEF row
  <2> QED
    BY <2>1, <2>2, <2>3, PutZone DEF ZonesTypeOK
<1>2. ASSUME NEW z \in ZoneId, NEW kind \in ZoneKind, NEW scope \in Scope,
             UpdateZone(z, kind, scope)
      PROVE  ZonesInv'
  <2> DEFINE row == [zone[z] EXCEPT !.kind = kind, !.scope = scope]
  <2>1. zone' = [zone EXCEPT ![z] = row] /\ zones' = zones
    BY <1>0, <1>2 DEF UpdateZone
  <2>2. zone[z] \in ZoneRow /\ zone[z].is_active
    BY <1>0, <1>2 DEF UpdateZone, GetZone
  <2>3. row \in ZoneRow /\ row.scope = scope /\ row.members = zone[z].members
    BY <2>2 DEF ZoneRow
  <2>4. NoConflict(z, scope, zone[z].members)
    BY <1>2, <2>2 DEF UpdateZone, NoConflict, OneZonePerAtom
  <2> HIDE DEF row
  <2> QED
    BY <1>0, <2>1, <2>3, <2>4, PutZone DEF ZonesTypeOK
<1>3. ASSUME NEW z \in ZoneId, NEW atoms \in SUBSET Atom, GetZone(z),
             NoConflict(z, zone[z].scope, atoms),
             zone' = [zone EXCEPT ![z].members = atoms], UNCHANGED zones
      PROVE  ZonesInv'
  <2> DEFINE row == [zone[z] EXCEPT !.members = atoms]
  <2>1. zone' = [zone EXCEPT ![z] = row]
    BY <1>0, <1>3
  <2>2. row \in ZoneRow /\ row.scope = zone[z].scope /\ row.members = atoms
    BY <1>0 DEF ZoneRow
  <2> HIDE DEF row
  <2> QED
    BY <1>0, <1>3, <2>1, <2>2, PutZone DEF ZonesTypeOK
<1>4. ASSUME NEW z \in ZoneId, NEW atoms \in SUBSET Atom, ReplaceMembers(z, atoms)
      PROVE  ZonesInv'
  BY <1>3, <1>4 DEF ReplaceMembers
<1>5. ASSUME NEW z \in ZoneId, NEW c \in City, AddMembersByCity(z, c)
      PROVE  ZonesInv'
  <2>1. zone[z].members \cup ZipsOf[c] \in SUBSET Atom
    BY <1>0, ZipMaster DEF ZoneRow, Atom
  <2> QED
    BY <1>3, <1>5, <2>1 DEF AddMembersByCity
<1>6. ASSUME NEW z \in ZoneId, DeleteZone(z)
      PROVE  ZonesInv'
  <2> DEFINE row == [zone[z] EXCEPT !.is_active = FALSE]
  <2>1. zone' = [zone EXCEPT ![z] = row] /\ zones' = zones
    BY <1>0, <1>6 DEF DeleteZone
  <2>2. row \in ZoneRow /\ ~row.is_active
    BY <1>0 DEF ZoneRow
  <2> HIDE DEF row
  <2> QED
    BY <1>0, <2>1, <2>2, PutZone DEF ZonesTypeOK
<1> HIDE DEF ZonesInv
<1> QED
  BY <1>1, <1>2, <1>4, <1>5, <1>6 DEF ZonesNext

(* In a scope an atom is in at most one active zone, whatever zones are    *)
(* created, moved, filled and deleted (RateZoneService).                   *)
THEOREM ZonesNeverShare == RatesSpec => []OneZonePerAtom
<1>1. RatesInit => ZonesInv
  <2>1. NoZone \in ZoneRow /\ ~NoZone.is_active
    BY DEF NoZone, ZoneRow, ZoneKind, Scope
  <2> QED
    BY <2>1 DEF RatesInit, ZonesInit, ZonesInv, ZonesTypeOK, OneZonePerAtom
<1>2. ZonesInv /\ [RatesNext]_ratesVars => ZonesInv'
  <2>1. ASSUME ZonesInv, UNCHANGED zoneVars
        PROVE  ZonesInv'
    BY <2>1 DEF ZonesInv, ZonesTypeOK, OneZonePerAtom, zoneVars
  <2> QED
    BY <2>1, ZonesStep DEF RatesNext, ratesVars
<1>3. ZonesInv => OneZonePerAtom
  BY DEF ZonesInv
<1> QED
  BY <1>1, <1>2, <1>3, PTL DEF RatesSpec

-----------------------------------------------------------------------------
(* The versions of a cell *)

Versions(C) ==
  [sheet : SheetId, cell : C, amount : Value, from : Day, to : 1 .. Forever]

Beside(u, v) == u.sheet = v.sheet /\ u.cell = v.cell

Covers(v, d) == v.from <= d /\ d <= v.to

(* The versions of a cell start on different days, each ends before the    *)
(* next one starts, and none leaves a gap: a day after the start of some   *)
(* version is covered by one.                                              *)
Apart(vs) ==
  \A u, v \in vs : Beside(u, v) => /\ u.from = v.from => u = v
                                   /\ u.from < v.from => u.to < v.from

NoGap(vs) ==
  \A u \in vs : \A d \in Day :
     u.from <= d => \E v \in vs : Beside(u, v) /\ Covers(v, d)

Chained(vs) ==
  /\ \A v \in vs : v.from <= v.to
  /\ Apart(vs)
  /\ NoGap(vs)

LEMMA Least ==
  ASSUME NEW S \in SUBSET Nat, S # {}
  PROVE  \E x \in S : \A y \in S : x <= y
<1> DEFINE R == {z \in Nat \X Nat : z[1] < z[2]}
<1>1. IsWellFoundedOn(R, Nat)
  BY NatLessThanWellFounded DEF OpToRel
<1>2. \A x, y \in S : ~(<<y, x>> \in R) => x <= y
  OBVIOUS
<1> HIDE DEF R
<1>3. \E x \in S : \A y \in S : ~(<<y, x>> \in R)
  BY <1>1, WFMin
<1> QED
  BY <1>2, <1>3

(* find_open_entry: of a chained set the version in force, if there is one.*)
LEMMA OpenEntry ==
  ASSUME NEW C, NEW vs \in SUBSET Versions(C), Chained(vs),
         NEW i, NEW c, NEW d \in Day
  PROVE  /\ FindOpenEntry(vs, i, c, d)
              = {v \in vs : v.sheet = i /\ v.cell = c /\ Covers(v, d)}
         /\ \A u, v \in FindOpenEntry(vs, i, c, d) : u = v
<1> DEFINE covers == {v \in OfCell(vs, i, c) : v.from <= d /\ d <= v.to}
<1>1. \A v \in vs : v.from \in Nat /\ v.to \in Nat
  BY DEF Versions, Day, Forever
<1>2. ASSUME NEW u \in covers, NEW v \in covers
      PROVE  u = v
  BY <1>1, <1>2 DEF Chained, Apart, Beside, OfCell, Day
<1>3. FindOpenEntry(vs, i, c, d) = covers
  <2>1. FindOpenEntry(vs, i, c, d) = {v \in covers : \A u \in covers : u.from <= v.from}
    BY DEF FindOpenEntry
  <2>2. \A v \in covers : v.from <= v.from
    BY <1>1 DEF OfCell
  <2> HIDE DEF covers
  <2>3. \A v \in covers : \A u \in covers : u.from <= v.from
    BY <1>2, <2>2
  <2> QED
    BY <2>1, <2>3
<1> QED
  BY <1>2, <1>3 DEF OfCell, Covers

(* find_next_entry, and the day a version that starts on d is capped to.   *)
Cap(vs, i, c, d) ==
  LET next == FindNextEntry(vs, i, c, d) IN
  IF next = {} THEN Forever ELSE DayBefore(next)

LEMMA CapIs ==
  ASSUME NEW C, NEW vs \in SUBSET Versions(C),
         NEW i \in SheetId, NEW c \in C, NEW d \in Day
  PROVE  LET e == Cap(vs, i, c, d) IN
         /\ e \in 1 .. Forever /\ d <= e
         /\ \A v \in vs : v.sheet = i /\ v.cell = c /\ v.from > d => e < v.from
         /\ e # Forever => \E v \in vs : v.sheet = i /\ v.cell = c /\ v.from = e + 1
<1> DEFINE later == {v \in OfCell(vs, i, c) : v.from > d}
           next == FindNextEntry(vs, i, c, d)
<1>1. LastDay \in Nat /\ d \in 1 .. LastDay /\ \A v \in vs : v.from \in 1 .. LastDay
  BY DEF Versions, Day
<1>2. CASE later = {}
  <2>1. next = {}
    BY <1>2 DEF FindNextEntry
  <2>2. Cap(vs, i, c, d) = LastDay + 1
    BY <2>1 DEF Cap, Forever
  <2> QED
    BY <1>1, <1>2, <2>2 DEF OfCell, Forever
<1>3. CASE later # {}
  <2> DEFINE starts == {v.from : v \in later}
  <2>1. PICK x \in starts : \A y \in starts : x <= y
    <3>1. starts \in SUBSET Nat /\ starts # {}
      BY <1>1, <1>3 DEF OfCell
    <3> HIDE DEF starts
    <3> QED
      BY <3>1, Least
  <2>2. PICK n \in later : n.from = x
    OBVIOUS
  <2>3. n \in next /\ \A v \in next : v.from = x
    <3>1. \A v \in later : x <= v.from
      BY <2>1
    <3>2. \A v \in later : v.from \in Nat
      BY <1>1 DEF OfCell
    <3> QED
      BY <2>2, <3>1, <3>2 DEF FindNextEntry
  <2>4. DayBefore(next) = x - 1
    <3>1. {v.from : v \in next} = {x}
      BY <2>2, <2>3
    <3> QED
      BY <3>1 DEF DayBefore
  <2>5. Cap(vs, i, c, d) = x - 1
    BY <2>3, <2>4 DEF Cap
  <2>6. x \in 1 .. LastDay /\ x > d
    BY <1>1, <2>2 DEF OfCell
  <2>7. n \in vs /\ n.sheet = i /\ n.cell = c /\ n.from = x - 1 + 1
    BY <2>2, <2>6 DEF OfCell
  <2>8. \A v \in vs : v.sheet = i /\ v.cell = c /\ v.from > d => x - 1 < v.from
    <3>1. \A v \in later : x <= v.from
      BY <2>1
    <3> QED
      BY <1>1, <2>6, <3>1 DEF OfCell
  <2>9. x - 1 \in 1 .. LastDay + 1 /\ d <= x - 1
    BY <1>1, <2>6
  <2> QED
    BY <2>5, <2>7, <2>8, <2>9 DEF Forever
<1> QED
  BY <1>2, <1>3

(* set_rate: every version but the one of that day stays, the one in force *)
(* until the day before, and the new one lasts as long as the next allows. *)
At(v, i, c) == v.sheet = i /\ v.cell = c

NewVersion(vs, i, c, d, a) ==
  [sheet |-> i, cell |-> c, amount |-> a, from |-> d, to |-> Cap(vs, i, c, d)]

Kept(v, i, c, d) ==
  IF At(v, i, c) /\ Covers(v, d) THEN [v EXCEPT !.to = d - 1] ELSE v

Staying(vs, i, c, d) == {v \in vs : ~(At(v, i, c) /\ v.from = d)}

LEMMA KeptVersion ==
  ASSUME NEW C, NEW vs \in SUBSET Versions(C), Chained(vs),
         NEW i \in SheetId, NEW c \in C, NEW d \in Day,
         NEW v \in Staying(vs, i, c, d)
  PROVE  LET k == Kept(v, i, c, d) IN
         /\ k \in Versions(C) /\ k.from <= k.to /\ k.to <= v.to
         /\ k.sheet = v.sheet /\ k.cell = v.cell /\ k.from = v.from /\ k.amount = v.amount
         /\ At(v, i, c) /\ v.from < d => k.to < d
         /\ k = v \/ (At(v, i, c) /\ v.from < d /\ k.to = d - 1)
<1>1. v \in Versions(C) /\ v.from <= v.to /\ ~(At(v, i, c) /\ v.from = d)
  BY DEF Staying, Chained
<1>2. v.from \in 1 .. LastDay /\ v.to \in 1 .. LastDay + 1 /\ d \in 1 .. LastDay
      /\ LastDay \in Nat
  BY <1>1 DEF Versions, Day, Forever
<1>3. CASE At(v, i, c) /\ Covers(v, d)
  <2> DEFINE k == [v EXCEPT !.to = d - 1]
  <2>1. Kept(v, i, c, d) = k
    BY <1>3 DEF Kept
  <2>2. v.from < d /\ d - 1 \in 1 .. Forever
    BY <1>1, <1>2, <1>3 DEF Covers, Forever
  <2>3. /\ k \in Versions(C) /\ k.to = d - 1
        /\ k.sheet = v.sheet /\ k.cell = v.cell /\ k.from = v.from /\ k.amount = v.amount
    BY <1>1, <2>2 DEF Versions
  <2> HIDE DEF k
  <2> QED
    BY <1>2, <1>3, <2>1, <2>2, <2>3 DEF Covers
<1>4. CASE ~(At(v, i, c) /\ Covers(v, d))
  <2>1. Kept(v, i, c, d) = v
    BY <1>4 DEF Kept
  <2> QED
    BY <1>1, <1>2, <1>4, <2>1 DEF Covers
<1> QED
  BY <1>3, <1>4

LEMMA WithRateIs ==
  ASSUME NEW C, NEW vs \in SUBSET Versions(C), Chained(vs),
         NEW i \in SheetId, NEW c \in C, NEW d \in Day, NEW a \in Value
  PROVE  WithRate(vs, i, c, d, a)
           = {Kept(v, i, c, d) : v \in Staying(vs, i, c, d)}
             \cup {NewVersion(vs, i, c, d, a)}
<1> DEFINE open == FindOpenEntry(vs, i, c, d)
           closed == {[v EXCEPT !.to = d - 1] : v \in {u \in open : u.from # d}}
           kept == {Kept(v, i, c, d) : v \in Staying(vs, i, c, d)}
<1>1. WithRate(vs, i, c, d, a) = (vs \ open) \cup closed \cup {NewVersion(vs, i, c, d, a)}
  BY DEF WithRate, NewVersion, Cap
<1>2. open = {v \in vs : At(v, i, c) /\ Covers(v, d)}
  BY OpenEntry DEF At
<1>3. \A v \in vs : At(v, i, c) /\ v.from = d => v \in open
  <2>1. \A v \in vs : v.from <= v.to /\ v.from \in Nat
    BY DEF Chained, Versions, Day
  <2> QED
    BY <1>2, <2>1 DEF Covers
<1> HIDE DEF open
<1>4. (vs \ open) \cup closed = kept
  <2>1. ASSUME NEW w \in vs \ open
        PROVE  w \in kept
    <3>1. w \in Staying(vs, i, c, d) /\ Kept(w, i, c, d) = w
      BY <1>2, <1>3, <2>1 DEF Staying, Kept
    <3> QED
      BY <3>1
  <2>2. ASSUME NEW w \in closed
        PROVE  w \in kept
    <3>1. PICK u \in open : u.from # d /\ w = [u EXCEPT !.to = d - 1]
      BY <2>2
    <3>2. u \in Staying(vs, i, c, d) /\ Kept(u, i, c, d) = w
      BY <1>2, <3>1 DEF Staying, Kept
    <3> QED
      BY <3>2
  <2>3. ASSUME NEW w \in kept
        PROVE  w \in (vs \ open) \cup closed
    <3>1. PICK u \in Staying(vs, i, c, d) : w = Kept(u, i, c, d)
      BY <2>3
    <3>2. CASE u \in open
      BY <1>2, <3>1, <3>2 DEF Staying, Kept
    <3>3. CASE u \notin open
      BY <1>2, <3>1, <3>3 DEF Staying, Kept
    <3> QED
      BY <3>2, <3>3
  <2> HIDE DEF closed, kept
  <2> QED
    BY <2>1, <2>2, <2>3
<1> QED
  BY <1>1, <1>4

LEMMA WithRateChained ==
  ASSUME NEW C, NEW vs \in SUBSET Versions(C), Chained(vs),
         NEW i \in SheetId, NEW c \in C, NEW d \in Day, NEW a \in Value
  PROVE  /\ WithRate(vs, i, c, d, a) \in SUBSET Versions(C)
         /\ Chained(WithRate(vs, i, c, d, a))
<1> DEFINE after == WithRate(vs, i, c, d, a)
           stay == Staying(vs, i, c, d)
           K(v) == Kept(v, i, c, d)
           new == NewVersion(vs, i, c, d, a)
<1>1. after = {K(v) : v \in stay} \cup {new}
  BY WithRateIs
<1>2. \A v \in stay :
         /\ v \in vs /\ ~(At(v, i, c) /\ v.from = d)
         /\ K(v) \in Versions(C) /\ K(v).from <= K(v).to /\ K(v).to <= v.to
         /\ K(v).sheet = v.sheet /\ K(v).cell = v.cell /\ K(v).from = v.from
         /\ At(v, i, c) /\ v.from < d => K(v).to < d
         /\ K(v) = v \/ (At(v, i, c) /\ v.from < d /\ K(v).to = d - 1)
  BY KeptVersion DEF Staying
<1>3. /\ new.from = d /\ new.sheet = i /\ new.cell = c
      /\ new.to \in 1 .. Forever /\ d <= new.to
      /\ \A v \in vs : At(v, i, c) /\ v.from > d => new.to < v.from
      /\ new.to # Forever => \E v \in vs : At(v, i, c) /\ v.from = new.to + 1
  <2> DEFINE e == Cap(vs, i, c, d)
  <2>1. new.from = d /\ new.sheet = i /\ new.cell = c /\ new.to = e
    BY DEF NewVersion
  <2>2. /\ e \in 1 .. Forever /\ d <= e
        /\ \A v \in vs : v.sheet = i /\ v.cell = c /\ v.from > d => e < v.from
        /\ e # Forever => \E v \in vs : v.sheet = i /\ v.cell = c /\ v.from = e + 1
    BY CapIs
  <2> HIDE DEF e, new
  <2> QED
    BY <2>1, <2>2 DEF At
<1>4. new \in Versions(C)
  BY <1>3 DEF NewVersion, Versions
<1>5. \A v \in vs : v.from \in Nat /\ v.to \in Nat /\ v.from <= LastDay
  BY DEF Versions, Day, Forever
<1>6. d \in Nat /\ new.to \in Nat /\ LastDay \in Nat /\ d <= LastDay
  BY <1>3 DEF Day, Forever
<1> HIDE DEF new, K, stay, after
<1>7. \A w \in after : w \in Versions(C) /\ w.from <= w.to
  BY <1>1, <1>2, <1>3, <1>4
<1>8. Apart(after)
  <2>1. SUFFICES ASSUME NEW u \in after, NEW v \in after, Beside(u, v)
                 PROVE  /\ u.from = v.from => u = v
                        /\ u.from < v.from => u.to < v.from
    BY DEF Apart
  <2>2. ASSUME NEW x \in stay, NEW y \in stay, u = K(x), v = K(y)
        PROVE  /\ u.from = v.from => u = v
               /\ u.from < v.from => u.to < v.from
    <3>1. /\ x.from = y.from => x = y
          /\ x.from < y.from => x.to < y.from
      BY <1>2, <2>1, <2>2 DEF Chained, Apart, Beside
    <3>2. K(x).to \in Nat /\ x.to \in Nat /\ y.from \in Nat /\ K(x).to <= x.to
      BY <1>2, <1>5 DEF Versions, Forever
    <3> QED
      BY <1>2, <2>2, <3>1, <3>2
  <2>3. ASSUME NEW x \in stay, u = K(x), v = new
        PROVE  /\ u.from = v.from => u = v
               /\ u.from < v.from => u.to < v.from
    <3>1. At(x, i, c)
      BY <1>2, <1>3, <2>1, <2>3 DEF At, Beside
    <3> QED
      BY <1>2, <1>3, <2>3, <3>1
  <2>4. ASSUME NEW y \in stay, u = new, v = K(y)
        PROVE  /\ u.from = v.from => u = v
               /\ u.from < v.from => u.to < v.from
    <3>1. At(y, i, c)
      BY <1>2, <1>3, <2>1, <2>4 DEF At, Beside
    <3> QED
      BY <1>2, <1>3, <2>4, <3>1
  <2> QED
    BY <1>1, <2>1, <2>2, <2>3, <2>4, <1>6, <1>3
<1>9. NoGap(after)
  <2>1. SUFFICES ASSUME NEW u \in after, NEW e \in Day, u.from <= e
                 PROVE  \E v \in after : Beside(u, v) /\ Covers(v, e)
    BY DEF NoGap
  <2>2. e \in Nat /\ e <= LastDay
    BY DEF Day
  <2>3. ASSUME NEW y \in vs, Beside(u, y), y.from <= e, At(y, i, c) => e < d \/ new.to < e
        PROVE  \E v \in after : Beside(u, v) /\ Covers(v, e)
    <3>1. PICK v \in vs : Beside(y, v) /\ Covers(v, e)
      BY <2>3 DEF Chained, NoGap
    <3>2. CASE ~At(v, i, c)
      <4>1. v \in stay /\ K(v) = v
        BY <3>2 DEF stay, Staying, K, Kept
      <4> QED
        BY <1>1, <2>3, <3>1, <4>1 DEF Beside
    <3>3. CASE At(v, i, c) /\ e < d
      <4>1. v.from < d
        BY <1>5, <1>6, <2>2, <3>1, <3>3 DEF Covers
      <4>2. v \in stay
        BY <1>5, <1>6, <4>1 DEF stay, Staying
      <4>3. Covers(K(v), e)
        BY <1>2, <1>5, <1>6, <2>2, <3>1, <3>3, <4>2 DEF Covers
      <4> QED
        BY <1>1, <1>2, <2>3, <3>1, <4>2, <4>3 DEF Beside
    <3>4. CASE At(v, i, c) /\ ~(e < d)
      <4>1. At(y, i, c) /\ new.to < e
        BY <2>3, <3>1, <3>4 DEF At, Beside
      <4>2. PICK n \in vs : At(n, i, c) /\ n.from = new.to + 1
        BY <1>3, <1>6, <2>2, <4>1 DEF Forever
      <4>3. ~(v.from < n.from)
        BY <1>5, <1>6, <2>2, <3>1, <3>4, <4>1, <4>2 DEF Chained, Apart, Beside, At, Covers
      <4>4. v.from > d
        BY <1>3, <1>5, <1>6, <4>2, <4>3
      <4>5. v \in stay /\ K(v) = v
        BY <1>5, <1>6, <4>4 DEF stay, Staying, K, Kept, Covers
      <4> QED
        BY <1>1, <2>3, <3>1, <4>5 DEF Beside
    <3> QED
      BY <3>2, <3>3, <3>4
  <2>4. CASE ~(u.sheet = i /\ u.cell = c)
    <3>1. PICK y \in stay : u = K(y)
      BY <1>1, <1>3, <2>4
    <3>2. y \in vs /\ Beside(u, y) /\ y.from <= e /\ ~At(y, i, c)
      BY <1>2, <2>1, <2>4, <3>1 DEF Beside, At
    <3> QED
      BY <2>3, <3>2
  <2>5. CASE u.sheet = i /\ u.cell = c /\ d <= e /\ e <= new.to
    <3>1. Beside(u, new) /\ Covers(new, e)
      BY <1>3, <2>5 DEF Beside, Covers
    <3> QED
      BY <1>1, <3>1
  <2>6. CASE u.sheet = i /\ u.cell = c /\ e < d
    <3>1. u # new
      BY <1>3, <1>6, <2>1, <2>2, <2>6
    <3>2. PICK y \in stay : u = K(y)
      BY <1>1, <3>1
    <3>3. y \in vs /\ Beside(u, y) /\ y.from <= e
      BY <1>2, <2>1, <3>2 DEF Beside
    <3> QED
      BY <2>3, <2>6, <3>3
  <2>7. CASE u.sheet = i /\ u.cell = c /\ new.to < e
    <3>1. PICK n \in vs : At(n, i, c) /\ n.from = new.to + 1
      BY <1>3, <1>6, <2>2, <2>7 DEF Forever
    <3>2. Beside(u, n) /\ n.from <= e
      BY <1>6, <2>2, <2>7, <3>1 DEF Beside, At
    <3> QED
      BY <2>3, <2>7, <3>2
  <2> QED
    BY <1>6, <2>2, <2>4, <2>5, <2>6, <2>7
<1> QED
  BY <1>7, <1>8, <1>9 DEF Chained, after

(* What a set of versions announces for a cell and a day: the price of the *)
(* version that starts on it.                                              *)
Said(vs, x, e) ==
  LET at == {v \in OfCell(vs, x[1], x[2]) : v.from = e} IN
  IF at = {} THEN Unset ELSE (CHOOSE v \in at : TRUE).amount

LEMMA SaidIs ==
  ASSUME NEW vs, Apart(vs), NEW x, NEW e
  PROVE  /\ \A v \in vs : v.sheet = x[1] /\ v.cell = x[2] /\ v.from = e
                             => Said(vs, x, e) = v.amount
         /\ (\A v \in vs : ~(v.sheet = x[1] /\ v.cell = x[2] /\ v.from = e))
               => Said(vs, x, e) = Unset
<1> DEFINE at == {v \in OfCell(vs, x[1], x[2]) : v.from = e}
<1>1. \A u, v \in at : u = v
  BY DEF Apart, Beside, OfCell
<1>2. ASSUME NEW v \in vs, v.sheet = x[1], v.cell = x[2], v.from = e
      PROVE  Said(vs, x, e) = v.amount
  <2>1. v \in at
    BY <1>2 DEF OfCell
  <2>2. (CHOOSE w \in at : TRUE) = v
    BY <1>1, <2>1
  <2> QED
    BY <2>1, <2>2 DEF Said
<1>3. ASSUME \A v \in vs : ~(v.sheet = x[1] /\ v.cell = x[2] /\ v.from = e)
      PROVE  Said(vs, x, e) = Unset
  <2>1. at = {}
    BY <1>3 DEF OfCell
  <2> QED
    BY <2>1 DEF Said
<1> QED
  BY <1>2, <1>3

(* set_rate announces one price and loses no other. *)
LEMMA WithRateSays ==
  ASSUME NEW C, NEW vs \in SUBSET Versions(C), Chained(vs),
         NEW i \in SheetId, NEW c \in C, NEW d \in Day, NEW a \in Value, NEW x, NEW e
  PROVE  LET after == WithRate(vs, i, c, d, a) IN
         /\ x[1] = i /\ x[2] = c /\ e = d => Said(after, x, e) = a
         /\ ~(x[1] = i /\ x[2] = c /\ e = d) => Said(after, x, e) = Said(vs, x, e)
<1> DEFINE after == WithRate(vs, i, c, d, a)
           stay == Staying(vs, i, c, d)
           K(v) == Kept(v, i, c, d)
           new == NewVersion(vs, i, c, d, a)
<1>1. after = {K(v) : v \in stay} \cup {new}
  BY WithRateIs
<1>2. \A v \in stay :
         /\ K(v).sheet = v.sheet /\ K(v).cell = v.cell /\ K(v).from = v.from
         /\ K(v).amount = v.amount
  BY KeptVersion
<1>3. new.from = d /\ new.sheet = i /\ new.cell = c /\ new.amount = a
  BY DEF NewVersion
<1>4. Apart(after) /\ Apart(vs)
  BY WithRateChained DEF Chained
<1>5. \A v \in vs : v \in stay <=> ~(v.sheet = i /\ v.cell = c /\ v.from = d)
  BY DEF stay, Staying, At
<1>6. stay \subseteq vs
  BY DEF Staying
<1> HIDE DEF after, stay, K, new
<1>7. ASSUME x[1] = i, x[2] = c, e = d
      PROVE  Said(after, x, e) = a
  <2>1. new \in after
    BY <1>1
  <2> QED
    BY <1>3, <1>4, <1>7, <2>1, SaidIs
<1>8. ASSUME ~(x[1] = i /\ x[2] = c /\ e = d)
      PROVE  Said(after, x, e) = Said(vs, x, e)
  <2>1. ASSUME NEW v \in vs, v.sheet = x[1], v.cell = x[2], v.from = e
        PROVE  Said(after, x, e) = Said(vs, x, e)
    <3>1. v \in stay /\ K(v) \in after
      BY <1>1, <1>5, <1>8, <2>1
    <3>2. Said(after, x, e) = v.amount
      BY <1>2, <1>4, <2>1, <3>1, SaidIs
    <3> QED
      BY <1>4, <2>1, <3>2, SaidIs
  <2>2. ASSUME \A v \in vs : ~(v.sheet = x[1] /\ v.cell = x[2] /\ v.from = e)
        PROVE  Said(after, x, e) = Said(vs, x, e)
    <3>1. \A w \in after : ~(w.sheet = x[1] /\ w.cell = x[2] /\ w.from = e)
      BY <1>1, <1>2, <1>3, <1>6, <1>8, <2>2
    <3> QED
      BY <1>4, <2>2, <3>1, SaidIs
  <2> QED
    BY <2>1, <2>2
<1> QED
  BY <1>7, <1>8 DEF after

-----------------------------------------------------------------------------
(* Sheets *)

(* The rows of the sheets and their versions; C are the cells of a sheet.  *)
SheetsInv(C) ==
  /\ sheet \in [SheetId -> SheetRow]
  /\ sheets \in 0 .. MaxSheets
  /\ version \in SUBSET Versions(C)
  /\ Chained(version)

(* A request that announces the prices of a row or two of one sheet.       *)
RowsOf(C) == [cell : C, day : Day, amount : Value]

LEMMA WithRowKeeps ==
  ASSUME NEW C, NEW vs \in SUBSET Versions(C), Chained(vs),
         NEW i \in SheetId, NEW r \in RowsOf(C)
  PROVE  /\ WithRow(vs, i, r) \in SUBSET Versions(C)
         /\ Chained(WithRow(vs, i, r))
         /\ \A x, e : /\ x[1] = i /\ x[2] = r.cell /\ e = r.day
                            => Said(WithRow(vs, i, r), x, e) = r.amount
                      /\ ~(x[1] = i /\ x[2] = r.cell /\ e = r.day)
                            => Said(WithRow(vs, i, r), x, e) = Said(vs, x, e)
<1>1. r.cell \in C /\ r.day \in Day /\ r.amount \in Value
  BY DEF RowsOf
<1>2. WithRow(vs, i, r) = WithRate(vs, i, r.cell, r.day, r.amount)
  BY DEF WithRow
<1> QED
  BY <1>1, <1>2, WithRateChained, WithRateSays

(* Sheets come and go; none of that touches a version.                     *)
LEMMA SheetsCome ==
  ASSUME NEW C, SheetsInv(C), NEW g \in Group, NEW k \in RateMethod,
         NEW s \in Service \cup {NoService}, InsertSheet(g, k, s)
  PROVE  sheet' \in [SheetId -> SheetRow] /\ sheets' \in 0 .. MaxSheets
<1> DEFINE row == [is_active |-> TRUE, rate_group |-> g, kind |-> k, service |-> s]
<1>1. row \in SheetRow
  BY DEF SheetRow
<1>2. sheets \in 0 .. MaxSheets /\ sheets < MaxSheets /\ sheets' = sheets + 1
      /\ sheet' = [sheet EXCEPT ![sheets + 1] = row]
  BY DEF SheetsInv, InsertSheet
<1> HIDE DEF row
<1>3. sheet' \in [SheetId -> SheetRow]
  BY <1>1, <1>2 DEF SheetsInv
<1> QED
  BY <1>2, <1>3

LEMMA SheetsStep ==
  ASSUME NEW C, Cell \subseteq C, SheetsInv(C), SheetsNext
  PROVE  SheetsInv(C)'
<1>1. ASSUME NEW g \in Group, NEW k \in RateMethod, NEW s \in Service \cup {NoService},
             CreateSheet(g, k, s)
      PROVE  SheetsInv(C)'
  BY <1>1, SheetsCome DEF CreateSheet, SheetsInv
<1>2. ASSUME NEW i \in SheetId, DeleteSheet(i)
      PROVE  SheetsInv(C)'
  <2>1. [sheet[i] EXCEPT !.is_active = FALSE] \in SheetRow
    <3>1. sheet[i] \in SheetRow
      BY DEF SheetsInv
    <3> QED
      BY <3>1 DEF SheetRow
  <2> QED
    BY <1>2, <2>1 DEF DeleteSheet, SheetsInv
<1>3. ASSUME NEW i \in SheetId, NEW r \in Rate, SetRate(i, r)
      PROVE  SheetsInv(C)'
  <2>1. r \in RowsOf(C)
    BY DEF Rate, RowsOf
  <2> QED
    BY <1>3, <2>1, WithRowKeeps DEF SetRate, SheetsInv
<1>4. ASSUME NEW i \in SheetId, NEW r \in Rate, NEW q \in Rate, SetRateBulk(i, r, q)
      PROVE  SheetsInv(C)'
  <2>1. r \in RowsOf(C) /\ q \in RowsOf(C)
    BY DEF Rate, RowsOf
  <2>2. /\ WithRow(version, i, r) \in SUBSET Versions(C)
        /\ Chained(WithRow(version, i, r))
    BY <2>1, WithRowKeeps DEF SheetsInv
  <2>3. /\ WithRow(WithRow(version, i, r), i, q) \in SUBSET Versions(C)
        /\ Chained(WithRow(WithRow(version, i, r), i, q))
    BY <2>1, <2>2, WithRowKeeps
  <2> QED
    BY <1>4, <2>3 DEF SetRateBulk, SheetsInv
<1>5. \A r \in Rate, d \in Day, a \in Value : [r EXCEPT !.day = d, !.amount = a] \in Rate
  BY DEF Rate
<1> QED
  BY <1>1, <1>2, <1>3, <1>4, <1>5 DEF SheetsNext

LEMMA SheetsBegin ==
  ASSUME SheetsInit, NEW C
  PROVE  SheetsInv(C)
<1>1. NoSheet \in SheetRow
  BY DEF NoSheet, SheetRow, RateMethod
<1>2. 0 \in 0 .. MaxSheets
  OBVIOUS
<1> QED
  BY <1>1, <1>2 DEF SheetsInit, SheetsInv, Chained, Apart, NoGap

(* What holds of the sheets in every state (RateSheetService).             *)
THEOREM VersionsAreChained == SheetsSpec => []SheetsInv(Cell)
<1>1. SheetsInit => SheetsInv(Cell)
  BY SheetsBegin
<1>2. SheetsInv(Cell) /\ [\/ (GroupsNext \/ AssignmentsNext) /\ UNCHANGED sheetVars
                          \/ SheetsNext /\ UNCHANGED groupVars]_<<groupVars, sheetVars>>
        => SheetsInv(Cell)'
  <2>1. ASSUME SheetsInv(Cell), UNCHANGED sheetVars
        PROVE  SheetsInv(Cell)'
    BY <2>1 DEF SheetsInv, sheetVars
  <2> QED
    BY <2>1, SheetsStep
<1> QED
  BY <1>1, <1>2, PTL DEF SheetsSpec

(* Whatever the order in which the days were priced, the version in force  *)
(* on a day is the one set latest in the calendar, and there is one from   *)
(* the first priced day on (versioning.set_rate, find_open_entry).         *)
THEOREM LookupAlwaysLatest == SheetsSpec => []LookupIsLatest
<1>1. ASSUME SheetsInv(Cell), NEW i \in SheetId, NEW c \in Cell, NEW d \in Day
      PROVE  LET open == {v \in OfCell(version, i, c) : v.from <= d /\ d <= v.to} IN
             /\ Cardinality(open) <= 1
             /\ {v.amount : v \in open} = {List!PriceOn(<<i, c>>, d)} \ {Unset}
  <2> DEFINE open == {v \in OfCell(version, i, c) : v.from <= d /\ d <= v.to}
             x == <<i, c>>
             upTo == {e \in 1 .. d : Announced[x][e] # Unset}
  <2>1. /\ version \in SUBSET Versions(Cell) /\ Chained(version) /\ Apart(version)
        /\ d \in Nat /\ d <= LastDay
        /\ \A v \in version : v.from \in Day /\ v.from \in Nat /\ v.to \in Nat
                              /\ v.amount \in Value
    BY <1>1 DEF SheetsInv, Chained, Versions, Day, Forever
  <2>2. \A e \in 1 .. d : Announced[x][e] = Said(version, x, e)
    <3>1. x \in SheetId \X Cell
      OBVIOUS
    <3>2. \A e \in 1 .. d : e \in Day
      BY <2>1 DEF Day
    <3> QED
      BY <3>1, <3>2 DEF Announced, Said
  <2>3. \A v \in version : v.sheet = i /\ v.cell = c => Said(version, x, v.from) = v.amount
    BY <2>1, SaidIs
  <2>4. \A e : Said(version, x, e) # Unset
                 => \E v \in version : v.sheet = i /\ v.cell = c /\ v.from = e
    BY <2>1, SaidIs
  <2>5. Unset \notin Value
    BY NullPrices DEF Value
  <2>6. List!PriceOn(x, d) = IF upTo = {} THEN Unset
                             ELSE Announced[x][CHOOSE e \in upTo : \A f \in upTo : f <= e]
    BY DEF List!PriceOn
  <2>7. \A u, v \in open : u = v
    BY <2>1 DEF Apart, Beside, OfCell
  <2>8. ASSUME open = {}
        PROVE  /\ Cardinality(open) <= 1
               /\ {v.amount : v \in open} = {List!PriceOn(x, d)} \ {Unset}
    <3>1. upTo = {}
      <4>1. SUFFICES ASSUME NEW e \in upTo
                     PROVE  FALSE
        OBVIOUS
      <4>2. PICK v \in version : v.sheet = i /\ v.cell = c /\ v.from = e
        BY <2>2, <2>4
      <4>3. PICK w \in version : Beside(v, w) /\ Covers(w, d)
        <5>1. v.from <= d
          BY <2>1, <4>2
        <5> QED
          BY <2>1, <5>1 DEF Chained, NoGap
      <4>4. w \in open
        BY <4>2, <4>3 DEF Beside, Covers, OfCell
      <4> QED
        BY <2>8, <4>4
    <3>2. List!PriceOn(x, d) = Unset
      BY <2>6, <3>1
    <3>3. Cardinality({}) = 0
      BY FS_EmptySet
    <3> HIDE DEF open, x
    <3> QED
      BY <2>8, <3>2, <3>3
  <2>9. ASSUME open # {}
        PROVE  /\ Cardinality(open) <= 1
               /\ {v.amount : v \in open} = {List!PriceOn(x, d)} \ {Unset}
    <3>1. PICK v \in open : TRUE
      BY <2>9
    <3>2. /\ v \in version /\ v.sheet = i /\ v.cell = c /\ v.from <= d /\ d <= v.to
          /\ v.from \in 1 .. d /\ v.amount \in Value
      BY <2>1, <3>1 DEF OfCell, Day
    <3>3. v.from \in upTo /\ Announced[x][v.from] = v.amount
      BY <2>2, <2>3, <2>5, <3>2
    <3>4. ASSUME NEW e \in upTo
          PROVE  e <= v.from
      <4>1. PICK u \in version : u.sheet = i /\ u.cell = c /\ u.from = e
        BY <2>2, <2>4
      <4>2. ~(v.from < u.from)
        BY <2>1, <3>2, <4>1 DEF Apart, Beside
      <4> QED
        BY <2>1, <3>2, <4>1, <4>2
    <3>5. (CHOOSE e \in upTo : \A f \in upTo : f <= e) = v.from
      <4>1. upTo \in SUBSET Nat /\ v.from \in upTo
        BY <2>1, <3>3
      <4>2. ASSUME NEW e \in upTo, \A f \in upTo : f <= e
            PROVE  e = v.from
        <5>1. e <= v.from /\ v.from <= e /\ e \in Nat /\ v.from \in Nat
          BY <3>4, <4>1, <4>2
        <5> QED
          BY <5>1
      <4> HIDE DEF upTo
      <4> QED
        BY <3>3, <3>4, <4>2
    <3>6. List!PriceOn(x, d) = v.amount
      BY <2>6, <3>3, <3>5
    <3>7. open = {v}
      BY <2>7, <3>1
    <3>8. Cardinality({v}) = 1
      BY FS_Singleton
    <3>9. {u.amount : u \in open} = {v.amount}
      BY <3>7
    <3> HIDE DEF open, x
    <3> QED
      BY <2>5, <3>2, <3>6, <3>7, <3>8, <3>9
  <2> QED
    BY <2>8, <2>9
<1>2. SheetsInv(Cell) => LookupIsLatest
  BY <1>1 DEF LookupIsLatest
<1> QED
  BY <1>2, VersionsAreChained, PTL

-----------------------------------------------------------------------------
(* The refinement *)

LEMMA AnnouncedIs ==
  /\ Announced = [x \in SheetId \X Cell |-> [e \in Day |-> Said(version, x, e)]]
  /\ Announced' = [x \in SheetId \X Cell |-> [e \in Day |-> Said(version', x, e)]]
BY DEF Announced, Said

LEMMA PairIsFinite ==
  ASSUME NEW a, NEW b, NEW S, S \subseteq {a, b}
  PROVE  Cardinality(S) \in Nat /\ Cardinality(S) <= 2
<1>1. IsFiniteSet({a}) /\ Cardinality({a}) = 1
  BY FS_Singleton
<1>2. IsFiniteSet({a} \cup {b})
  BY <1>1, FS_AddElement
<1>3. Cardinality({a} \cup {b}) = 1 \/ Cardinality({a} \cup {b}) = 2
  BY <1>1, FS_AddElement
<1>4. S \subseteq {a} \cup {b}
  OBVIOUS
<1>5. IsFiniteSet(S) /\ Cardinality(S) <= Cardinality({a} \cup {b})
  BY <1>2, <1>4, FS_Subset
<1>6. Cardinality(S) \in Nat
  BY <1>5, FS_CardinalityType
<1> QED
  BY <1>3, <1>5, <1>6

LEMMA SameCardinality == \A S : List!Cardinality(S) = Cardinality(S)
BY DEF List!Cardinality, Cardinality

(* A step that changes what is announced for two cells and days at most.   *)
LEMMA AnnounceStep ==
  ASSUME NEW i \in SheetId, NEW r \in RowsOf(Cell), NEW q \in RowsOf(Cell),
         \A x, e : \/ Said(version', x, e) = Said(version, x, e)
                   \/ /\ Said(version', x, e) \in Value
                      /\ x[1] = i
                      /\ (x[2] = r.cell /\ e = r.day) \/ (x[2] = q.cell /\ e = q.day)
  PROVE  List!Announce
<1> DEFINE Slot == SheetId \X Cell
           new == {x \in Slot \X (1 .. LastDay) :
                     Announced'[x[1]][x[2]] # Announced[x[1]][x[2]]}
           here == << <<i, r.cell>>, r.day>>
           there == << <<i, q.cell>>, q.day>>
<1>1. ASSUME NEW x \in new
      PROVE  Announced'[x[1]][x[2]] \in Value /\ x \in {here, there}
  <2>1. PICK y \in Slot, e \in 1 .. LastDay : x = <<y, e>>
    OBVIOUS
  <2>2. e \in Day /\ Announced'[y][e] # Announced[y][e]
    BY <2>1 DEF Day
  <2>3. Announced'[y][e] = Said(version', y, e) /\ Announced[y][e] = Said(version, y, e)
    BY <2>2, AnnouncedIs
  <2>4. /\ Said(version', y, e) \in Value /\ y[1] = i
        /\ (y[2] = r.cell /\ e = r.day) \/ (y[2] = q.cell /\ e = q.day)
    BY <2>2, <2>3
  <2>5. y = <<y[1], y[2]>>
    OBVIOUS
  <2> QED
    BY <2>1, <2>3, <2>4, <2>5
<1>2. Cardinality(new) <= 2
  <2>1. new \subseteq {here, there}
    BY <1>1
  <2> HIDE DEF new, here, there
  <2> QED
    BY <2>1, PairIsFinite
<1>3. DOMAIN Announced' = Slot
  BY AnnouncedIs
<1> QED
  BY <1>1, <1>2, <1>3, SameCardinality DEF List!Announce

(* The versions implement a price list: every request announces the prices *)
(* it names, and no announcement is lost whatever the order of the days    *)
(* (versioning.set_rate, set_rate_bulk).                                   *)
THEOREM SheetsImplementPriceList == SheetsSpec => ImplementsPriceList
<1>1. SheetsInit => List!Init
  <2>1. ASSUME SheetsInit
        PROVE  Announced = [s \in SheetId \X Cell |-> [d \in 1 .. LastDay |-> Unset]]
    <3>1. version = {}
      BY <2>1 DEF SheetsInit
    <3>2. \A x, e : Said(version, x, e) = Unset
      BY <3>1, SaidIs DEF Apart
    <3> QED
      BY <3>2, AnnouncedIs DEF Day
  <2> QED
    BY <2>1 DEF List!Init
<1>2. ASSUME SheetsInv(Cell),
             [\/ (GroupsNext \/ AssignmentsNext) /\ UNCHANGED sheetVars
              \/ SheetsNext /\ UNCHANGED groupVars]_<<groupVars, sheetVars>>
      PROVE  [List!Announce]_Announced
  <2>1. CASE version' = version
    BY <2>1, AnnouncedIs
  <2>2. ASSUME NEW i \in SheetId, NEW r \in Rate, SetRate(i, r)
        PROVE  List!Announce
    <3>1. r \in RowsOf(Cell) /\ r.amount \in Value /\ version' = WithRow(version, i, r)
      BY <2>2 DEF Rate, RowsOf, SetRate
    <3>2. \A x, e : /\ x[1] = i /\ x[2] = r.cell /\ e = r.day
                          => Said(version', x, e) = r.amount
                    /\ ~(x[1] = i /\ x[2] = r.cell /\ e = r.day)
                          => Said(version', x, e) = Said(version, x, e)
      BY <1>2, <3>1, WithRowKeeps DEF SheetsInv
    <3> QED
      BY <3>1, <3>2, AnnounceStep
  <2>3. ASSUME NEW i \in SheetId, NEW r \in Rate, NEW q \in Rate, SetRateBulk(i, r, q)
        PROVE  List!Announce
    <3> DEFINE first == WithRow(version, i, r)
    <3>1. /\ r \in RowsOf(Cell) /\ q \in RowsOf(Cell)
          /\ r.amount \in Value /\ q.amount \in Value
          /\ version' = WithRow(first, i, q)
      BY <2>3 DEF Rate, RowsOf, SetRateBulk
    <3>2. /\ first \in SUBSET Versions(Cell) /\ Chained(first)
          /\ \A x, e : /\ x[1] = i /\ x[2] = r.cell /\ e = r.day
                             => Said(first, x, e) = r.amount
                       /\ ~(x[1] = i /\ x[2] = r.cell /\ e = r.day)
                             => Said(first, x, e) = Said(version, x, e)
      BY <1>2, <3>1, WithRowKeeps DEF SheetsInv
    <3> HIDE DEF first
    <3>3. \A x, e : /\ x[1] = i /\ x[2] = q.cell /\ e = q.day
                          => Said(version', x, e) = q.amount
                    /\ ~(x[1] = i /\ x[2] = q.cell /\ e = q.day)
                          => Said(version', x, e) = Said(first, x, e)
      BY <3>1, <3>2, WithRowKeeps
    <3>4. \A x, e : \/ Said(version', x, e) = Said(version, x, e)
                    \/ /\ Said(version', x, e) \in Value
                       /\ x[1] = i
                       /\ (x[2] = r.cell /\ e = r.day) \/ (x[2] = q.cell /\ e = q.day)
      BY <3>1, <3>2, <3>3
    <3> QED
      BY <3>1, <3>4, AnnounceStep
  <2>4. CASE SheetsNext
    <3>1. \A r \in Rate, d \in Day, a \in Value : [r EXCEPT !.day = d, !.amount = a] \in Rate
      BY DEF Rate
    <3> QED
      BY <2>1, <2>2, <2>3, <2>4, <3>1 DEF SheetsNext, CreateSheet, DeleteSheet
  <2> QED
    BY <1>2, <2>1, <2>4 DEF sheetVars
<1>3. SheetsInv(Cell) /\ [\/ (GroupsNext \/ AssignmentsNext) /\ UNCHANGED sheetVars
                          \/ SheetsNext /\ UNCHANGED groupVars]_<<groupVars, sheetVars>>
        => [List!Announce]_Announced
  BY <1>2
<1> QED
  BY <1>1, <1>3, VersionsAreChained, PTL DEF SheetsSpec, ImplementsPriceList, List!Spec

-----------------------------------------------------------------------------
(* Resolution *)

AllCells == Cell \cup {UnitCell}

(* A slot of a group has one active sheet.                                 *)
OneSheetPerSlot ==
  \A i, j \in 1 .. sheets :
     /\ sheet[i].is_active /\ sheet[j].is_active
     /\ sheet[i].rate_group = sheet[j].rate_group
     /\ sheet[i].kind = sheet[j].kind /\ sheet[i].service = sheet[j].service
     => i = j

GroupsInv == group \in [Group -> GroupRow]

RatesInv == GroupsInv /\ ZonesInv /\ SheetsInv(AllCells) /\ OneSheetPerSlot

LEMMA GroupsStep ==
  ASSUME GroupsInv, GroupsNext \/ AssignmentsNext
  PROVE  GroupsInv'
<1> USE DEF GroupsInv
<1>1. \A m \in RateMethod : \A x : ClearDefault(group, m, x) \in [Group -> GroupRow]
  <2>1. \A g \in Group : [group[g] EXCEPT !.is_default = FALSE] \in GroupRow
    BY DEF GroupRow
  <2> QED
    BY <2>1 DEF ClearDefault
<1>2. ASSUME NEW m \in RateMethod, NEW default \in BOOLEAN, NEW inherits \in BOOLEAN,
             CreateGroup(m, default, inherits)
      PROVE  GroupsInv'
  <2> DEFINE row == [is_active |-> TRUE, method |-> m, is_default |-> default,
                     inherits_default |-> inherits]
             others == IF default THEN ClearDefault(group, m, groups + 1) ELSE group
  <2>1. row \in GroupRow
    BY DEF GroupRow
  <2>2. others \in [Group -> GroupRow]
    BY <1>1
  <2>3. group' = [others EXCEPT ![groups + 1] = row]
    BY <1>2 DEF CreateGroup
  <2> HIDE DEF row, others
  <2> QED
    BY <2>1, <2>2, <2>3
<1>3. ASSUME NEW g \in Group, NEW m \in RateMethod, NEW default \in BOOLEAN,
             NEW inherits \in BOOLEAN, NEW says \in BOOLEAN,
             UpdateGroup(g, m, default, inherits, says)
      PROVE  GroupsInv'
  <2> DEFINE others == IF says /\ default THEN ClearDefault(group, m, g) ELSE group
             row == [others[g] EXCEPT !.method = m, !.is_default = default,
                                      !.inherits_default = inherits]
  <2>1. others \in [Group -> GroupRow]
    BY <1>1
  <2>2. group' = [others EXCEPT ![g].method = m, ![g].is_default = default,
                                ![g].inherits_default = inherits]
    BY <1>3 DEF UpdateGroup
  <2> HIDE DEF others
  <2>3. row \in GroupRow
    <3>1. others[g] \in GroupRow
      BY <2>1
    <3> QED
      BY <3>1 DEF GroupRow
  <2>4. group' = [others EXCEPT ![g] = row]
    BY <2>1, <2>2
  <2> HIDE DEF row
  <2> QED
    BY <2>1, <2>3, <2>4
<1>4. ASSUME NEW g \in Group, DeleteGroup(g)
      PROVE  GroupsInv'
  <2>1. [group[g] EXCEPT !.is_active = FALSE] \in GroupRow
    BY DEF GroupRow
  <2> QED
    BY <1>4, <2>1 DEF DeleteGroup
<1>5. ASSUME AssignmentsNext
      PROVE  GroupsInv'
  BY <1>5 DEF AssignmentsNext, CreateAssignment, UpdateAssignment, DeleteAssignment
<1> QED
  BY <1>2, <1>3, <1>4, <1>5 DEF GroupsNext

(* A sheet is created for a slot that has none.                            *)
LEMMA SlotsStayApart ==
  ASSUME NEW C, SheetsInv(C), OneSheetPerSlot,
         NEW g \in Group, NEW k \in RateMethod, NEW s \in Service \cup {NoService},
         FindSlot(g, k, s) = {}, InsertSheet(g, k, s)
  PROVE  OneSheetPerSlot'
<1> DEFINE row == [is_active |-> TRUE, rate_group |-> g, kind |-> k, service |-> s]
<1>1. /\ sheets \in 0 .. MaxSheets /\ sheets < MaxSheets /\ sheets' = sheets + 1
      /\ sheet \in [SheetId -> SheetRow]
      /\ sheet' = [sheet EXCEPT ![sheets + 1] = row]
  BY DEF SheetsInv, InsertSheet
<1>2. row.rate_group = g /\ row.kind = k /\ row.service = s
  OBVIOUS
<1> HIDE DEF row
<1>3. \A i \in 1 .. sheets' : /\ i \in 1 .. sheets \/ i = sheets + 1
                              /\ sheet'[i] = IF i = sheets + 1 THEN row ELSE sheet[i]
  BY <1>1 DEF SheetId
<1>4. \A i \in 1 .. sheets :
         ~(/\ sheet[i].is_active /\ sheet[i].rate_group = g
           /\ sheet[i].kind = k /\ sheet[i].service = s)
  BY DEF FindSlot
<1> QED
  BY <1>1, <1>2, <1>3, <1>4 DEF OneSheetPerSlot

LEMMA RatesStep ==
  ASSUME RatesInv, [RatesNext]_ratesVars
  PROVE  RatesInv'
<1> USE DEF RatesInv
<1>1. ASSUME UNCHANGED sheetVars
      PROVE  SheetsInv(AllCells)' /\ OneSheetPerSlot'
  BY <1>1 DEF SheetsInv, OneSheetPerSlot, sheetVars
<1>2. ASSUME UNCHANGED zoneVars
      PROVE  ZonesInv'
  BY <1>2 DEF ZonesInv, ZonesTypeOK, OneZonePerAtom, zoneVars
<1>3. ASSUME SheetsNext, UNCHANGED <<groupVars, zoneVars>>
      PROVE  RatesInv'
  <2>1. SheetsInv(AllCells)'
    BY <1>3, SheetsStep DEF AllCells
  <2>2. ASSUME NEW g \in Group, NEW k \in RateMethod,
               NEW s \in Service \cup {NoService}, CreateSheet(g, k, s)
        PROVE  OneSheetPerSlot'
    BY <2>2, SlotsStayApart DEF CreateSheet
  <2>3. ASSUME NEW i \in SheetId, DeleteSheet(i)
        PROVE  OneSheetPerSlot'
    <3>1. \A j \in 1 .. sheets : j \in SheetId
      BY DEF SheetsInv, SheetId
    <3>2. sheets' = sheets /\ \A j \in 1 .. sheets :
             /\ sheet'[j].is_active => sheet[j].is_active
             /\ sheet'[j].rate_group = sheet[j].rate_group
             /\ sheet'[j].kind = sheet[j].kind /\ sheet'[j].service = sheet[j].service
      BY <2>3, <3>1 DEF DeleteSheet, SheetsInv, SheetRow
    <3> QED
      BY <3>2 DEF OneSheetPerSlot
  <2>4. ASSUME UNCHANGED <<sheet, sheets>>
        PROVE  OneSheetPerSlot'
    BY <2>4 DEF OneSheetPerSlot
  <2> QED
    BY <1>2, <1>3, <2>1, <2>2, <2>3, <2>4
       DEF SheetsNext, SetRate, SetRateBulk, GroupsInv, groupVars
<1>4. ASSUME NEW g \in Group, NEW s \in Service \cup {NoService}, NEW i \in SheetId,
             NEW r \in Rate, SetEntry(g, s, i, r), UNCHANGED <<groupVars, zoneVars>>
      PROVE  RatesInv'
  <2> DEFINE k == group[g].method
             q == [r EXCEPT !.cell = CellFor(k, @)]
  <2>1. q \in RowsOf(AllCells)
    BY DEF Rate, RowsOf, CellFor, AllCells
  <2>2. version' = WithRow(version, i, q)
    BY <1>4 DEF SetEntry
  <2> HIDE DEF q
  <2>3. version' \in SUBSET Versions(AllCells) /\ Chained(version')
    BY <2>1, <2>2, WithRowKeeps DEF SheetsInv
  <2>4. CASE UNCHANGED <<sheet, sheets>>
    BY <1>2, <1>4, <2>3, <2>4 DEF SheetsInv, OneSheetPerSlot, GroupsInv, groupVars
  <2>5. ASSUME NEW t \in Service \cup {NoService},
               FindSlot(g, k, t) = {}, InsertSheet(g, k, t)
        PROVE  RatesInv'
    <3>1. k \in RateMethod
      BY DEF GroupsInv, GroupRow
    <3>2. /\ sheet' \in [SheetId -> SheetRow] /\ sheets' \in 0 .. MaxSheets
          /\ OneSheetPerSlot'
      BY <2>5, <3>1, SheetsCome, SlotsStayApart
    <3>3. GroupsInv'
      BY <1>4 DEF GroupsInv, groupVars
    <3> QED
      BY <1>2, <1>4, <2>3, <3>2, <3>3 DEF SheetsInv
  <2> QED
    <3> DEFINE t == IF k \in Matrix THEN s ELSE NoService
    <3>1. t \in Service \cup {NoService} /\ EnsureSheet(g, k, t, i)
      BY <1>4 DEF SetEntry
    <3> HIDE DEF t
    <3> QED
      BY <2>4, <2>5, <3>1 DEF EnsureSheet
<1>5. ASSUME NEW i \in SheetId, NEW r \in Rate, NEW d \in Day, NEW a \in Value,
             ImportSheetEntries(i, r, [r EXCEPT !.day = d, !.amount = a])
      PROVE  SheetsNext
  BY <1>5 DEF ImportSheetEntries, SheetsNext
<1> QED
  <2>1. ASSUME GroupsNext \/ AssignmentsNext, UNCHANGED <<zoneVars, sheetVars>>
        PROVE  RatesInv'
    BY <1>1, <1>2, <2>1, GroupsStep
  <2>2. ASSUME ZonesNext, UNCHANGED <<groupVars, sheetVars>>
        PROVE  RatesInv'
    BY <1>1, <2>2, ZonesStep DEF GroupsInv, groupVars
  <2>3. ASSUME UNCHANGED ratesVars
        PROVE  RatesInv'
    BY <1>1, <1>2, <2>3 DEF ratesVars, GroupsInv, groupVars
  <2> QED
    BY <1>3, <1>4, <1>5, <2>1, <2>2, <2>3 DEF RatesNext

LEMMA AtomIs ==
  ASSUME NEW k \in Matrix, NEW p \in Place, AtomAt(k, p) \notin {NoZip, NoCity}
  PROVE  AtomAt(k, p) \in Atom \cup Name
<1>1. p.zip \in Zip \cup {NoZip} /\ p.city \in City \cup Name \cup {NoCity}
  BY DEF Place
<1> DEFINE cities == {c \in City : p.zip \in ZipsOf[c]}
<1>2. cities # {} => (CHOOSE c \in cities : TRUE) \in City
  OBVIOUS
<1>3. k = "ZIP" => AtomAt(k, p) = p.zip
  BY DEF AtomAt
<1>4. k # "ZIP" => AtomAt(k, p) = IF p.city # NoCity THEN p.city
                                  ELSE IF cities = {} THEN NoCity
                                  ELSE CHOOSE c \in cities : TRUE
  BY DEF AtomAt
<1> HIDE DEF cities
<1> QED
  BY <1>1, <1>2, <1>3, <1>4 DEF Atom

(* The zone of an atom, that of the group before the global one: the       *)
(* lookup takes one at most.  A zip, or a city with its state, is in no    *)
(* other, so that the order in which zones are found does not matter for   *)
(* it; a name may be that of cities in several.                            *)
LEMMA ZonesForIs ==
  ASSUME ZonesInv, NEW g, NEW k, NEW a
  PROVE  /\ ZonesFor(k, a, g) \subseteq ZoneId
         /\ \A y, z \in ZonesFor(k, a, g) : y = z
         /\ {a} \cup ZonesFor(k, a, g) \subseteq Names(g, k, a)
         /\ a \in Atom => Names(g, k, a) = {a} \cup ZonesFor(k, a, g)
<1> DEFINE hold(scope) == Holding(k, a, scope)
           best == IF hold(g) # {} THEN hold(g) ELSE hold(Global)
<1>1. \A scope : hold(scope) =
         {z \in ZoneId : /\ zone[z].is_active /\ zone[z].kind = k
                         /\ zone[z].scope = scope
                         /\ \E m \in zone[z].members :
                              m = a \/ (m \in City /\ NameOf[m] = a)}
  <2>1. \A z \in ZoneId : zone[z].members \subseteq Atom
    BY DEF ZonesInv, ZonesTypeOK, ZoneRow
  <2>2. \A z \in ZoneId : zone[z].members \cap Matching(a) # {}
           <=> \E m \in zone[z].members : m = a \/ (m \in City /\ NameOf[m] = a)
    BY <2>1 DEF Matching
  <2> QED
    BY <2>2 DEF Holding
<1>2. a \in Atom => \A scope : \A y, z \in hold(scope) : y = z
  <2> SUFFICES ASSUME a \in Atom, NEW scope, NEW y \in hold(scope), NEW z \in hold(scope)
               PROVE  y = z
    OBVIOUS
  <2>1. Matching(a) = {a}
    BY CityNames DEF Matching, Atom
  <2>2. /\ a \in zone[y].members /\ a \in zone[z].members
        /\ y \in ZoneId /\ zone[y].is_active /\ zone[y].scope = scope
        /\ z \in ZoneId /\ zone[z].is_active /\ zone[z].scope = scope
    BY <2>1 DEF Holding
  <2> QED
    BY <2>2 DEF ZonesInv, OneZonePerAtom
<1>3. Names(g, k, a) = {a} \cup best
  BY <1>1 DEF Names
<1>4. ZonesFor(k, a, g) = {z \in best : \A y \in best : z <= y}
  BY DEF ZonesFor
<1>5. best \subseteq ZoneId /\ (a \in Atom => \A y, z \in best : y = z)
  BY <1>2 DEF Holding
<1> HIDE DEF best
<1>6. \A y, z \in best : y <= z /\ z <= y => y = z
  BY <1>5 DEF ZoneId
<1>7. \A z \in best : z <= z
  BY <1>5 DEF ZoneId
<1>8. a \in Atom => ZonesFor(k, a, g) = best
  BY <1>4, <1>5, <1>7
<1> QED
  BY <1>3, <1>4, <1>5, <1>6, <1>8

LEMMA PricedIs ==
  ASSUME SheetsInv(AllCells), NEW i, NEW c, NEW day \in Day
  PROVE  /\ Priced(i, c, day) = {v \in version : /\ v.sheet = i /\ v.cell = c
                                                 /\ Covers(v, day) /\ v.amount # NoAmount}
         /\ \A u, v \in Priced(i, c, day) : u = v
<1>1. /\ FindOpenEntry(version, i, c, day)
           = {v \in version : v.sheet = i /\ v.cell = c /\ Covers(v, day)}
      /\ \A u, v \in FindOpenEntry(version, i, c, day) : u = v
  BY OpenEntry DEF SheetsInv
<1> QED
  BY <1>1 DEF Priced

LEMMA SheetForIs ==
  ASSUME OneSheetPerSlot, NEW g, NEW k, NEW s
  PROVE  \A i, j \in SheetFor(g, k, s) : i = j
<1>1. \A x : \A i, j \in FindSlot(g, k, x) : i = j
  BY DEF FindSlot, OneSheetPerSlot
<1> QED
  BY <1>1 DEF SheetFor

(* The cells of a rung of the ladder: there is one at most, and it names   *)
(* by a zone no more ends than those of the rungs after it.                *)
LEMMA Rungs ==
  ASSUME ZonesInv, NEW g, NEW k, NEW f \in Atom \cup Name, NEW t \in Atom \cup Name
  PROVE  LET tried == Candidates(g, k, f, t) IN
         /\ \A n \in 1 .. 4 : \A c, e \in tried[n] : c = e
         /\ \A m, n \in 1 .. 4 : m <= n =>
               \A c \in tried[m], e \in tried[n] : ByZone(c) <= ByZone(e)
         /\ \A n \in 1 .. 4 : \A c \in tried[n] :
               \E x \in Names(g, k, f), y \in Names(g, k, t) : c = {x, y}
         /\ {f, t} \subseteq Atom =>
               \A x \in Names(g, k, f), y \in Names(g, k, t) :
                  \E n \in 1 .. 4 : {x, y} \in tried[n]
<1> DEFINE fz == ZonesFor(k, f, g)
           tz == ZonesFor(k, t, g)
           r1 == {{f, t}}
           r2 == {{f, z} : z \in tz}
           r3 == {{y, t} : y \in fz}
           r4 == {{y, z} : y \in fz, z \in tz}
           tried == <<r1, r2, r3, r4>>
<1>1. /\ fz \subseteq ZoneId /\ \A y, z \in fz : y = z
      /\ tz \subseteq ZoneId /\ \A y, z \in tz : y = z
      /\ {f} \cup fz \subseteq Names(g, k, f) /\ {t} \cup tz \subseteq Names(g, k, t)
      /\ {f, t} \subseteq Atom =>
            Names(g, k, f) = {f} \cup fz /\ Names(g, k, t) = {t} \cup tz
  BY ZonesForIs
<1>2. f \notin ZoneId /\ t \notin ZoneId
  BY Ends
<1>3. Candidates(g, k, f, t) = tried
  BY DEF Candidates
<1> HIDE DEF fz, tz
<1>4. /\ \A c, e \in r1 : c = e
      /\ \A c, e \in r2 : c = e
      /\ \A c, e \in r3 : c = e
      /\ \A c, e \in r4 : c = e
  BY <1>1
<1>5. \A c \in r1 : ByZone(c) = 0
  <2>1. \A c \in r1 : c \cap ZoneId = {} /\ ~(c \subseteq ZoneId)
    BY <1>2
  <2> QED
    BY <2>1, FS_EmptySet DEF ByZone
<1>6. \A c \in r2 \cup r3 : ByZone(c) = 1
  <2>1. ASSUME NEW z \in ZoneId, NEW a, a \notin ZoneId
        PROVE  /\ {a, z} \cap ZoneId = {z} /\ ~({a, z} \subseteq ZoneId)
               /\ {z, a} \cap ZoneId = {z} /\ ~({z, a} \subseteq ZoneId)
    BY <2>1
  <2>2. \A c \in r2 : ~(c \subseteq ZoneId) /\ \E z : c \cap ZoneId = {z}
    BY <1>1, <1>2, <2>1
  <2>3. \A c \in r3 : ~(c \subseteq ZoneId) /\ \E z : c \cap ZoneId = {z}
    BY <1>1, <1>2, <2>1
  <2> QED
    <3> HIDE DEF r2, r3
    <3> QED
      BY <2>2, <2>3, FS_Singleton DEF ByZone
<1>7. \A c \in r4 : ByZone(c) = 2
  BY <1>1 DEF ByZone
<1>8. /\ \A x \in {f} \cup fz, y \in {t} \cup tz : {x, y} \in r1 \cup r2 \cup r3 \cup r4
      /\ \A c \in r1 \cup r2 \cup r3 \cup r4 :
            \E x \in {f} \cup fz, y \in {t} \cup tz : c = {x, y}
  <2>1. ASSUME NEW x \in {f} \cup fz, NEW y \in {t} \cup tz
        PROVE  {x, y} \in r1 \cup r2 \cup r3 \cup r4
    <3>2. CASE x = f /\ y = t
      BY <3>2
    <3>3. CASE x = f /\ y \in tz
      BY <3>3
    <3>4. CASE x \in fz /\ y = t
      BY <3>4
    <3>5. CASE x \in fz /\ y \in tz
      BY <3>5
    <3> QED
      BY <2>1, <3>2, <3>3, <3>4, <3>5
  <2>2. ASSUME NEW c \in r1 \cup r2 \cup r3 \cup r4
        PROVE  \E x \in {f} \cup fz, y \in {t} \cup tz : c = {x, y}
    <3>1. c \in r1 => c = {f, t}
      OBVIOUS
    <3>2. c \in r2 => \E z \in tz : c = {f, z}
      OBVIOUS
    <3>3. c \in r3 => \E y \in fz : c = {y, t}
      OBVIOUS
    <3>4. c \in r4 => \E y \in fz, z \in tz : c = {y, z}
      OBVIOUS
    <3>5. /\ f \in {f} \cup fz /\ t \in {t} \cup tz
          /\ fz \subseteq {f} \cup fz /\ tz \subseteq {t} \cup tz
      OBVIOUS
    <3> HIDE DEF r1, r2, r3, r4
    <3> QED
      BY <3>1, <3>2, <3>3, <3>4, <3>5
  <2> HIDE DEF r1, r2, r3, r4
  <2> QED
    BY <2>1, <2>2
<1> HIDE DEF r1, r2, r3, r4
<1>9. tried[1] = r1 /\ tried[2] = r2 /\ tried[3] = r3 /\ tried[4] = r4
  OBVIOUS
<1>10. \A n \in 1 .. 4 : n = 1 \/ n = 2 \/ n = 3 \/ n = 4
  OBVIOUS
<1> HIDE DEF tried
<1>11. \A c : c \in r1 \cup r2 \cup r3 \cup r4 <=> \E n \in 1 .. 4 : c \in tried[n]
  BY <1>9, <1>10
<1>12. \A n \in 1 .. 4 : \A c, e \in tried[n] : c = e
  BY <1>4, <1>9, <1>10
<1>13. ASSUME NEW m \in 1 .. 4, NEW n \in 1 .. 4, m <= n,
              NEW c \in tried[m], NEW e \in tried[n]
       PROVE  ByZone(c) <= ByZone(e)
  <2>1. ByZone(c) = (CASE m = 1 -> 0 [] m \in {2, 3} -> 1 [] OTHER -> 2)
    BY <1>5, <1>6, <1>7, <1>9, <1>10
  <2>2. ByZone(e) = (CASE n = 1 -> 0 [] n \in {2, 3} -> 1 [] OTHER -> 2)
    BY <1>5, <1>6, <1>7, <1>9, <1>10
  <2> QED
    BY <1>13, <2>1, <2>2
<1>14. ASSUME NEW n \in 1 .. 4, NEW c \in tried[n]
       PROVE  \E x \in Names(g, k, f), y \in Names(g, k, t) : c = {x, y}
  <2>1. c \in r1 \cup r2 \cup r3 \cup r4
    BY <1>11
  <2> QED
    BY <1>1, <1>8, <2>1
<1>15. ASSUME {f, t} \subseteq Atom, NEW x \in Names(g, k, f), NEW y \in Names(g, k, t)
       PROVE  \E n \in 1 .. 4 : {x, y} \in tried[n]
  <2>1. {x, y} \in r1 \cup r2 \cup r3 \cup r4
    BY <1>1, <1>8, <1>15
  <2> QED
    BY <1>11, <2>1
<1> QED
  BY <1>3, <1>12, <1>13, <1>14, <1>15

(* What a group pays for a lane is one of the rates that cover it.  Between*)
(* zips, or cities with their states, it is the most specific of them, and *)
(* there is something to pay if one does.                                  *)
LEMMA MatrixIs ==
  ASSUME ZonesInv, SheetsInv(AllCells), OneSheetPerSlot,
         NEW g, NEW k, NEW s, NEW day \in Day,
         NEW f \in Atom \cup Name, NEW t \in Atom \cup Name
  PROVE  LET paid == MatrixAnswer(g, k, s, day, f, t)
             cov  == Covering(g, k, s, day, f, t)
         IN /\ paid \subseteq cov
            /\ \A u, v \in paid : u = v
            /\ {f, t} \subseteq Atom =>
                 /\ paid = {} => cov = {}
                 /\ \A v \in paid, u \in cov : ByZone(v.cell) <= ByZone(u.cell)
<1> DEFINE asked  == SheetFor(g, k, s)
           tried  == Candidates(g, k, f, t)
           hit(n) == UNION {Priced(i, c, day) : i \in asked, c \in tried[n]}
           hits   == {n \in 1 .. 4 : hit(n) # {}}
           paid   == MatrixAnswer(g, k, s, day, f, t)
           cov    == Covering(g, k, s, day, f, t)
<1>1. \A i, j \in asked : i = j
  BY SheetForIs
<1>2. /\ \A n \in 1 .. 4 : \A c, e \in tried[n] : c = e
      /\ \A m, n \in 1 .. 4 : m <= n =>
            \A c \in tried[m], e \in tried[n] : ByZone(c) <= ByZone(e)
      /\ \A n \in 1 .. 4 : \A c \in tried[n] :
            \E x \in Names(g, k, f), y \in Names(g, k, t) : c = {x, y}
      /\ {f, t} \subseteq Atom =>
            \A x \in Names(g, k, f), y \in Names(g, k, t) :
               \E n \in 1 .. 4 : {x, y} \in tried[n]
  BY Rungs
<1>3. paid = IF hits = {} THEN {} ELSE hit(CHOOSE n \in hits : \A m \in hits : n <= m)
  BY DEF MatrixAnswer
<1>4. \A v : v \in cov <=> /\ v \in version /\ v.sheet \in asked /\ v.amount # NoAmount
                           /\ Covers(v, day)
                           /\ \E x \in Names(g, k, f), y \in Names(g, k, t) :
                                v.cell = {x, y}
  <2>1. cov = {v \in version : /\ v.sheet \in asked /\ v.amount # NoAmount
                               /\ v.from <= day /\ day <= v.to
                               /\ v.cell \in {{x, y} : x \in Names(g, k, f), y \in Names(g, k, t)}}
    BY DEF Covering
  <2> HIDE DEF cov, asked, tried
  <2> QED
    BY <2>1 DEF Covers
<1> HIDE DEF asked, tried, paid, cov
<1>5. ASSUME NEW n \in 1 .. 4, NEW v
      PROVE  v \in hit(n) <=> /\ v \in version /\ v.sheet \in asked /\ v.amount # NoAmount
                              /\ Covers(v, day) /\ v.cell \in tried[n]
  <2>1. \A i, c : \A x : x \in Priced(i, c, day) <=>
           /\ x \in version /\ x.sheet = i /\ x.cell = c /\ Covers(x, day)
           /\ x.amount # NoAmount
    BY PricedIs
  <2>2. v \in hit(n) <=> \E i \in asked, c \in tried[n] : v \in Priced(i, c, day)
    OBVIOUS
  <2> QED
    BY <2>1, <2>2
<1>6. ASSUME NEW n \in 1 .. 4, NEW u \in hit(n), NEW v \in hit(n)
      PROVE  u = v
  <2>1. u.sheet = v.sheet /\ u.cell = v.cell
    BY <1>1, <1>2, <1>5
  <2>2. u \in Priced(v.sheet, v.cell, day) /\ v \in Priced(v.sheet, v.cell, day)
    <3>1. \A x : x \in Priced(v.sheet, v.cell, day) <=>
            /\ x \in version /\ x.sheet = v.sheet /\ x.cell = v.cell /\ Covers(x, day)
            /\ x.amount # NoAmount
      BY PricedIs
    <3> QED
      BY <1>5, <2>1, <3>1
  <2> QED
    BY <2>2, PricedIs
<1> HIDE DEF hit
<1>7. \A n \in 1 .. 4 : hit(n) \subseteq cov
  BY <1>2, <1>4, <1>5
<1>8. ASSUME {f, t} \subseteq Atom, NEW v \in cov
       PROVE  \E n \in 1 .. 4 : v \in hit(n)
  <2>1. PICK x \in Names(g, k, f), y \in Names(g, k, t) : v.cell = {x, y}
    BY <1>4, <1>8
  <2>2. PICK n \in 1 .. 4 : {x, y} \in tried[n]
    BY <1>2, <1>8
  <2> QED
    BY <1>4, <1>5, <1>8, <2>1, <2>2
<1>9. CASE hits = {}
  <2>1. paid = {} /\ ({f, t} \subseteq Atom => cov = {})
    BY <1>3, <1>9, <1>8
  <2> QED
    BY <2>1 DEF paid, cov
<1>10. CASE hits # {}
  <2> DEFINE n == CHOOSE n \in hits : \A m \in hits : n <= m
  <2>1. hits \in SUBSET Nat
    OBVIOUS
  <2>2. n \in hits /\ \A m \in hits : n <= m
    <3>1. \E x \in hits : \A y \in hits : x <= y
      BY <1>10, <2>1, Least
    <3> QED
      BY <3>1
  <2>3. paid = hit(n)
    BY <1>3, <1>10
  <2> HIDE DEF n
  <2>4. n \in 1 .. 4 /\ hit(n) # {}
    BY <2>2
  <2>5. ASSUME {f, t} \subseteq Atom, NEW v \in paid, NEW u \in cov
        PROVE  ByZone(v.cell) <= ByZone(u.cell)
    <3>1. PICK m \in 1 .. 4 : u \in hit(m)
      BY <1>8, <2>5
    <3>2. n <= m
      BY <2>2, <3>1
    <3>3. v.cell \in tried[n] /\ u.cell \in tried[m]
      BY <1>5, <2>3, <2>4, <3>1
    <3> QED
      BY <1>2, <2>4, <3>2, <3>3
  <2>6. paid \subseteq cov /\ paid # {} /\ \A u, v \in paid : u = v
    BY <1>6, <1>7, <2>3, <2>4
  <2> QED
    BY <2>5, <2>6 DEF paid, cov
<1> QED
  BY <1>9, <1>10

PaidRight(chain, s, day, f, t) ==
  LET k == group[chain[1]].method
      cover(g) == IF g = 0 THEN {} ELSE Covering(g, k, s, day, f, t)
      own    == cover(chain[1])
      usable == IF own # {} THEN own ELSE cover(chain[2])
      paid   == Resolve(chain, s, day, f, t)
  IN  /\ Cardinality(paid) <= 1
      /\ paid \subseteq cover(chain[1]) \cup cover(chain[2])
      /\ {f, t} \subseteq Atom =>
           /\ paid = {} <=> usable = {}
           /\ paid \subseteq usable
           /\ \A v \in paid, u \in usable : ByZone(v.cell) <= ByZone(u.cell)

(* A leg between zips, or between cities that carry their states, is paid  *)
(* by the most specific rate that covers its lane, of the driver's group   *)
(* or else of the one it inherits from, and unresolved only if nothing     *)
(* covers it; one with a city without its state is paid by at most one     *)
(* rate, that names the city so or by a zone of a city of that name        *)
(* (RateResolver).  This rests on the zones of a scope sharing no atom, on *)
(* a slot having one sheet and on the versions of a cell being chained,    *)
(* which is why RatesInv joins the three.                                  *)
THEOREM ResolveAlwaysMostSpecific == RatesSpec => []ResolveIsMostSpecific
<1>1. RatesInit => RatesInv
  <2> SUFFICES ASSUME RatesInit PROVE RatesInv
    OBVIOUS
  <2>1. ZonesInv
    <3>1. NoZone \in ZoneRow /\ ~NoZone.is_active
      BY DEF NoZone, ZoneRow, ZoneKind, Scope
    <3> QED
      BY <3>1 DEF RatesInit, ZonesInit, ZonesInv, ZonesTypeOK, OneZonePerAtom
  <2>2. SheetsInv(AllCells)
    BY SheetsBegin DEF RatesInit
  <2>3. OneSheetPerSlot
    BY DEF RatesInit, SheetsInit, OneSheetPerSlot
  <2>4. GroupsInv
    <3>1. NoGroup \in GroupRow
      BY DEF NoGroup, GroupRow, RateMethod
    <3> QED
      BY <3>1 DEF RatesInit, SheetsInit, GroupsInit, GroupsInv
  <2> QED
    BY <2>1, <2>2, <2>3, <2>4 DEF RatesInv
<1>2. RatesInv /\ [RatesNext]_ratesVars => RatesInv'
  BY RatesStep
<1>3. RatesInv => ResolveIsMostSpecific
  <2>1. ASSUME RatesInv,
               NEW day \in Day, NEW chain, chain[1] # 0, group[chain[1]].method \in Matrix,
               NEW s,
               NEW f \in {AtomAt(group[chain[1]].method, p) : p \in Place} \ {NoZip, NoCity},
               NEW t \in {AtomAt(group[chain[1]].method, p) : p \in Place} \ {NoZip, NoCity}
        PROVE  PaidRight(chain, s, day, f, t)
    <3> DEFINE k == group[chain[1]].method
               cover(g) == IF g = 0 THEN {} ELSE Covering(g, k, s, day, f, t)
               own    == cover(chain[1])
               usable == IF own # {} THEN own ELSE cover(chain[2])
               answer(g) == IF g = 0 THEN {} ELSE GroupAnswer(g, k, s, day, f, t)
               paid == IF answer(chain[1]) # {} THEN answer(chain[1]) ELSE answer(chain[2])
               Good(p, c) == /\ p \subseteq c
                             /\ \A u, v \in p : u = v
                             /\ {f, t} \subseteq Atom =>
                                  /\ p = {} => c = {}
                                  /\ \A v \in p, u \in c : ByZone(v.cell) <= ByZone(u.cell)
    <3>1. Resolve(chain, s, day, f, t) = paid
      BY DEF Resolve
    <3>2. /\ f \in Atom \cup Name /\ f \notin {NoZip, NoCity}
          /\ t \in Atom \cup Name /\ t \notin {NoZip, NoCity}
      BY <2>1, AtomIs
    <3>3. ASSUME NEW g
          PROVE  Good(answer(g), cover(g))
      <4>1. CASE g = 0
        BY <4>1
      <4>2. CASE g # 0
        <5>1. answer(g) = MatrixAnswer(g, k, s, day, f, t)
          BY <2>1, <3>2, <4>2 DEF GroupAnswer
        <5>2. Good(MatrixAnswer(g, k, s, day, f, t), Covering(g, k, s, day, f, t))
          BY <2>1, <3>2, MatrixIs DEF RatesInv
        <5> QED
          BY <4>2, <5>1, <5>2
      <4> QED
        BY <4>1, <4>2
    <3> HIDE DEF cover, answer
    <3>4. Good(answer(chain[1]), own) /\ Good(answer(chain[2]), cover(chain[2]))
      BY <3>3
    <3>5. /\ paid \subseteq cover(chain[1]) \cup cover(chain[2])
          /\ \A u, v \in paid : u = v
          /\ {f, t} \subseteq Atom => Good(paid, usable)
      BY <3>4
    <3> HIDE DEF paid, usable
    <3>6. Cardinality(paid) <= 1
      <4>1. CASE paid = {}
        BY <4>1, FS_EmptySet
      <4>2. CASE paid # {}
        <5>1. \A u, v \in paid : u = v
          BY <3>5
        <5>2. PICK v : paid = {v}
          BY <4>2, <5>1
        <5> QED
          BY <5>2, FS_Singleton
      <4> QED
        BY <4>1, <4>2
    <3>7. {f, t} \subseteq Atom =>
             /\ paid = {} <=> usable = {}
             /\ paid \subseteq usable
             /\ \A v \in paid, u \in usable : ByZone(v.cell) <= ByZone(u.cell)
      BY <3>5
    <3>8. LET r == Resolve(chain, s, day, f, t) IN
          /\ Cardinality(r) <= 1
          /\ r \subseteq cover(chain[1]) \cup cover(chain[2])
          /\ {f, t} \subseteq Atom =>
               /\ r = {} <=> usable = {}
               /\ r \subseteq usable
               /\ \A v \in r, u \in usable : ByZone(v.cell) <= ByZone(u.cell)
      BY <3>1, <3>5, <3>6, <3>7
    <3> QED
      BY ONLY <3>8 DEF PaidRight, usable, own, cover, k
  <2>2. ResolveIsMostSpecific <=>
          \A d \in Driver, day \in Day : \A chain \in Chains(d, day) :
             chain[1] # 0 /\ group[chain[1]].method \in Matrix =>
             LET k == group[chain[1]].method
                 known == {AtomAt(k, p) : p \in Place} \ {NoZip, NoCity}
             IN  \A s \in Service, f, t \in known : PaidRight(chain, s, day, f, t)
    BY DEF ResolveIsMostSpecific, PaidRight
  <2> QED
    BY <2>1, <2>2
<1> QED
  BY <1>1, <1>2, <1>3, PTL DEF RatesSpec

=============================================================================
