------------------------------- MODULE MCRates -------------------------------
(***************************************************************************)
(* Small instances of Rates for TLC.                                       *)
(***************************************************************************)
EXTENDS Rates, TLC

CONSTANTS a, b, c, e, n, p1   \* two zips, the city of the first and its
                              \* namesake, their name, a price

MCZipsOf == c :> {a} @@ e :> {}
MCNameOf == c :> n @@ e :> n

(* Both ends by zip, one by zone 1, both by zone 1, by zones 1 and 2, and  *)
(* one by a city without its state.                                        *)
MCCell == {{a, b}, {a, 1}, {1}, {1, 2}, {n, 1}}

(* Bound of the run: every request about the zones of two groups, or about *)
(* the resolution of a few rows.                                           *)
PlainGroups(m) ==
  \A g \in 1 .. groups :
     group[g].method = m /\ ~group[g].is_default /\ ~group[g].inherits_default

OnlyZones ==
  /\ sheets = 0 /\ assigned = 0
  /\ PlainGroups("ZIP")

Simple ==
  /\ \A g \in 1 .. groups : group[g].is_active /\ group[g].method \in Matrix
  /\ ~group[1].inherits_default
  /\ \A z \in 1 .. zones :
        zone[z].is_active /\ Cardinality(zone[z].members) = 1 /\ zone[z].kind = group[1].method
  /\ \A i \in 1 .. sheets : sheet[i].is_active /\ sheet[i].kind = group[1].method
  /\ Cardinality(version) <= 2 /\ \A v \in version : v.amount = p1
  /\ \A x \in DOMAIN assignment : assignment[x].to = Forever

(* One group with two zones and two prices: every rung of the ladder.  A   *)
(* group of cities pays only the drivers assigned to it.                   *)
OneGroup ==
  /\ groups = 1 /\ Simple
  /\ zones > 0 =>
       /\ sheets <= 1
       /\ group[1].method = "ZIP" => group[1].is_default /\ assigned = 0

(* A group that inherits from the default group, each with a price.        *)
TwoGroups ==
  /\ groups = 2 /\ Simple
  /\ group[1].is_default /\ ~group[2].is_default /\ group[2].inherits_default
  /\ group[1].method = group[2].method
  /\ \A x \in DOMAIN assignment : assignment[x].group = 2
  /\ \A i \in 1 .. sheets : sheet[i].rate_group = i /\ sheet[1].service = NoService
  /\ \A u, v \in version : u.sheet = v.sheet => u = v
  /\ zones <= 1

Focus == groups = 0 \/ OnlyZones \/ OneGroup \/ TwoGroups
=============================================================================
