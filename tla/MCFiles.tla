------------------------------- MODULE MCFiles -------------------------------
(***************************************************************************)
(* A small instance of Files for TLC: two requests, two uploads of files   *)
(* of the same name.                                                       *)
(***************************************************************************)
EXTENDS Files, TLC

CONSTANTS avatar

MCNameOf(t) == avatar

Symmetry == Permutations(Request) \cup Permutations(Temp)

(* Bound: the keys that the open requests name, together.                  *)
FewKeys ==
  Cardinality({<<r, n>> \in Request \X {1, 2} : n \in DOMAIN request[r].add}) <= 2

(* Bound: the rows given out and the keys that are misused, or are named   *)
(* so that they may be, together.                                          *)
Named == UNION {{request[r].add[n] : n \in DOMAIN request[r].add} : r \in Request}

FewMisused == issued + Cardinality(misused \cup (Named \cap Key)) <= 3
=============================================================================
