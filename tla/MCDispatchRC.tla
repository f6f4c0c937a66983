---------------------------- MODULE MCDispatchRC ----------------------------
(***************************************************************************)
(* Small instances of DispatchRC for TLC.  The requests in flight are      *)
(* interchangeable, so are the drivers.                                    *)
(***************************************************************************)
EXTENDS DispatchRC, TLC, FiniteSets

Symmetry == Permutations(Worker) \cup Permutations(Driver)

(* Nobody writes the order by hand: it only takes the statuses derived.    *)
OrderOnlyDerived ==
  /\ AutoDerived(order)
  /\ \A w \in Worker : req[w].at = "save" => req[w].derives # "never"

(* The leg is only planned, assigned and deleted, which gives every status *)
(* a derivation can compute.                                               *)
LegsStayPlanned ==
  /\ \A l \in LegId : leg[l].status \in {"PENDING", "ASSIGNED"}
                      /\ ~leg[l].accepted /\ ~leg[l].rejected
  /\ \A w \in Worker : \A l \in DOMAIN req[w].mine :
        /\ req[w].mine[l].status \in {"PENDING", "ASSIGNED"}
        /\ ~req[w].mine[l].accepted /\ ~req[w].mine[l].rejected

(* Past dispatch FINAL_DELIVERY stands for the other places of a trip.     *)
OneTrip ==
  LET others == {"YARD_STAGED", "EMPTY_STAGED"} IN
  /\ order.status \notin others
  /\ \A w \in Worker : req[w].new.status \notin others

(* A leg without a container, which only apply_load_type can tell.         *)
Bare(row) == row.is_active /\ row.container_id = NoContainer

SomeBare ==
  \/ \E l \in LegId : Bare(leg[l])
  \/ \E w \in Worker : \E l \in DOMAIN req[w].mine : Bare(req[w].mine[l])

(* Bound of the run: two overlapping requests do all they can to one leg   *)
(* of a container, or all they can to the order, not both; once there is a *)
(* second leg, or one without a container, requests come one at a time.    *)
Busy == {w \in Worker : req[w].at # "idle"}

Overlap ==
  /\ OrderOnlyDerived \/ (LegsStayPlanned /\ issued <= 1 /\ OneTrip)
  /\ issued = 2 \/ SomeBare => Cardinality(Busy) <= 1
  /\ SomeBare => issued = 1
=============================================================================
