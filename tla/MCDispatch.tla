----------------------------- MODULE MCDispatch -----------------------------
(***************************************************************************)
(* Small instances of Dispatch for TLC.  The drivers are interchangeable   *)
(* in every definition, so are the containers and the stop identifiers.    *)
(* The product of the legs, the order, the containers and the stops is too *)
(* large: the runs explore the union of three parts of it.                 *)
(***************************************************************************)
EXTENDS Dispatch, TLC

Symmetry == Permutations(Driver) \cup Permutations(Container)
              \cup Permutations(Stop)

NoStops == stop = [s \in Stop |-> BlankStop]

(* Legs without a container, and every state of the order, which depends   *)
(* on no more of a leg than whether it waits for a driver.                 *)
OnlyOrderMoves ==
  /\ NoStops /\ live = Container /\ staleWork = {}
  /\ \A l \in LegId : /\ leg[l].container_id = NoContainer /\ ~leg[l].accepted
                      /\ leg[l].status \notin {"COMPLETED", "FAILED"}

(* Legs of a container of an order in its automatic phase, where every leg *)
(* operation does all it can do.                                           *)
OnlyLegsMove ==
  /\ NoStops /\ AutoDerived(order) /\ live = Container
  /\ \A l \in 1 .. issued : leg[l].container_id # NoContainer

(* The container with its stops: no driver answers an offer and only the   *)
(* first leg has a driver, for neither decides a work_state, and a leg     *)
(* without a container comes only before there are stops.                  *)
OnlyContainersMove ==
  /\ AutoDerived(order)
  /\ \A l \in LegId : ~leg[l].accepted /\ ~leg[l].rejected
  /\ \A l \in LegId \ {1} : leg[l].driver_id = NoDriver /\ leg[l].status # "FAILED"
  /\ NoStops \/ \A l \in 1 .. issued : leg[l].container_id # NoContainer

Parts == OnlyOrderMoves \/ OnlyLegsMove \/ OnlyContainersMove
=============================================================================
