---------------------------- MODULE MCCatalogue ----------------------------
(***************************************************************************)
(* Small instances of Catalogue for TLC.  Three parts of the product of    *)
(* the requests, the clock and the readers are explored: requests while no *)
(* reader is there, two at a time on two rows of one table of each kind    *)
(* (the tables of a kind differ in name only) and one on the others; one   *)
(* request at a time on one row of a table, with the client's syncs, which *)
(* treat each row by itself; and a walk on the three rows of one table,    *)
(* with one request at a time, for it only depends on which rows are       *)
(* active.                                                                 *)
(***************************************************************************)
EXTENDS Catalogue, TLC

Symmetry == Permutations(Session) \cup Permutations(Value)

Busy == {s \in Session : tx[s].op # "none"}

NoSync == client.sync_time = 0 /\ now = 2

Kind == {"customer", "truck", "driver", "addon", "addon_driver_rate",
         "service_area", "street_turn", "location"}

OnlyRequests ==
  /\ NoSync /\ pager = NoWalk /\ issued <= 2
  /\ table \in Kind \/ (Cardinality(Busy) <= 1 /\ issued <= 1)
OnlySync ==
  /\ Cardinality(Busy) <= 1 /\ pager = NoWalk /\ issued <= 1
  /\ table \in {"customer", "driver", "addon", "service_area"}
OnlyWalk == NoSync /\ Cardinality(Busy) <= 1 /\ table = "dual_transaction"

Parts == OnlyRequests \/ OnlySync \/ OnlyWalk
=============================================================================
