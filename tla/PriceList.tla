------------------------------ MODULE PriceList ------------------------------
(***************************************************************************)
(* What a rate sheet promises: for each price a list of announcements, at  *)
(* most one a day, of which the latest one up to a day is the price of     *)
(* that day.  An announcement is replaced, never withdrawn, so the price   *)
(* of a day changes only when something is announced on it or before it    *)
(* and after the last announcement.                                        *)
(***************************************************************************)
EXTENDS Naturals, FiniteSets

CONSTANTS
  Slot,      \* what has a price
  LastDay,   \* the days are 1 .. LastDay
  Price,     \* what can be announced
  Unannounced,
  MaxBatch   \* bound: announcements of one request

VARIABLE announced   \* the price announced for each slot on each day

Init == announced = [s \in Slot |-> [d \in 1 .. LastDay |-> Unannounced]]

(* One request announces at most MaxBatch prices: the others stay.         *)
Announce ==
  LET was == announced
      is  == announced'
      new == {x \in Slot \X (1 .. LastDay) : is[x[1]][x[2]] # was[x[1]][x[2]]}
  IN  /\ DOMAIN is = Slot
      /\ Cardinality(new) <= MaxBatch
      /\ \A x \in new : is[x[1]][x[2]] \in Price

Spec == Init /\ [][Announce]_announced

-----------------------------------------------------------------------------

(* The price of a day: that of the latest announcement up to it.           *)
PriceOn(s, d) ==
  LET upTo == {e \in 1 .. d : announced[s][e] # Unannounced} IN
  IF upTo = {} THEN Unannounced
  ELSE announced[s][CHOOSE e \in upTo : \A f \in upTo : f <= e]
=============================================================================
