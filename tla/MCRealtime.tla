----------------------------- MODULE MCRealtime -----------------------------
(***************************************************************************)
(* A small instance of Realtime for TLC: two connections of one team, so   *)
(* that one may leave while the other comes, stays or falls silent, queues *)
(* that hold a single event, and a subscriber task to spare.               *)
(***************************************************************************)
EXTENDS Realtime
=============================================================================
