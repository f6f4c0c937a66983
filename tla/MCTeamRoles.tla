---------------------------- MODULE MCTeamRoles -----------------------------
(***************************************************************************)
(* Small instances of TeamRoles for TLC.                                   *)
(***************************************************************************)
EXTENDS TeamRoles

(* Bound of the run: the user that nobody follows joins as administrator   *)
(* and stays.                                                              *)
OtherStays ==
  \A u \in User \ Watched :
    /\ member[u] \in {"ADMIN", "out"}
    /\ \A w \in Pending : tx[w].user = u => tx[w].op = "invite" /\ tx[w].to = "ADMIN"
=============================================================================
