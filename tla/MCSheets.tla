------------------------------ MODULE MCSheets ------------------------------
(***************************************************************************)
(* A small instance of RateSheets for TLC.                                 *)
(***************************************************************************)
EXTENDS RateSheets

(* Bound of the run: the groups of the sheets stay as they were created,   *)
(* and alive, and the sheets price by the zip.                             *)
PlainSheets ==
  /\ \A g \in 1 .. groups :
       /\ group[g].is_active /\ group[g].method = "ZIP"
       /\ ~group[g].is_default /\ ~group[g].inherits_default
  /\ \A i \in 1 .. sheets : sheet[i].kind = "ZIP"
=============================================================================
