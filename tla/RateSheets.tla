----------------------------- MODULE RateSheets -----------------------------
(***************************************************************************)
(* Rate sheets and the versions of their prices: RateSheetService,         *)
(* RateSheetRepository and rate_sheet/versioning.py.  A sheet is the slot  *)
(* (group, kind, service type) of a rate group; a cell of it is a lane,    *)
(* which has no direction (lane.normalize_cell), and a cell has a version  *)
(* for each period of days.  A version is inserted open-ended, closed the  *)
(* day before the next one starts, and replaced (is_active = False) by one *)
(* that starts on the same day.                                            *)
(*                                                                         *)
(* A request is one step: requests that overlap are left out, see README.  *)
(* move_type is a second coordinate of the slot like service_type, and is  *)
(* kept to one value.  A version that was replaced is never read again,    *)
(* so the model keeps the active ones only, as a set of rows.              *)
(***************************************************************************)
EXTENDS RateGroups

CONSTANTS
  Cell,        \* the lanes that are priced; those of a unit sheet among them
  Amount,      \* the prices
  NoAmount,    \* an entry that has only a price of the other kind
  Unset,       \* no price was ever set
  Service,     \* service types
  NoService,   \* service_type IS NULL
  MaxSheets    \* bound: how many sheets are ever created

ASSUME SheetBounds == MaxSheets \in Nat
ASSUME NullPrices ==
  NoAmount \notin Amount /\ Unset \notin Amount \cup {NoAmount}
  /\ NoService \notin Service

VARIABLES
  sheet,    \* rate_sheet
  sheets,   \* how many sheets were inserted
  version   \* the active rows of rate_entry

sheetVars == <<sheet, sheets, version>>

-----------------------------------------------------------------------------

SheetId == 1 .. MaxSheets
Value   == Amount \cup {NoAmount}

Matrix == {"ZIP", "CITY"}

SheetRow ==
  [is_active : BOOLEAN, rate_group : Group \cup {0}, kind : RateMethod,
   service : Service \cup {NoService}]

VersionRow ==
  [sheet : SheetId, cell : Cell, amount : Value, from : Day, to : 1 .. Forever]

NoSheet == [is_active |-> FALSE, rate_group |-> 0, kind |-> "ZIP", service |-> NoService]

SheetsTypeOK ==
  /\ sheet \in [SheetId -> SheetRow]
  /\ sheets \in 0 .. MaxSheets
  /\ version \subseteq VersionRow

SheetsInit ==
  /\ GroupsInit
  /\ sheet = [i \in SheetId |-> NoSheet]
  /\ sheets = 0
  /\ version = {}

-----------------------------------------------------------------------------
(* Sheets *)

FindSlot(g, k, s) ==
  {i \in 1 .. sheets : sheet[i].is_active /\ sheet[i].rate_group = g
                         /\ sheet[i].kind = k /\ sheet[i].service = s}

(* uq_rate_sheet_slot counts deleted sheets and does not bind when one of  *)
(* its columns is NULL, as the service type may be and as both are on the  *)
(* sheets that pay by the mile or by the hour.                             *)
SlotKeyFree(g, k, s) ==
  s # NoService =>
     \A i \in 1 .. sheets :
        <<sheet[i].rate_group, sheet[i].kind, sheet[i].service>> # <<g, k, s>>

(* RateSheetCreateRequest: only a matrix sheet has a service type.         *)
SheetRequest(k, s) == k \notin Matrix => s = NoService

InsertSheet(g, k, s) ==
  /\ sheets < MaxSheets
  /\ SlotKeyFree(g, k, s)
  /\ sheets' = sheets + 1
  /\ sheet' = [sheet EXCEPT ![sheets + 1] =
                 [is_active |-> TRUE, rate_group |-> g, kind |-> k, service |-> s]]

CreateSheet(g, k, s) ==
  /\ g <= groups
  /\ SheetRequest(k, s)
  /\ FindSlot(g, k, s) = {}
  /\ InsertSheet(g, k, s)
  /\ UNCHANGED version

GetSheet(i) == i <= sheets /\ sheet[i].is_active

DeleteSheet(i) ==
  /\ GetSheet(i)
  /\ sheet' = [sheet EXCEPT ![i].is_active = FALSE]
  /\ UNCHANGED <<sheets, version>>

-----------------------------------------------------------------------------
(* Versions *)

OfCell(vs, i, c) == {v \in vs : v.sheet = i /\ v.cell = c}

(* find_open_entry: the version in force on d, the latest one if there     *)
(* were several.                                                           *)
FindOpenEntry(vs, i, c, d) ==
  LET covers == {v \in OfCell(vs, i, c) : v.from <= d /\ d <= v.to} IN
  {v \in covers : \A u \in covers : u.from <= v.from}

(* find_next_entry: the first version that starts after d.                 *)
FindNextEntry(vs, i, c, d) ==
  LET later == {v \in OfCell(vs, i, c) : v.from > d} IN
  {v \in later : \A u \in later : v.from <= u.from}

DayBefore(vs) == (CHOOSE d \in {v.from : v \in vs} : TRUE) - 1

(* Mutant: the new version is left open-ended.                             *)
WithRate_Uncapped(vs, i, c, d, a) ==
  LET open   == FindOpenEntry(vs, i, c, d)
      closed == {[v EXCEPT !.to = d - 1] : v \in {u \in open : u.from # d}}
  IN  (vs \ open) \cup closed \cup
      {[sheet |-> i, cell |-> c, amount |-> a, from |-> d, to |-> Forever]}

(* Mutant: a version that starts on the day is deleted with those after.   *)
WithRate_Truncates(vs, i, c, d, a) ==
  LET open   == FindOpenEntry(vs, i, c, d)
      closed == {[v EXCEPT !.to = d - 1] : v \in {u \in open : u.from # d}}
  IN  (vs \ (open \cup {v \in OfCell(vs, i, c) : v.from > d})) \cup closed \cup
      {[sheet |-> i, cell |-> c, amount |-> a, from |-> d, to |-> Forever]}

(* versioning.set_rate on the versions vs: the version in force on d is    *)
(* closed, or replaced if it starts on d, and the new one is capped by the *)
(* next.                                                                   *)
WithRate(vs, i, c, d, a) ==
  LET open   == FindOpenEntry(vs, i, c, d)
      closed == {[v EXCEPT !.to = d - 1] : v \in {u \in open : u.from # d}}
      next   == FindNextEntry(vs, i, c, d)
  IN  (vs \ open) \cup closed \cup
      {[sheet |-> i, cell |-> c, amount |-> a, from |-> d,
        to |-> IF next = {} THEN Forever ELSE DayBefore(next)]}

Rate == [cell : Cell, day : Day, amount : Value]

WithRow(vs, i, r) == WithRate(vs, i, r.cell, r.day, r.amount)

SetRate(i, r) ==
  /\ GetSheet(i)
  /\ version' = WithRow(version, i, r)
  /\ UNCHANGED <<sheet, sheets>>

(* set_rate_bulk: its rows one after the other.  Rows about different      *)
(* lanes commute, so a batch is two rows about one lane.                   *)
SetRateBulk(i, r, q) ==
  /\ GetSheet(i)
  /\ q.cell = r.cell
  /\ version' = WithRow(WithRow(version, i, r), i, q)
  /\ UNCHANGED <<sheet, sheets>>

SheetsNext ==
  \/ \E g \in Group, k \in RateMethod, s \in Service \cup {NoService} :
        CreateSheet(g, k, s)
  \/ \E i \in SheetId : DeleteSheet(i)
  \/ \E i \in SheetId, r \in Rate : SetRate(i, r)
  \/ \E i \in SheetId, r \in Rate, d \in Day, a \in Value :
        SetRateBulk(i, r, [r EXCEPT !.day = d, !.amount = a])

SheetsSpec ==
  /\ SheetsInit
  /\ [][\/ (GroupsNext \/ AssignmentsNext) /\ UNCHANGED sheetVars
        \/ SheetsNext /\ UNCHANGED groupVars]_<<groupVars, sheetVars>>

-----------------------------------------------------------------------------
(* What the versions stand for *)

(* The announcements of a price list: a version stands for the price that  *)
(* was set on the day it starts.                                           *)
Announced ==
  [x \in SheetId \X Cell |-> [d \in Day |->
     LET at == {v \in OfCell(version, x[1], x[2]) : v.from = d} IN
     IF at = {} THEN Unset ELSE (CHOOSE v \in at : TRUE).amount]]

List == INSTANCE PriceList WITH
          Slot <- SheetId \X Cell, LastDay <- LastDay, Price <- Value,
          Unannounced <- Unset, MaxBatch <- 2, announced <- Announced

(* The versions implement a price list: a request announces the prices it  *)
(* names, and no announcement is ever lost, whatever the order in which    *)
(* days are priced (versioning.set_rate, set_rate_bulk).                   *)
ImplementsPriceList == List!Spec

(* Whatever the order in which the days were priced, the version in force  *)
(* on a day is the one that was set latest in the calendar: versions do    *)
(* not overlap, and leave no day uncovered after the first.                *)
LookupIsLatest ==
  \A i \in SheetId, c \in Cell, d \in Day :
     LET open == {v \in OfCell(version, i, c) : v.from <= d /\ d <= v.to} IN
     /\ Cardinality(open) <= 1
     /\ {v.amount : v \in open} = {List!PriceOn(<<i, c>>, d)} \ {Unset}
=============================================================================
