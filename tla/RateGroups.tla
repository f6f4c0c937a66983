----------------------------- MODULE RateGroups -----------------------------
(***************************************************************************)
(* Rate groups and who is paid by them: RateGroupService and               *)
(* DriverRateAssignmentService.  A group pays by one method; the default   *)
(* group of a method prices what a group that inherits leaves open, and    *)
(* the default group of zips prices the drivers without an assignment.     *)
(* Names, templates and notes are left out.                                *)
(***************************************************************************)
EXTENDS Naturals, FiniteSets

CONSTANTS
  Driver,
  LastDay,         \* bound: the days are 1 .. LastDay
  MaxGroups,       \* bound: how many groups are ever created
  MaxAssignments   \* bound: how many assignments are ever created

ASSUME GroupBounds ==
  LastDay \in Nat /\ MaxGroups \in Nat /\ MaxAssignments \in Nat

VARIABLES
  group,       \* rate_group
  groups,      \* how many groups were inserted
  assignment,  \* the active rows of driver_rate_assignment, by id
  assigned     \* how many assignments were inserted

groupVars == <<group, groups, assignment, assigned>>

-----------------------------------------------------------------------------

Day          == 1 .. LastDay
Forever      == LastDay + 1     \* effective_to IS NULL
Group        == 1 .. MaxGroups
AssignmentId == 1 .. MaxAssignments
RateMethod   == {"ZIP", "CITY", "MILE", "HOURLY"}

GroupRow ==
  [is_active : BOOLEAN, method : RateMethod, is_default : BOOLEAN,
   inherits_default : BOOLEAN]

NoGroup ==
  [is_active |-> FALSE, method |-> "ZIP", is_default |-> FALSE,
   inherits_default |-> FALSE]

AssignmentRow ==
  [driver : Driver, group : Group, from : Day, to : 1 .. Forever]

GroupsTypeOK ==
  /\ group \in [Group -> GroupRow]
  /\ groups \in 0 .. MaxGroups
  /\ assigned \in 0 .. MaxAssignments
  /\ DOMAIN assignment \subseteq AssignmentId
  /\ \A a \in DOMAIN assignment : assignment[a] \in AssignmentRow

GroupsInit ==
  /\ group = [g \in Group |-> NoGroup]
  /\ groups = 0
  /\ assignment = [a \in {} |-> NoGroup]
  /\ assigned = 0

-----------------------------------------------------------------------------
(* Groups *)

(* clear_default_for_method: deleted groups lose the flag as well.         *)
ClearDefault(gs, m, except) ==
  [g \in Group |-> IF g # except /\ gs[g].method = m
                   THEN [gs[g] EXCEPT !.is_default = FALSE] ELSE gs[g]]

CreateGroup(m, default, inherits) ==
  /\ groups < MaxGroups
  /\ groups' = groups + 1
  /\ group' =
       [(IF default THEN ClearDefault(group, m, groups + 1) ELSE group)
          EXCEPT ![groups + 1] =
            [is_active |-> TRUE, method |-> m, is_default |-> default,
             inherits_default |-> inherits]]
  /\ UNCHANGED <<assignment, assigned>>

(* update: m, default and inherits are what the group will have, the ones  *)
(* it has where the payload leaves them out; says is whether the payload   *)
(* sets is_default.  The others of the method lose the flag only then.     *)
UpdateGroup(g, m, default, inherits, says) ==
  /\ group[g].is_active
  /\ default # group[g].is_default => says
  /\ group' =
       [(IF says /\ default THEN ClearDefault(group, m, g) ELSE group)
          EXCEPT ![g].method = m, ![g].is_default = default,
                 ![g].inherits_default = inherits]
  /\ UNCHANGED <<groups, assignment, assigned>>

DeleteGroup(g) ==
  /\ group[g].is_active
  /\ group' = [group EXCEPT ![g].is_active = FALSE]
  /\ UNCHANGED <<groups, assignment, assigned>>

(* get_default_for_method: one of the active default groups, whichever the *)
(* database returns first; 0 for none.                                     *)
DefaultsFor(m) ==
  LET gs == {g \in Group : group[g].is_active /\ group[g].is_default
                             /\ group[g].method = m}
  IN  IF gs = {} THEN {0} ELSE gs

-----------------------------------------------------------------------------
(* Assignments: nothing relates the periods of a driver to one another.    *)

CreateAssignment(d, g, from, to) ==
  /\ assigned < MaxAssignments
  /\ g <= groups
  /\ assigned' = assigned + 1
  /\ assignment' =
       [a \in DOMAIN assignment \cup {assigned + 1} |->
          IF a = assigned + 1 THEN [driver |-> d, group |-> g, from |-> from, to |-> to]
          ELSE assignment[a]]
  /\ UNCHANGED <<group, groups>>

UpdateAssignment(a, g, from, to) ==
  /\ a \in DOMAIN assignment
  /\ g <= groups
  /\ assignment' = [assignment EXCEPT ![a].group = g, ![a].from = from, ![a].to = to]
  /\ UNCHANGED <<group, groups, assigned>>

DeleteAssignment(a) ==
  /\ a \in DOMAIN assignment
  /\ assignment' = [b \in DOMAIN assignment \ {a} |-> assignment[b]]
  /\ UNCHANGED <<group, groups, assigned>>

(* get_active_for_driver: an assignment of the driver in force on the day, *)
(* one of those that started last.                                         *)
ActiveForDriver(d, day) ==
  LET covers == {a \in DOMAIN assignment :
                   /\ assignment[a].driver = d
                   /\ assignment[a].from <= day /\ day <= assignment[a].to}
  IN  {a \in covers : \A b \in covers : assignment[b].from <= assignment[a].from}

GroupsNext ==
  \/ \E m \in RateMethod, default, inherits \in BOOLEAN :
        CreateGroup(m, default, inherits)
  \/ \E g \in Group, m \in RateMethod, default, inherits, says \in BOOLEAN :
        UpdateGroup(g, m, default, inherits, says)
  \/ \E g \in Group : DeleteGroup(g)

AssignmentsNext ==
  \/ \E d \in Driver, g \in Group, from \in Day, to \in 1 .. Forever :
        CreateAssignment(d, g, from, to)
  \/ \E a \in AssignmentId, g \in Group, from \in Day, to \in 1 .. Forever :
        UpdateAssignment(a, g, from, to)
  \/ \E a \in AssignmentId : DeleteAssignment(a)

GroupsSpec == GroupsInit /\ [][GroupsNext \/ AssignmentsNext]_groupVars
=============================================================================
