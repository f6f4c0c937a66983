----------------------------- MODULE TeamRoles ------------------------------
(***************************************************************************)
(* The members of a team and their permission groups (TeamService,         *)
(* RbacService), and the three caches that requests are let in by: the     *)
(* group of a member, its membership (get_team_scope) and the codes of a   *)
(* group.  A writer changes rows, deletes the keys it knows of and commits *)
(* when its request ends; a reader that misses a key reads the committed   *)
(* rows and sets the key in a later step.                                  *)
(*                                                                         *)
(* MEMBER stands for the two system groups that are not ADMIN.  A request  *)
(* that would wait for a row of another is taken to come later.  Left out: *)
(* the version of a group and its excluded attributes, the settings of a   *)
(* team and its deletion, which none of these reads ask about.             *)
(***************************************************************************)
EXTENDS Functions

CONSTANTS
  User,
  Custom,   \* the groups a team may make of its own
  Code,     \* the codes a custom group may be given beyond IMPLICIT_NON_VIEWER_CODES
  Writer,   \* the requests that change something
  Reader,   \* the requests that are let in
  Watched   \* bound: the users whose requests are followed

ASSUME WatchedUsers == Watched \subseteq User

(* What stands for no group, no row and no name is none of these.          *)
ASSUME NamesApart ==
  "-" \notin User /\ Custom \cap {"-", "ADMIN", "MEMBER", "none", "out", "gone"} = {}

VARIABLES
  member,  \* user_team: the group of each user, or what became of the row
  groups,  \* the codes of each custom group ever made, and whether it is there
  tx,      \* what each writer is about to commit
  meta,    \* rbac:u:{uid}:t:{tid}, with whether a write overlapped its read
  scope,   \* team:scope:{uid}:{tid}, likewise
  lists,   \* rbac:g:{gid}, likewise
  read     \* what each reader is about to set

teamVars == <<member, groups, tx, meta, scope, lists, read>>

-----------------------------------------------------------------------------

Group == {"ADMIN", "MEMBER"} \cup Custom

(* A member need not have a group; "gone" is an inactive row, whose group  *)
(* is left out (its foreign key may make the deletion of that group fail). *)
Row == Group \cup {"none", "out", "gone"}

IsMember(u) == member[u] # "out"
IsActive(u) == member[u] \notin {"out", "gone"}
Admins == {u \in User : member[u] = "ADMIN"}
MembersOf(g) == {u \in User : member[u] = g}
HasGroup(g) == g \in Group /\ (g \in Custom => g \in DOMAIN groups /\ groups[g].live)

NoChange == [op |-> "idle", at |-> "idle", user |-> "-", to |-> "-", group |-> "-", codes |-> {}]

NoRead == [at |-> "idle", user |-> "-", group |-> "-", codes |-> {}, over |-> FALSE]

Op == {"invite", "remove", "leave", "assign", "deleteUser", "create", "delete", "codes"}

TeamTypeOK ==
  /\ member \in [User -> Row]
  /\ DOMAIN groups \subseteq Custom
  /\ \A g \in DOMAIN groups : groups[g] \in [codes : SUBSET Code, live : BOOLEAN]
  /\ tx \in [Writer -> [op : Op \cup {"idle"}, at : {"idle", "changed", "invalidated"},
                        user : User \cup {"-"}, to : Row \cup {"-"},
                        group : Group \cup {"-"}, codes : SUBSET Code]]
  /\ \A u \in DOMAIN meta : meta[u].group \in Group \cup {"none"}
  /\ \A g \in DOMAIN lists : lists[g].codes \subseteq Code
  /\ read \in [Reader -> [at : {"idle", "scope", "meta", "fetch", "codes"},
                          user : Watched \cup {"-"}, group : Group \cup {"-", "none"},
                          codes : SUBSET Code, over : BOOLEAN]]

(* create_team: its creator is the administrator.                          *)
TeamInit ==
  /\ \E creator \in User : member = [u \in User |-> IF u = creator THEN "ADMIN" ELSE "out"]
  /\ groups = <<>> /\ meta = <<>> /\ scope = <<>> /\ lists = <<>>
  /\ tx = [w \in Writer |-> NoChange]
  /\ read = [r \in Reader |-> NoRead]

-----------------------------------------------------------------------------
(* Writers *)

Pending == {w \in Writer : tx[w].at # "idle"}
RowFree(u) == \A w \in Pending : tx[w].user # u
GroupFree(g) == \A w \in Pending : tx[w].group # g /\ tx[w].to # g

(* Changes rows, which others see after the commit.  The reads that are    *)
(* under way are from before it.                                           *)
Change(w, c) ==
  /\ tx[w] = NoChange
  /\ tx' = [tx EXCEPT ![w] = [c EXCEPT !.at = "changed"]]
  /\ read' = [r \in Reader |-> IF read[r].at = "idle" THEN NoRead
                               ELSE [read[r] EXCEPT !.over = TRUE]]
  /\ UNCHANGED <<member, groups, meta, scope, lists>>

ChangeRow(w, op, u, to) ==
  RowFree(u) /\ Change(w, [NoChange EXCEPT !.op = op, !.user = u, !.to = to])

ChangeGroup(w, op, g, codes) ==
  GroupFree(g) /\ Change(w, [NoChange EXCEPT !.op = op, !.group = g, !.codes = codes])

(* The foreign key of a row keeps its group from being deleted.            *)
Assignable(g) == g = "none" \/ (HasGroup(g) /\ \A w \in Pending : tx[w].group # g)

InviteMember(w, u, g) ==
  ~IsMember(u) /\ Assignable(g) /\ ChangeRow(w, "invite", u, g)

RemoveMember(w, u) == IsMember(u) /\ ChangeRow(w, "remove", u, "out")

(* leave_team: the last administrator stays.                               *)
LeaveTeam(w, u) ==
  /\ IsMember(u) /\ (u \in Admins => Admins # {u})
  /\ ChangeRow(w, "leave", u, "out")

(* An inactive row is given the group and stays inactive.                  *)
AssignPermissionGroup(w, u, g) ==
  /\ IsMember(u) /\ Assignable(g)
  /\ ChangeRow(w, "assign", u, IF IsActive(u) THEN g ELSE "gone")

(* delete_user_by_actor, for a user who is not the last member: it fails   *)
(* for that one in calling delete_team.                                    *)
DeleteUser(w, u) ==
  /\ IsActive(u) /\ \E v \in User \ {u} : IsActive(v)
  /\ ChangeRow(w, "deleteUser", u, "gone")

CreateGroup(w, g, codes) ==
  g \notin DOMAIN groups /\ ChangeGroup(w, "create", g, codes)

DeleteGroup(w, g) ==
  /\ g \in Custom /\ HasGroup(g) /\ MembersOf(g) = {}
  /\ ChangeGroup(w, "delete", g, {})

SetGroupCodes(w, g, codes) ==
  g \in Custom /\ HasGroup(g) /\ ChangeGroup(w, "codes", g, codes)

(* patch_group_codes with op=remove; op=add inserts the implicit codes a   *)
(* second time and fails on uq_pgperm_team_group_perm.                     *)
PatchGroupCodes(w, g, codes) ==
  /\ g \in Custom /\ HasGroup(g)
  /\ ChangeGroup(w, "codes", g, groups[g].codes \ codes)

-----------------------------------------------------------------------------

(* Mutant: assign_permission_group leaves the key of the member alone.     *)
MetaKeys_NotOnAssign(c) ==
  CASE c.op \in {"invite", "remove", "leave"} -> {c.user}
    [] c.op = "codes" -> MembersOf(c.group)
    [] OTHER -> {}

(* The keys that the request of change c deletes.                          *)
MetaKeys(c) ==
  CASE c.op \in {"invite", "remove", "leave", "assign"} -> {c.user}
    [] c.op = "codes" -> MembersOf(c.group)
    [] OTHER -> {}

ScopeKeys(c) == IF c.op \in {"remove", "leave"} THEN {c.user} ELSE {}

ListKeys(c) == IF c.op \in {"create", "delete", "codes"} THEN {c.group} ELSE {}

Keep(f, keys) == Restrict(f, DOMAIN f \ keys)

(* A key is set, a row inserted or updated.                                *)
Put(f, key, v) == [k \in DOMAIN f \cup {key} |-> IF k = key THEN v ELSE f[k]]

Invalidate(w) ==
  LET c == tx[w] IN
  /\ c.at = "changed"
  /\ meta' = Keep(meta, MetaKeys(c))
  /\ scope' = Keep(scope, ScopeKeys(c))
  /\ lists' = Keep(lists, ListKeys(c))
  /\ tx' = [tx EXCEPT ![w].at = "invalidated"]
  /\ UNCHANGED <<member, groups, read>>

(* get_write_db, when the request is over.                                 *)
Commit(w) ==
  LET c == tx[w] IN
  /\ c.at = "invalidated"
  /\ member' = IF c.user \in User THEN [member EXCEPT ![c.user] = c.to] ELSE member
  /\ groups' = IF c.group \in Custom
                 THEN Put(groups, c.group, [codes |-> c.codes, live |-> c.op # "delete"])
                 ELSE groups
  /\ tx' = [tx EXCEPT ![w] = NoChange]
  /\ UNCHANGED <<meta, scope, lists, read>>

(* Any failure after the change undoes it, and no more.                    *)
Rollback(w) ==
  /\ w \in Pending
  /\ tx' = [tx EXCEPT ![w] = NoChange]
  /\ UNCHANGED <<member, groups, meta, scope, lists, read>>

-----------------------------------------------------------------------------
(* Readers *)

Reads(r, s) ==
  /\ read' = [read EXCEPT ![r] = [s EXCEPT !.over = Pending # {}]]
  /\ UNCHANGED <<member, groups, tx, meta, scope, lists>>

(* get_team_scope asks for either key, then for the row.                   *)
ScopeRead(r, u) ==
  /\ read[r].at = "idle" /\ u \notin DOMAIN meta \cup DOMAIN scope /\ IsActive(u)
  /\ Reads(r, [NoRead EXCEPT !.at = "scope", !.user = u])

ScopeFill(r) ==
  /\ read[r].at = "scope"
  /\ scope' = Put(scope, read[r].user, [over |-> read[r].over])
  /\ read' = [read EXCEPT ![r] = NoRead]
  /\ UNCHANGED <<member, groups, tx, meta, lists>>

(* get_user_perm_meta: a key without a group is as good as none.           *)
MetaRead(r, u) ==
  /\ read[r].at = "idle" /\ IsActive(u)
  /\ u \in DOMAIN meta => meta[u].group = "none"
  /\ Reads(r, [NoRead EXCEPT !.at = "meta", !.user = u, !.group = member[u]])

MetaHit(r, u) ==
  /\ read[r].at = "idle" /\ u \in DOMAIN meta
  /\ meta[u].group \notin {"none", "ADMIN"}
  /\ Reads(r, [NoRead EXCEPT !.at = "fetch", !.group = meta[u].group])

MetaFill(r) ==
  LET s == read[r] IN
  /\ s.at = "meta"
  /\ meta' = Put(meta, s.user, [group |-> s.group, over |-> s.over])
  /\ read' = [read EXCEPT ![r] = IF s.group \in {"none", "ADMIN"} THEN NoRead
                                 ELSE [NoRead EXCEPT !.at = "fetch", !.group = s.group]]
  /\ UNCHANGED <<member, groups, tx, scope, lists>>

(* And the codes of the group, from their key or the rows.                 *)
CodesOf(g) == IF HasGroup(g) /\ g \in Custom THEN groups[g].codes ELSE {}

CodesHit(r) ==
  /\ read[r].at = "fetch" /\ read[r].group \in DOMAIN lists
  /\ read' = [read EXCEPT ![r] = NoRead]
  /\ UNCHANGED <<member, groups, tx, meta, scope, lists>>

CodesRead(r) ==
  LET s == read[r] IN
  /\ s.at = "fetch" /\ s.group \notin DOMAIN lists
  /\ Reads(r, [s EXCEPT !.at = "codes", !.codes = CodesOf(s.group)])

CodesFill(r) ==
  LET s == read[r] IN
  /\ s.at = "codes"
  /\ lists' = Put(lists, s.group, [codes |-> s.codes, over |-> s.over])
  /\ read' = [read EXCEPT ![r] = NoRead]
  /\ UNCHANGED <<member, groups, tx, meta, scope>>

-----------------------------------------------------------------------------
(* Every key is set with a TTL.                                            *)

(* Mutant: the key is set without one.                                     *)
ExpireMeta_Never(u) ==
  /\ u \notin User /\ meta' = Keep(meta, {u})
  /\ UNCHANGED <<member, groups, tx, scope, lists, read>>

ExpireMeta(u) ==
  /\ u \in DOMAIN meta /\ meta' = Keep(meta, {u})
  /\ UNCHANGED <<member, groups, tx, scope, lists, read>>

ExpireScope(u) ==
  /\ u \in DOMAIN scope /\ scope' = Keep(scope, {u})
  /\ UNCHANGED <<member, groups, tx, meta, lists, read>>

ExpireList(g) ==
  /\ g \in DOMAIN lists /\ lists' = Keep(lists, {g})
  /\ UNCHANGED <<member, groups, tx, meta, scope, read>>

-----------------------------------------------------------------------------

Write(w) ==
  \/ \E u \in User : RemoveMember(w, u) \/ LeaveTeam(w, u) \/ DeleteUser(w, u)
  \/ \E u \in User, g \in Group \cup {"none"} :
       InviteMember(w, u, g) \/ AssignPermissionGroup(w, u, g)
  \/ \E g \in Custom : DeleteGroup(w, g)
  \/ \E g \in Custom, codes \in SUBSET Code :
       CreateGroup(w, g, codes) \/ SetGroupCodes(w, g, codes) \/ PatchGroupCodes(w, g, codes)

Answer(r) == ScopeFill(r) \/ MetaFill(r) \/ CodesHit(r) \/ CodesRead(r) \/ CodesFill(r)

TeamNext ==
  \/ \E w \in Writer : Write(w) \/ Invalidate(w) \/ Commit(w) \/ Rollback(w)
  \/ \E r \in Reader : Answer(r)
  \/ \E r \in Reader, u \in Watched : ScopeRead(r, u) \/ MetaRead(r, u) \/ MetaHit(r, u)
  \/ \E u \in Watched : ExpireMeta(u) \/ ExpireScope(u)
  \/ \E g \in Group : ExpireList(g)

(* A request that was let in is answered, and Redis drops a key when its   *)
(* TTL has run out; writers promise nothing.                               *)
TeamSpec ==
  /\ TeamInit /\ [][TeamNext]_teamVars
  /\ \A r \in Reader : WF_teamVars(Answer(r))
  /\ \A u \in Watched : WF_teamVars(ExpireMeta(u)) /\ WF_teamVars(ExpireScope(u))
  /\ \A g \in Group : WF_teamVars(ExpireList(g))

-----------------------------------------------------------------------------

TrueMeta(u) == meta[u].group = member[u]
TrueScope(u) == IsActive(u)
TrueList(g) == lists[g].codes = CodesOf(g)

(* The invalidation of every writer reaches every key that its change      *)
(* makes untrue: a key that was read while nothing was being written is    *)
(* true at any later time, but for a deleted user.  (A key read between    *)
(* the invalidation and the commit is not, until it expires.)              *)
SerialIsTrue ==
  /\ \A u \in DOMAIN meta : ~meta[u].over /\ member[u] # "gone" => TrueMeta(u)
  /\ \A u \in DOMAIN scope : ~scope[u].over /\ member[u] # "gone" => TrueScope(u)
  /\ \A g \in DOMAIN lists : ~lists[g].over => TrueList(g)

AllTrue ==
  /\ \A u \in DOMAIN meta : TrueMeta(u)
  /\ \A u \in DOMAIN scope : TrueScope(u)
  /\ \A g \in DOMAIN lists : TrueList(g)

(* Once nothing is written any more every key becomes true and stays so,   *)
(* those too that were set late by a reader which the writer did not see.  *)
StaleEnds == <>[](Pending = {}) => <>[]AllTrue
=============================================================================
