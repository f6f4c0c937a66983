------------------------------- MODULE Files --------------------------------
(***************************************************************************)
(* FileService: the rows of file_asset and the objects of the store, for   *)
(* the files of one user (team_id NULL, one prefix of keys).               *)
(*                                                                         *)
(* The database is transactional and the store is not.  A request deletes  *)
(* and inserts rows in its transaction, which get_write_db commits after   *)
(* the request; the objects it copies and deletes are there and gone at    *)
(* once.  The program is one process (Dockerfile) and the store client     *)
(* does not yield, so what a request does between two statements of the    *)
(* database is one step.  A key is a file name and the random suffixes     *)
(* that the name was given since, each the id of the row it was drawn for. *)
(*                                                                         *)
(* misused is history, no action reads it: the keys of objects that were   *)
(* taken for uploads, and those that were put over because the look-up of  *)
(* the store failed.                                                       *)
(*                                                                         *)
(* Operations that nothing calls are left out: copy_files, delete_scope,   *)
(* delete_team_files, reactivate_by_object and delete_all_in_team.         *)
(***************************************************************************)
EXTENDS Naturals, FiniteSets, Sequences

CONSTANTS
  Request,       \* the requests that may be open at once
  Temp,          \* keys under tmp/, each for one upload
  NoTemp,        \* the source of a row that is made from no upload
  Name,          \* file names
  NameOf(_),     \* the name of a temp key, its last segment
  Avatar,        \* the name a profile image of a provider is given
  MaxRows,       \* bound: how many rows are ever inserted
  LateFailures   \* may a request fail after it has deleted objects?

ASSUME FileBounds == MaxRows \in Nat /\ LateFailures \in BOOLEAN
ASSUME Names == Avatar \in Name /\ NoTemp \notin Temp /\ \A t \in Temp : NameOf(t) \in Name

VARIABLES
  registered,  \* the account exists and is not deleted
  asset,       \* the committed rows of file_asset
  issued,      \* how many row ids were given out
  store,       \* the keys under the prefix that have an object
  temps,       \* the keys under tmp/ that have one
  misused,
  request

vars == <<registered, asset, issued, store, temps, misused, request>>

-----------------------------------------------------------------------------

RowId == 1 .. MaxRows
Key   == [name : Name, suffixes : SUBSET RowId]

ASSUME Apart == NoTemp \notin Key /\ Temp \cap Key = {}

(* A row: file_asset.logical_path and is_active.                           *)
Row == [key : Key, is_active : BOOLEAN]

(* What a request may name as an upload: nothing checks that it is one.    *)
Source == Temp \cup Key

(* A row about to be inserted, with the object it was made from.           *)
NewRow   == [id : RowId, key : Key, from : Source \cup {NoTemp}]

Idle == [step |-> "idle", remove |-> {}, add |-> <<>>, paths |-> {},
         deleted |-> {}, new |-> {}]

TypeOK ==
  /\ registered \in BOOLEAN
  /\ DOMAIN asset \subseteq RowId /\ \A i \in DOMAIN asset : asset[i] \in Row
  /\ issued \in 0 .. MaxRows
  /\ store \cup misused \subseteq Key /\ temps \subseteq Temp
  /\ \A r \in Request :
       /\ request[r].step \in {"idle", "delete", "place", "flush", "commit"}
       /\ request[r].remove \cup request[r].deleted \subseteq RowId
       /\ request[r].paths \subseteq Key
       /\ request[r].new \subseteq NewRow

Init ==
  /\ registered = FALSE
  /\ asset = <<>>
  /\ issued = 0
  /\ store = {} /\ temps = {} /\ misused = {}
  /\ request = [r \in Request |-> Idle]

At(r, step) == request[r].step = step

(* The rows that the open transactions have deleted or changed.            *)
Locked == UNION {request[r].deleted : r \in Request}

-----------------------------------------------------------------------------
(* Placing objects *)

(* The key of an object under the name of the file it is made from, the    *)
(* last segment of the source.                                             *)
Plain(source) == IF source \in Temp THEN [name |-> NameOf(source), suffixes |-> {}] ELSE source

(* Mutant: the destination is not looked up first.                         *)
DestinationKey_Blind(seen, plain, i) == plain

(* A random suffix is added if _object_exists.                             *)
DestinationKey(seen, plain, i) ==
  [plain EXCEPT !.suffixes = IF plain \in seen THEN @ \cup {i} ELSE @]

(* The objects that the loop of commit over its keys has before it when it *)
(* comes to the n-th: an earlier copy is in the way of a later one, and    *)
(* there whether it was put under the plain key or beside what was there.  *)
Objects(keys, copied, n) == store \cup {Plain(keys[m]) : m \in {l \in copied : l < n}}

(* The places in the list that can be copied.  One whose object is gone is *)
(* skipped, and one that the store refuses to read or to put gets no row.  *)
Copies(keys) ==
  {copied \in SUBSET DOMAIN keys :
     \A n \in copied : keys[n] \in temps \cup Objects(keys, copied, n)}

(* What _object_exists sees of the objects: nothing where it fails, for    *)
(* any error of the store is taken for "not there".                        *)
Seen(keys, copied, unseen, n) == IF n \in unseen THEN {} ELSE Objects(keys, copied, n)

(* The rows made of them, one after the other.                             *)
Placed(keys, copied, unseen) ==
  LET id(n) == issued + Cardinality({m \in copied : m < n}) + 1
  IN  {[id |-> id(n),
        key |-> DestinationKey(Seen(keys, copied, unseen, n), Plain(keys[n]), id(n)),
        from |-> keys[n]] : n \in copied}

(* The keys of objects taken for uploads, and those put over.              *)
Misused(keys, copied, unseen) ==
  {keys[n] : n \in {m \in copied : keys[m] \in Key}}
  \cup {Plain(keys[n]) : n \in {m \in copied \cap unseen :
                                   Plain(keys[m]) \in Objects(keys, copied, m)}}

(* Mutant: every temp key of the request is deleted, copied or not.        *)
TempsOf_All(q) == {q.add[n] : n \in DOMAIN q.add}

(* The temp keys that commit deletes at its end.                           *)
TempsOf(q) == {n.from : n \in q.new} \ {NoTemp}

-----------------------------------------------------------------------------
(* Requests *)

(* The client puts a file to the URL of generate_upload_urls, which does   *)
(* not pass through the program and is good for some time.                 *)
Upload(t) ==
  /\ registered
  /\ t \notin temps
  /\ temps' = temps \cup {t}
  /\ UNCHANGED <<registered, asset, issued, store, misused, request>>

(* The lists of keys of one request: two at most, which is enough for one  *)
(* to be in the way of the other.  The keys are not held to be under tmp/: *)
(* one may be that of a file (its logical_path is shown with the row).     *)
Lists == UNION {[1 .. n -> Temp \cup store] : n \in 0 .. 2}

(* commit: the rows to remove are read for their paths; DELETE /files is   *)
(* one without uploads (_remove_files).  The rows are not held to be those *)
(* of the user who asks, so that the requests without uploads are those of *)
(* anybody.                                                                *)
Commit(r, remove, add) ==
  /\ registered /\ At(r, "idle")
  /\ remove # {} \/ add # <<>>
  /\ remove \subseteq DOMAIN asset
  /\ request' = [request EXCEPT ![r] =
       [Idle EXCEPT !.step = IF remove = {} THEN "place" ELSE "delete",
                    !.remove = remove, !.add = add,
                    !.paths = {asset[i].key : i \in remove}]]
  /\ UNCHANGED <<registered, asset, issued, store, temps, misused>>

(* A commit of another user that names a file of this one as an upload:    *)
(* the object is copied under his prefix and deleted.                      *)
CommitElsewhere(key) ==
  /\ key \in store
  /\ store' = store \ {key}
  /\ misused' = misused \cup {key}
  /\ UNCHANGED <<registered, asset, issued, temps, request>>

(* The rows are deleted, after waiting for whoever holds them.             *)
DeleteRows(r) ==
  LET there == request[r].remove \cap DOMAIN asset IN
  /\ At(r, "delete")
  /\ there \cap Locked = {}
  /\ request' = [request EXCEPT ![r].step = "place", ![r].deleted = there]
  /\ UNCHANGED <<registered, asset, issued, store, temps, misused>>

(* The uploads are copied under the prefix.                                *)
Place(r, copied, unseen) ==
  LET new == Placed(request[r].add, copied, unseen) IN
  /\ At(r, "place")
  /\ issued + Cardinality(copied) <= MaxRows
  /\ issued' = issued + Cardinality(copied)
  /\ store' = store \cup {n.key : n \in new}
  /\ misused' = misused \cup Misused(request[r].add, copied, unseen)
  /\ request' = [request EXCEPT ![r].step = "flush", ![r].new = new]
  /\ UNCHANGED <<registered, asset, temps>>

(* The flush went through: the objects of the removed rows and the uploads *)
(* are deleted, except those the store refuses to delete (kept), before    *)
(* the transaction is committed.                                           *)
FlushAndClean(r, kept) ==
  /\ At(r, "flush")
  /\ store' = store \ ((request[r].paths \cup TempsOf(request[r])) \ kept)
  /\ temps' = temps \ (TempsOf(request[r]) \ kept)
  /\ request' = [request EXCEPT ![r].step = "commit"]
  /\ UNCHANGED <<registered, asset, issued, misused>>

(* direct_upload (the documents of a leg): the row is flushed, then the    *)
(* object is put under a key of its own.                                   *)
DirectUpload(r, name) ==
  LET i   == issued + 1
      key == [name |-> name, suffixes |-> {i}]
  IN
  /\ registered /\ At(r, "idle") /\ i <= MaxRows
  /\ issued' = i
  /\ store' = store \cup {key}
  /\ request' = [request EXCEPT ![r] =
       [Idle EXCEPT !.step = "commit", !.new = {[id |-> i, key |-> key, from |-> NoTemp]}]]
  /\ UNCHANGED <<registered, asset, temps, misused>>

(* save_oauth_profile_image, in the sign-up of the account, before any     *)
(* other request of it.                                                    *)
SaveProfileImage(r) ==
  LET i   == issued + 1
      key == DestinationKey(store, [name |-> Avatar, suffixes |-> {}], i)
  IN
  /\ ~registered /\ issued = 0 /\ i <= MaxRows
  /\ \A q \in Request : At(q, "idle")
  /\ issued' = i
  /\ store' = store \cup {key}
  /\ request' = [request EXCEPT ![r] =
       [Idle EXCEPT !.step = "commit", !.new = {[id |-> i, key |-> key, from |-> NoTemp]}]]
  /\ UNCHANGED <<registered, asset, temps, misused>>

(* A sign-up without a picture.                                            *)
SignUp ==
  /\ ~registered /\ issued = 0
  /\ registered' = TRUE
  /\ UNCHANGED <<asset, issued, store, temps, misused, request>>

-----------------------------------------------------------------------------
(* The end of a request *)

(* get_write_db commits.                                                   *)
Inserted(new) == {n.id : n \in new}

CommitSession(r) ==
  LET q == request[r]
      kept == DOMAIN asset \ q.deleted
  IN
  /\ At(r, "commit")
  /\ registered' = TRUE
  /\ asset' = [i \in kept \cup Inserted(q.new) |->
                 IF i \in kept THEN asset[i]
                 ELSE [key |-> (CHOOSE n \in q.new : n.id = i).key, is_active |-> TRUE]]
  /\ request' = [request EXCEPT ![r] = Idle]
  /\ UNCHANGED <<issued, store, temps, misused>>

(* It fails, or the process dies: what the request did to the store        *)
(* remains.  Before the objects are deleted any statement may fail;        *)
(* after, only the rest of the request and the commit.  A sign-up that      *)
(* fails is not repeated under this user id.                               *)
Rollback(r) ==
  /\ ~At(r, "idle")
  /\ At(r, "commit") /\ request[r].paths # {} => LateFailures
  /\ request' = [request EXCEPT ![r] = Idle]
  /\ UNCHANGED <<registered, asset, issued, store, temps, misused>>

(* delete_user_by_actor -> soft_deactivate_by_object: the rows of the user *)
(* are deactivated, and the objects stay.                                  *)
SoftDeactivate ==
  /\ registered
  /\ Locked = {} /\ \A r \in Request : At(r, "idle")
  /\ registered' = FALSE
  /\ asset' = [i \in DOMAIN asset |-> [asset[i] EXCEPT !.is_active = FALSE]]
  /\ UNCHANGED <<issued, store, temps, misused, request>>

Next ==
  \/ SignUp
  \/ \E t \in Temp : Upload(t)
  \/ \E r \in Request :
       \/ \E remove \in SUBSET RowId : \E add \in Lists : Commit(r, remove, add)
       \/ DeleteRows(r)
       \/ \E copied \in Copies(request[r].add) : \E unseen \in SUBSET copied : Place(r, copied, unseen)
       \/ \E kept \in SUBSET (request[r].paths \cup TempsOf(request[r])) : FlushAndClean(r, kept)
       \/ \E name \in Name : DirectUpload(r, name)
       \/ SaveProfileImage(r)
       \/ CommitSession(r)
       \/ Rollback(r)
  \/ \E key \in store : CommitElsewhere(key)
  \/ SoftDeactivate

Spec == Init /\ [][Next]_vars

(* What the properties below take for granted: requests that remove the    *)
(* same row do not overlap.                                                *)
RemovalsApart ==
  \A r, q \in Request : r # q => request[r].remove \cap request[q].remove = {}

-----------------------------------------------------------------------------

(* Rows whose objects no request has deleted ahead of its commit.          *)
Standing == DOMAIN asset \ UNION {request[r].deleted : r \in {q \in Request : At(q, "commit")}}

(* Whoever is shown a file can fetch it, and fetches that file: a row has  *)
(* its object, which is the object of no other row, so that the removal of *)
(* one file is never the loss of another (FileService, "404 방지").  Only   *)
(* a request that names the file as an upload, or one whose look-up of the *)
(* store failed and that put over it, can take it away.                    *)
RowsHaveObjects ==
  /\ \A i \in Standing : asset[i].key \in store \cup misused
  /\ \A i, j \in Standing : asset[i].key = asset[j].key => i = j \/ asset[i].key \in misused

(* An upload is taken away only by a request that has put a copy of it     *)
(* under a row it is about to commit (commit, steps 4 to 8), which is      *)
(* there, but for a key that was misused: a copy put over the object of a  *)
(* file that the same request removes is deleted with it.                  *)
UploadsSurvive ==
  [][\A t \in temps \ temps' :
        \E r \in Request : \E n \in request[r].new :
           n.from = t /\ n.key \in store' \cup misused']_vars
=============================================================================
