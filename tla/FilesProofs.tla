----------------------------- MODULE FilesProofs -----------------------------
(***************************************************************************)
(* Theorems about the files of a user, for any number of requests, uploads *)
(* and rows: a row that stands has its object, and an upload goes only     *)
(* when a copy of it is there, but for the keys that were misused.         *)
(***************************************************************************)
EXTENDS Files, FiniteSetTheorems, TLAPS

USE FileBounds, Names, Apart

-----------------------------------------------------------------------------
(* The inductive invariant *)

RequestSet ==
  [step : {"idle", "delete", "place", "flush", "commit"}, remove : SUBSET RowId, add : Seq(Source),
   paths : SUBSET Key, deleted : SUBSET RowId, new : SUBSET NewRow]

Typed ==
  /\ registered \in BOOLEAN
  /\ issued \in 0 .. MaxRows
  /\ DOMAIN asset \subseteq 1 .. issued /\ \A i \in DOMAIN asset : asset[i] \in Row
  /\ store \subseteq Key /\ temps \subseteq Temp /\ misused \subseteq Key
  /\ request \in [Request -> RequestSet]

(* A suffix is the id of a row that was given out, in the keys that have   *)
(* an object and in those that are named as uploads.                       *)
Given(k) == k.suffixes \subseteq 1 .. issued

GivenAll(keys) == \A n \in DOMAIN keys : keys[n] \in Key => Given(keys[n])

Suffixed ==
  /\ \A k \in store : Given(k)
  /\ \A r \in Request : GivenAll(request[r].add)

(* What a request has read of the rows it removes is still so: nobody else *)
(* removes them.                                                           *)
Removes(q) ==
  /\ q.remove \subseteq DOMAIN asset
  /\ q.paths = {asset[i].key : i \in q.remove}
  /\ q.deleted = IF q.step \in {"idle", "delete"} THEN {} ELSE q.remove
  /\ q.step = "idle" => q.remove = {}

(* What it is about to insert has its object, under an id and a key of its *)
(* own, if the key was not misused; and it is made of an upload.           *)
Inserts(q) ==
  /\ q.step \in {"idle", "delete", "place"} => q.new = {}
  /\ \A n \in q.new : /\ n.id \in 1 .. issued /\ n.id \notin DOMAIN asset
                      /\ n.key \in store \cup misused
                      /\ n.from \in Key => n.from \in misused
  /\ \A m, n \in q.new : /\ m.id = n.id => m = n
                         /\ m.key = n.key => m = n \/ m.key \in misused

(* Nor does another request insert them ...                                *)
InsertsApart ==
  \A r, q \in Request : r # q =>
    \A m \in request[r].new, n \in request[q].new :
      m.id # n.id /\ (m.key # n.key \/ m.key \in misused)

(* ... or a row that stands have them.                                     *)
StandsApart ==
  \A i \in Standing : \A r \in Request : \A n \in request[r].new :
    n.key # asset[i].key \/ n.key \in misused

FilesInv ==
  /\ Typed /\ Suffixed
  /\ \A r \in Request : Removes(request[r]) /\ Inserts(request[r])
  /\ InsertsApart /\ StandsApart
  /\ RowsHaveObjects

-----------------------------------------------------------------------------
(* The rows that are placed *)

(* The ids of the copies are new, each its own, and within what is issued. *)
LEMMA CopyIds ==
  ASSUME NEW keys \in Seq(Source), NEW copied, copied \subseteq DOMAIN keys
  PROVE  /\ Cardinality(copied) \in Nat
         /\ \A n \in copied : Cardinality({m \in copied : m < n}) \in Nat
                              /\ Cardinality({m \in copied : m < n}) < Cardinality(copied)
         /\ \A m, n \in copied : m < n =>
              Cardinality({l \in copied : l < m}) < Cardinality({l \in copied : l < n})
<1> DEFINE Earlier(n) == {m \in copied : m < n}
<1>1. copied \subseteq Nat /\ IsFiniteSet(copied)
  <2>1. DOMAIN keys = 1 .. Len(keys) /\ Len(keys) \in Nat
    OBVIOUS
  <2>2. IsFiniteSet(DOMAIN keys)
    BY <2>1, FS_Interval
  <2>3. copied \in SUBSET DOMAIN keys
    OBVIOUS
  <2> QED BY <2>1, <2>2, <2>3, FS_Subset
<1>2. ASSUME NEW S \in SUBSET copied, NEW T \in SUBSET S, NEW x \in S, x \notin T
      PROVE  Cardinality(S) \in Nat /\ Cardinality(T) \in Nat /\ Cardinality(T) < Cardinality(S)
  <2>1. IsFiniteSet(S)
    BY <1>1, FS_Subset
  <2>2. IsFiniteSet(T) /\ Cardinality(T) <= Cardinality(S) /\ (Cardinality(S) = Cardinality(T) => S = T)
    BY <2>1, FS_Subset
  <2>3. Cardinality(S) \in Nat /\ Cardinality(T) \in Nat
    BY <2>1, <2>2, FS_CardinalityType
  <2>4. S # T
    BY <1>2
  <2> QED BY <2>2, <2>3, <2>4
<1>3. Cardinality(copied) \in Nat
  BY <1>1, FS_CardinalityType
<1>4. ASSUME NEW n \in copied
      PROVE  Cardinality(Earlier(n)) \in Nat /\ Cardinality(Earlier(n)) < Cardinality(copied)
  <2>1. Earlier(n) \in SUBSET copied /\ n \notin Earlier(n)
    BY <1>1
  <2> HIDE DEF Earlier
  <2> QED BY <1>2, <2>1
<1>5. ASSUME NEW m \in copied, NEW n \in copied, m < n
      PROVE  Cardinality(Earlier(m)) < Cardinality(Earlier(n))
  <2>1. Earlier(m) \in SUBSET Earlier(n) /\ Earlier(n) \in SUBSET copied
        /\ m \in Earlier(n) /\ m \notin Earlier(m)
    BY <1>1, <1>5
  <2> HIDE DEF Earlier
  <2> QED BY <1>2, <2>1
<1> QED BY <1>3, <1>4, <1>5

(* A copy goes where nothing is, under the name of its upload or, if that  *)
(* is taken, with the suffix of its id; or its key was misused.            *)
LEMMA PlacedFacts ==
  ASSUME Typed, Suffixed, NEW keys \in Seq(Source), NEW copied \in Copies(keys), NEW unseen,
         GivenAll(keys), issued + Cardinality(copied) <= MaxRows,
         NEW new, new = Placed(keys, copied, unseen),
         misused' = misused \cup Misused(keys, copied, unseen)
  PROVE  /\ issued + Cardinality(copied) \in 0 .. MaxRows /\ issued <= issued + Cardinality(copied)
         /\ new \subseteq NewRow
         /\ misused \subseteq misused' /\ misused' \subseteq Key
         /\ \A n \in new : /\ n.id \in issued + 1 .. issued + Cardinality(copied)
                           /\ n.key \notin store \/ n.key \in misused'
                           /\ n.key.suffixes \subseteq 1 .. issued + Cardinality(copied)
                           /\ n.from \in Key => n.from \in misused'
         /\ \A m, n \in new : /\ m.id = n.id => m = n
                              /\ m.key = n.key => m = n \/ m.key \in misused'
<1> DEFINE Earlier(n) == {m \in copied : m < n}
           Id(n)      == issued + Cardinality(Earlier(n)) + 1
           P(n)       == Plain(keys[n])
           There(n)   == Objects(keys, copied, n)
           Dst(n)     == DestinationKey(Seen(keys, copied, unseen, n), P(n), Id(n))
           Made(n)    == [id |-> Id(n), key |-> Dst(n), from |-> keys[n]]
<1>0. copied \subseteq DOMAIN keys
  BY DEF Copies
<1>1. new = {Made(n) : n \in copied}
  BY DEF Placed
<1>2. /\ issued \in Nat /\ MaxRows \in Nat /\ Cardinality(copied) \in Nat
      /\ \A n \in copied : Cardinality(Earlier(n)) \in Nat /\ Cardinality(Earlier(n)) < Cardinality(copied)
      /\ \A m, n \in copied : m < n => Cardinality(Earlier(m)) < Cardinality(Earlier(n))
  <2>1. issued \in Nat /\ MaxRows \in Nat
    BY DEF Typed
  <2> HIDE DEF Id, P, There, Dst, Made
  <2> QED BY ONLY <1>0, <2>1, CopyIds, keys \in Seq(Source)
<1>3. \A n \in copied : n \in Nat /\ n \in DOMAIN keys /\ keys[n] \in Source
  <2>1. \A n \in DOMAIN keys : n \in Nat /\ keys[n] \in Source
    OBVIOUS
  <2> QED BY <1>0, <2>1
<1>4. \A n \in copied : /\ Id(n) \in issued + 1 .. issued + Cardinality(copied)
                        /\ Id(n) \in RowId /\ Id(n) \in 1 .. MaxRows /\ Id(n) > issued
  <2> HIDE DEF Earlier
  <2> QED BY <1>2 DEF RowId
<1>5. \A m, n \in copied : m < n => Id(m) < Id(n)
  <2> HIDE DEF Earlier
  <2> QED BY <1>2
<1>6. \A n \in copied : P(n) \in Key /\ P(n).suffixes \subseteq 1 .. issued
  <2> SUFFICES ASSUME NEW n \in copied PROVE P(n) \in Key /\ P(n).suffixes \subseteq 1 .. issued
    OBVIOUS
  <2>1. CASE keys[n] \in Temp
    <3>1. P(n) = [name |-> NameOf(keys[n]), suffixes |-> {}] /\ NameOf(keys[n]) \in Name
      BY <2>1 DEF Plain
    <3> QED BY <3>1 DEF Key
  <2>2. CASE keys[n] \notin Temp
    <3>1. P(n) = keys[n] /\ keys[n] \in Key
      BY <1>3, <2>2 DEF Plain, Source
    <3> QED BY <1>3, <3>1 DEF GivenAll, Given
  <2> QED BY <2>1, <2>2
<1>7. \A m, n \in copied : m < n => P(m) \in There(n)
  BY DEF Objects
<1>8. \A n \in copied : store \subseteq There(n)
  BY DEF Objects
<1> HIDE DEF P, There, Earlier, Id
<1>9. ASSUME NEW n \in copied
      PROVE  \/ Dst(n) = [P(n) EXCEPT !.suffixes = P(n).suffixes \cup {Id(n)}]
             \/ Dst(n) = P(n) /\ P(n) \notin There(n)
             \/ Dst(n) = P(n) /\ P(n) \in misused'
  <2>1. CASE n \in unseen /\ P(n) \in There(n)
    <3>1. P(n) \in Misused(keys, copied, unseen)
      BY <2>1 DEF Misused, P, There
    <3>2. Seen(keys, copied, unseen, n) = {}
      BY <2>1 DEF Seen
    <3>3. Dst(n) = P(n)
      BY <1>6, <3>2 DEF DestinationKey, Key
    <3> QED BY <3>1, <3>3
  <2>2. CASE P(n) \notin There(n)
    <3>1. P(n) \notin Seen(keys, copied, unseen, n)
      BY <2>2 DEF Seen, There
    <3>2. Dst(n) = P(n)
      BY <1>6, <3>1 DEF DestinationKey, Key
    <3> QED BY <2>2, <3>2
  <2>3. CASE n \notin unseen /\ P(n) \in There(n)
    <3>1. P(n) \in Seen(keys, copied, unseen, n)
      BY <2>3 DEF Seen, There
    <3> QED BY <1>6, <3>1 DEF DestinationKey, Key
  <2> QED BY <2>1, <2>2, <2>3
<1> HIDE DEF Dst
<1>10. ASSUME NEW n \in copied
       PROVE  /\ Dst(n) \in Key /\ Dst(n).suffixes \subseteq 1 .. issued + Cardinality(copied)
              /\ Dst(n) \notin store \/ Dst(n) \in misused'
  <2>0. /\ P(n) \in Key /\ P(n).suffixes \subseteq 1 .. issued
        /\ 1 .. issued \subseteq 1 .. issued + Cardinality(copied)
        /\ Id(n) \in 1 .. issued + Cardinality(copied) /\ Id(n) \notin 1 .. issued /\ Id(n) \in RowId
    BY <1>2, <1>4, <1>6
  <2>1. CASE Dst(n) = [P(n) EXCEPT !.suffixes = P(n).suffixes \cup {Id(n)}]
    <3>1. Dst(n) \in Key /\ Dst(n).suffixes = P(n).suffixes \cup {Id(n)}
      BY <2>0, <2>1 DEF Key
    <3>2. Dst(n) \notin store
      BY <2>0, <3>1 DEF Suffixed, Given
    <3> QED BY <2>0, <3>1, <3>2
  <2>2. CASE Dst(n) = P(n) /\ P(n) \notin There(n)
    BY <1>8, <2>0, <2>2
  <2>3. CASE Dst(n) = P(n) /\ P(n) \in misused'
    BY <2>0, <2>3
  <2> QED BY <1>9, <2>1, <2>2, <2>3
<1>11. ASSUME NEW m \in copied, NEW n \in copied, m < n, Dst(m) = Dst(n)
       PROVE  Dst(m) \in misused'
  <2>0. /\ P(m) \in Key /\ P(m).suffixes \subseteq 1 .. issued
        /\ P(n) \in Key /\ P(n).suffixes \subseteq 1 .. issued
        /\ Id(n) \notin 1 .. issued /\ Id(m) \notin 1 .. issued /\ Id(m) # Id(n)
        /\ P(m) \in There(n)
    BY <1>2, <1>4, <1>5, <1>6, <1>7, <1>11
  <2>1. CASE Dst(n) = [P(n) EXCEPT !.suffixes = P(n).suffixes \cup {Id(n)}]
    <3>1. Id(n) \in Dst(n).suffixes
      BY <2>0, <2>1 DEF Key
    <3>2. CASE Dst(m) = [P(m) EXCEPT !.suffixes = P(m).suffixes \cup {Id(m)}]
      <4>1. Dst(m).suffixes = P(m).suffixes \cup {Id(m)}
        BY <2>0, <3>2 DEF Key
      <4> QED BY <1>11, <2>0, <3>1, <4>1
    <3>3. CASE Dst(m) = P(m)
      BY <1>11, <2>0, <3>1, <3>3
    <3> QED BY <1>9, <3>2, <3>3
  <2>2. CASE Dst(n) = P(n) /\ P(n) \notin There(n)
    <3>1. CASE Dst(m) = [P(m) EXCEPT !.suffixes = P(m).suffixes \cup {Id(m)}]
      <4>1. Id(m) \in Dst(m).suffixes
        BY <2>0, <3>1 DEF Key
      <4> QED BY <1>11, <2>0, <2>2, <4>1
    <3>2. CASE Dst(m) = P(m)
      BY <1>11, <2>0, <2>2, <3>2
    <3> QED BY <1>9, <3>1, <3>2
  <2>3. CASE Dst(n) = P(n) /\ P(n) \in misused'
    BY <1>11, <2>3
  <2> QED BY <1>9, <2>1, <2>2, <2>3
<1>12. /\ new \subseteq NewRow
       /\ \A n \in copied : Made(n).id = Id(n) /\ Made(n).key = Dst(n) /\ Made(n).from = keys[n]
  BY <1>1, <1>3, <1>4, <1>10 DEF NewRow
<1>13. misused \subseteq misused' /\ misused' \subseteq Key
  <2>1. \A n \in copied : Plain(keys[n]) \in Key
    BY <1>6 DEF P
  <2> QED BY <2>1 DEF Misused, Typed
<1>14. \A n \in copied : keys[n] \in Key => keys[n] \in misused'
  BY DEF Misused
<1>15. ASSUME NEW m \in copied, NEW n \in copied
       PROVE  /\ Id(m) = Id(n) => m = n
              /\ Dst(m) = Dst(n) => m = n \/ Dst(m) \in misused'
  <2>1. m < n \/ n < m \/ m = n
    BY <1>3
  <2>2. Id(m) = Id(n) => m = n
    BY <1>2, <1>4, <1>5, <2>1
  <2>3. Dst(m) = Dst(n) => m = n \/ Dst(m) \in misused'
    BY <1>11, <2>1
  <2> QED BY <2>2, <2>3
<1> HIDE DEF Made
<1>16. \A n \in copied : /\ Made(n).id \in issued + 1 .. issued + Cardinality(copied)
                         /\ Made(n).key \notin store \/ Made(n).key \in misused'
                         /\ Made(n).key.suffixes \subseteq 1 .. issued + Cardinality(copied)
                         /\ Made(n).from \in Key => Made(n).from \in misused'
  BY ONLY <1>4, <1>10, <1>12, <1>14
<1>17. \A m, n \in copied : /\ Made(m).id = Made(n).id => m = n
                            /\ Made(m).key = Made(n).key => m = n \/ Made(m).key \in misused'
  BY ONLY <1>12, <1>15
<1>18. issued + Cardinality(copied) \in 0 .. MaxRows /\ issued <= issued + Cardinality(copied)
  BY <1>2
<1> QED BY ONLY <1>1, <1>12, <1>13, <1>16, <1>17, <1>18

-----------------------------------------------------------------------------
(* The steps *)

(* A row stands until a request that deletes it is about to commit.        *)
LEMMA StandingFacts ==
  \A i : i \in Standing <=>
    /\ i \in DOMAIN asset
    /\ \A q \in Request : request[q].step = "commit" => i \notin request[q].deleted
BY DEF Standing, At

(* A step of one request.                                                  *)
LEMMA OneRequest ==
  ASSUME request \in [Request -> RequestSet], NEW r \in Request, NEW q \in RequestSet,
         request' = [request EXCEPT ![r] = q]
  PROVE  /\ request' \in [Request -> RequestSet] /\ request'[r] = q
         /\ \A s \in Request : s # r => request'[s] = request[s]
OBVIOUS

(* What a request knows of the rows, when it is not done.                  *)
LEMMA IdleFacts ==
  /\ Idle \in RequestSet /\ Removes(Idle) /\ Idle.new = {} /\ Idle.step = "idle" /\ Idle.deleted = {}
  /\ Idle.remove = {} /\ Idle.add = <<>> /\ Idle.paths = {}
<1>1. <<>> \in Seq(Source)
  OBVIOUS
<1> QED BY <1>1 DEF Idle, RequestSet, Removes

(* A request that reads or deletes rows, or ends without having deleted    *)
(* objects, moves no row and no object.                                    *)
LEMMA ReadStep ==
  ASSUME FilesInv, NEW r \in Request, NEW q \in RequestSet, request' = [request EXCEPT ![r] = q],
         UNCHANGED <<asset, issued, store, misused>>, registered' \in BOOLEAN, temps' \subseteq Temp,
         Removes(q), q.new = {}, GivenAll(q.add),
         request[r].step = "commit" => request[r].deleted = {}
  PROVE  FilesInv'
<1>1. /\ request' \in [Request -> RequestSet] /\ request'[r] = q
      /\ \A s \in Request : s # r => request'[s] = request[s]
  BY OneRequest DEF FilesInv, Typed
<1>2. Typed' /\ Suffixed'
  BY <1>1 DEF FilesInv, Typed, Suffixed, GivenAll, Given
<1>3. \A s \in Request : Removes(request[s])' /\ Inserts(request[s])'
  BY <1>1 DEF FilesInv, Removes, Inserts
<1>4. InsertsApart'
  BY <1>1 DEF FilesInv, InsertsApart
<1>5. Standing' \subseteq Standing
  BY <1>1, StandingFacts DEF Standing, At
<1>6. StandsApart'
  BY <1>1, <1>5 DEF FilesInv, StandsApart
<1>7. RowsHaveObjects'
  BY <1>5 DEF FilesInv, RowsHaveObjects
<1> QED BY <1>2, <1>3, <1>4, <1>6, <1>7 DEF FilesInv

(* A request that puts objects where nothing is, or under a key that is    *)
(* misused, for rows to insert.                                            *)
LEMMA InsertStep ==
  ASSUME FilesInv, NEW r \in Request, NEW q \in RequestSet, request' = [request EXCEPT ![r] = q],
         UNCHANGED <<registered, asset, temps>>,
         NEW last \in 0 .. MaxRows, issued <= last, issued' = last,
         store' = store \cup {n.key : n \in q.new},
         misused \subseteq misused', misused' \subseteq Key,
         \A n \in q.new : /\ n.id \in issued + 1 .. last
                          /\ n.key \notin store \/ n.key \in misused'
                          /\ n.key.suffixes \subseteq 1 .. last
                          /\ n.from \in Key => n.from \in misused',
         \A m, n \in q.new : /\ m.id = n.id => m = n
                             /\ m.key = n.key => m = n \/ m.key \in misused',
         Removes(q), GivenAll(q.add), q.step \in {"flush", "commit"}, request[r].step # "commit"
  PROVE  FilesInv'
<1>1. /\ request' \in [Request -> RequestSet] /\ request'[r] = q
      /\ \A s \in Request : s # r => request'[s] = request[s]
  BY OneRequest DEF FilesInv, Typed
<1>2. issued \in Nat /\ last \in Nat /\ q.new \subseteq NewRow
  BY DEF FilesInv, Typed, RequestSet
<1>3. Typed'
  <2>1. store' \subseteq Key
    BY <1>2 DEF FilesInv, Typed, NewRow
  <2>2. DOMAIN asset \subseteq 1 .. last
    BY <1>2 DEF FilesInv, Typed
  <2> QED BY <1>1, <2>1, <2>2 DEF FilesInv, Typed
<1>4. Suffixed'
  <2>1. 1 .. issued \subseteq 1 .. last
    BY <1>2
  <2>2. \A k \in store' : Given(k)'
    BY <2>1 DEF FilesInv, Suffixed, Given
  <2>3. \A k : Given(k) => Given(k)'
    BY <2>1 DEF Given
  <2>4. \A s \in Request : GivenAll(request[s].add)'
    BY <1>1, <2>3 DEF FilesInv, Suffixed, GivenAll
  <2> QED BY <2>2, <2>4 DEF Suffixed
<1>5. \A s \in Request : Removes(request[s])'
  BY <1>1 DEF FilesInv, Removes
<1>6. \A s \in Request : Inserts(request[s])'
  <2>1. Inserts(q)'
    <3>1. \A n \in q.new : n.id \in 1 .. last /\ n.id \notin DOMAIN asset /\ n.key \in store' \cup misused'
      BY <1>2 DEF FilesInv, Typed
    <3> QED BY <3>1 DEF Inserts
  <2>2. ASSUME NEW s \in Request, s # r PROVE Inserts(request[s])'
    <3>1. Inserts(request[s]) /\ request'[s] = request[s]
      BY <1>1, <2>2 DEF FilesInv
    <3>2. \A n \in request[s].new : n.id \in 1 .. last /\ n.key \in store' \cup misused'
      BY <1>2, <3>1 DEF Inserts
    <3> QED BY <3>1, <3>2 DEF Inserts
  <2> QED BY <1>1, <2>1, <2>2
<1>7. InsertsApart'
  <2>1. ASSUME NEW s \in Request, s # r, NEW m \in q.new, NEW n \in request[s].new
        PROVE  m.id # n.id /\ (m.key # n.key \/ m.key \in misused')
    BY <1>2, <2>1 DEF FilesInv, Inserts
  <2> QED BY <1>1, <2>1 DEF FilesInv, InsertsApart
<1>8. Standing' \subseteq Standing
  BY <1>1, StandingFacts DEF Standing, At
<1>9. StandsApart'
  <2>1. \A i \in Standing : asset[i].key \in store \cup misused
    BY DEF FilesInv, RowsHaveObjects
  <2> QED BY <1>1, <1>8, <2>1 DEF FilesInv, StandsApart
<1>10. RowsHaveObjects'
  BY <1>8 DEF FilesInv, RowsHaveObjects
<1> QED BY <1>3, <1>4, <1>5, <1>6, <1>7, <1>9, <1>10 DEF FilesInv

(* commit and DELETE /files begin.                                         *)
LEMMA CommitStep ==
  ASSUME FilesInv, NEW r \in Request, NEW remove \in SUBSET RowId, NEW add \in Lists,
         Commit(r, remove, add)
  PROVE  FilesInv'
<1> PICK step : step = IF remove = {} THEN "place" ELSE "delete"
  OBVIOUS
<1> PICK paths : paths = {asset[i].key : i \in remove}
  OBVIOUS
<1> PICK q : q = [Idle EXCEPT !.step = step, !.remove = remove, !.add = add, !.paths = paths]
  OBVIOUS
<1>1. /\ At(r, "idle") /\ remove \subseteq DOMAIN asset /\ request' = [request EXCEPT ![r] = q]
      /\ UNCHANGED <<registered, asset, issued, store, temps, misused>>
  BY DEF Commit
<1>6. add \in Seq(Source) /\ GivenAll(add)
  <2>1. PICK n \in 0 .. 2 : add \in [1 .. n -> Temp \cup store]
    BY Zenon DEF Lists
  <2>2. n \in Nat /\ Temp \cup store \subseteq Source
    BY DEF FilesInv, Typed, Source
  <2>3. add \in Seq(Source)
    BY ONLY <2>1, <2>2
  <2>4. \A m \in DOMAIN add : add[m] \in Temp \cup store
    BY <2>1
  <2>5. \A t \in Temp : t \notin Key
    OBVIOUS
  <2> QED BY <2>3, <2>4, <2>5 DEF FilesInv, Suffixed, GivenAll
<1>2. paths \in SUBSET Key /\ step \in {"place", "delete"}
  BY <1>1 DEF FilesInv, Typed, Row
<1>3. /\ q = [step |-> step, remove |-> remove, add |-> add, paths |-> paths,
              deleted |-> {}, new |-> {}]
  BY ONLY q = [Idle EXCEPT !.step = step, !.remove = remove, !.add = add, !.paths = paths] DEF Idle
<1>4. q \in RequestSet /\ Removes(q) /\ q.new = {} /\ q.add = add
  <2>1. q \in RequestSet
    BY ONLY <1>2, <1>3, <1>6, remove \in SUBSET RowId DEF RequestSet
  <2>2. /\ q.step = step /\ q.remove = remove /\ q.paths = paths /\ q.deleted = {} /\ q.new = {}
        /\ q.add = add
    BY ONLY <1>3
  <2>3. step = "place" => remove = {}
    OBVIOUS
  <2> QED BY ONLY <1>1, <1>2, <2>1, <2>2, <2>3, paths = {asset[i].key : i \in remove} DEF Removes
<1>5. request[r].step # "commit" /\ registered \in BOOLEAN /\ temps \subseteq Temp
  BY <1>1 DEF At, FilesInv, Typed
<1> QED BY <1>1, <1>4, <1>5, <1>6, ReadStep

(* The rows are deleted, those that were read, and all of them.            *)
LEMMA DeleteStep ==
  ASSUME FilesInv, NEW r \in Request, DeleteRows(r)
  PROVE  FilesInv'
<1> PICK there : there = request[r].remove \cap DOMAIN asset
  OBVIOUS
<1> PICK q : q = [request[r] EXCEPT !.step = "place", !.deleted = there]
  OBVIOUS
<1>1. /\ At(r, "delete") /\ request' = [request EXCEPT ![r] = q]
      /\ UNCHANGED <<registered, asset, issued, store, temps, misused>>
  BY DEF DeleteRows
<1>2. request[r] \in RequestSet /\ Removes(request[r]) /\ request[r].new = {} /\ there = request[r].remove
      /\ request[r].step = "delete" /\ GivenAll(request[r].add)
  BY <1>1 DEF FilesInv, Typed, Suffixed, Removes, Inserts, At
<1>3. q \in RequestSet /\ Removes(q) /\ q.new = {} /\ q.add = request[r].add
  BY <1>2 DEF RequestSet, Removes
<1>4. registered \in BOOLEAN /\ temps \subseteq Temp
  BY DEF FilesInv, Typed
<1> QED BY <1>1, <1>2, <1>3, <1>4, ReadStep

(* The uploads are copied.                                                 *)
LEMMA PlaceStep ==
  ASSUME FilesInv, NEW r \in Request, NEW copied \in Copies(request[r].add), NEW unseen,
         Place(r, copied, unseen)
  PROVE  FilesInv'
<1> PICK new : new = Placed(request[r].add, copied, unseen)
  OBVIOUS
<1> PICK q : q = [request[r] EXCEPT !.step = "flush", !.new = new]
  OBVIOUS
<1>1. /\ At(r, "place") /\ issued + Cardinality(copied) <= MaxRows
      /\ issued' = issued + Cardinality(copied)
      /\ store' = store \cup {n.key : n \in new}
      /\ misused' = misused \cup Misused(request[r].add, copied, unseen)
      /\ request' = [request EXCEPT ![r] = q]
      /\ UNCHANGED <<registered, asset, temps>>
  BY DEF Place
<1>2. /\ request[r] \in RequestSet /\ request[r].add \in Seq(Source) /\ Removes(request[r])
      /\ request[r].step = "place" /\ GivenAll(request[r].add)
  BY <1>1 DEF FilesInv, Typed, Suffixed, RequestSet, At
<1>4. /\ issued + Cardinality(copied) \in 0 .. MaxRows /\ issued <= issued + Cardinality(copied)
      /\ new \subseteq NewRow
      /\ misused \subseteq misused' /\ misused' \subseteq Key
      /\ \A n \in new : /\ n.id \in issued + 1 .. issued + Cardinality(copied)
                        /\ n.key \notin store \/ n.key \in misused'
                        /\ n.key.suffixes \subseteq 1 .. issued + Cardinality(copied)
                        /\ n.from \in Key => n.from \in misused'
      /\ \A m, n \in new : /\ m.id = n.id => m = n
                           /\ m.key = n.key => m = n \/ m.key \in misused'
  BY <1>1, <1>2, PlacedFacts DEF FilesInv
<1>5. /\ q.new = new /\ q.step = "flush" /\ request[r].step # "commit"
      /\ q.add = request[r].add
  BY <1>2 DEF RequestSet
<1>6. q \in RequestSet
  BY <1>2, <1>4 DEF RequestSet
<1>7. Removes(q)
  BY <1>2 DEF RequestSet, Removes
<1> QED BY <1>1, <1>2, <1>4, <1>5, <1>6, <1>7, InsertStep

(* A row with an object that the program puts itself.                      *)
LEMMA PutStep ==
  ASSUME FilesInv, NEW r \in Request, NEW key \in Key, NEW i, i = issued + 1, i <= MaxRows,
         issued' = i, store' = store \cup {key}, key \notin store, key.suffixes \subseteq 1 .. i,
         At(r, "idle"), UNCHANGED <<registered, asset, temps, misused>>,
         request' = [request EXCEPT ![r] =
           [Idle EXCEPT !.step = "commit", !.new = {[id |-> i, key |-> key, from |-> NoTemp]}]]
  PROVE  FilesInv'
<1> PICK n : n = [id |-> i, key |-> key, from |-> NoTemp]
  OBVIOUS
<1> PICK q : q = [Idle EXCEPT !.step = "commit", !.new = {n}]
  OBVIOUS
<1>1. i \in 1 .. MaxRows /\ i \in 0 .. MaxRows /\ issued <= i /\ i \in issued + 1 .. i
  BY DEF FilesInv, Typed
<1>2. n \in NewRow /\ n.id = i /\ n.key = key /\ n.from = NoTemp
  BY <1>1 DEF NewRow, RowId
<1>3. q \in RequestSet /\ q.new = {n} /\ q.step = "commit" /\ Removes(q) /\ GivenAll(q.add)
  <2>1. q = [step |-> "commit", remove |-> {}, add |-> <<>>, paths |-> {}, deleted |-> {}, new |-> {n}]
    BY DEF Idle
  <2>2. <<>> \in Seq(Source)
    OBVIOUS
  <2>3. q \in RequestSet
    BY ONLY <1>2, <2>1, <2>2 DEF RequestSet
  <2>4. /\ q.step = "commit" /\ q.remove = {} /\ q.paths = {} /\ q.deleted = {} /\ q.new = {n}
        /\ q.add = <<>>
    BY ONLY <2>1
  <2>5. DOMAIN <<>> = {}
    OBVIOUS
  <2>6. GivenAll(q.add)
    BY ONLY <2>4, <2>5 DEF GivenAll
  <2>7. Removes(q)
    BY <2>4 DEF Removes
  <2> QED BY <2>3, <2>4, <2>6, <2>7
<1>4. request' = [request EXCEPT ![r] = q] /\ store' = store \cup {m.key : m \in q.new}
  BY <1>2, <1>3
<1>5. request[r].step # "commit" /\ misused' = misused /\ misused \subseteq Key
  BY DEF At, FilesInv, Typed
<1>6. /\ \A m \in q.new : /\ m.id \in issued + 1 .. i /\ m.key \notin store
                          /\ m.key.suffixes \subseteq 1 .. i /\ m.from \notin Key
      /\ \A l, m \in q.new : l = m
  BY <1>1, <1>2, <1>3
<1> QED BY <1>1, <1>3, <1>4, <1>5, <1>6, InsertStep

(* direct_upload and save_oauth_profile_image.                             *)
LEMMA DirectStep ==
  ASSUME FilesInv, NEW r \in Request, NEW name \in Name,
         DirectUpload(r, name) \/ (name = Avatar /\ SaveProfileImage(r))
  PROVE  FilesInv'
<1> PICK i : i = issued + 1
  OBVIOUS
<1> PICK key : key = IF DirectUpload(r, name) THEN [name |-> name, suffixes |-> {i}]
                     ELSE DestinationKey(store, [name |-> Avatar, suffixes |-> {}], i)
  OBVIOUS
<1>1. /\ At(r, "idle") /\ i <= MaxRows /\ issued' = i /\ store' = store \cup {key}
      /\ UNCHANGED <<registered, asset, temps, misused>>
      /\ request' = [request EXCEPT ![r] =
           [Idle EXCEPT !.step = "commit", !.new = {[id |-> i, key |-> key, from |-> NoTemp]}]]
  BY DEF DirectUpload, SaveProfileImage
<1>2. \/ key = [name |-> name, suffixes |-> {i}]
      \/ key = [name |-> name, suffixes |-> {}] /\ key \notin store
  BY DEF DestinationKey
<1>3. issued \in Nat /\ i \in 1 .. MaxRows /\ issued < i
  BY <1>1 DEF FilesInv, Typed
<1>4. key \in Key /\ key.suffixes \subseteq 1 .. i
  <2>1. {i} \in SUBSET RowId /\ {} \in SUBSET RowId /\ i \in 1 .. i
    BY <1>3 DEF RowId
  <2>2. CASE key = [name |-> name, suffixes |-> {i}]
    BY ONLY <2>1, <2>2, name \in Name DEF Key
  <2>3. CASE key = [name |-> name, suffixes |-> {}]
    BY ONLY <2>1, <2>3, name \in Name DEF Key
  <2> QED BY <1>2, <2>2, <2>3
<1>5. key \notin store
  <2>1. \A k \in store : k.suffixes \subseteq 1 .. issued
    BY DEF FilesInv, Suffixed, Given
  <2> QED BY <1>2, <1>3, <2>1
<1> QED BY <1>1, <1>4, <1>5, PutStep


(* When removals are apart, the objects a request deletes are those of     *)
(* rows that stand, its own, and of nothing else, or they were misused.    *)
LEMMA OwnPaths ==
  ASSUME FilesInv, RemovalsApart, NEW r \in Request, request[r].step = "flush"
  PROVE  /\ request[r].remove \subseteq Standing
         /\ request[r].deleted = request[r].remove
         /\ \A i \in Standing \ request[r].remove :
              asset[i].key \notin request[r].paths \/ asset[i].key \in misused
         /\ \A s \in Request : \A n \in request[s].new :
              n.key \notin request[r].paths \/ n.key \in misused
         /\ TempsOf(request[r]) \cap Key \subseteq misused
<1>1. Removes(request[r]) /\ request[r].deleted = request[r].remove
  BY DEF FilesInv, Removes
<1>2. request[r].remove \subseteq Standing
  <2> SUFFICES ASSUME NEW i \in request[r].remove, NEW s \in Request, request[s].step = "commit",
                      i \in request[s].deleted
               PROVE  FALSE
    BY <1>1, StandingFacts DEF Removes
  <2>1. Removes(request[s]) /\ request[s].deleted = request[s].remove
    BY DEF FilesInv, Removes
  <2> QED BY <2>1 DEF RemovalsApart
<1>3. \A p \in request[r].paths : \E j \in request[r].remove : p = asset[j].key
  BY <1>1 DEF Removes
<1>4. TempsOf(request[r]) \cap Key \subseteq misused
  BY DEF FilesInv, Inserts, TempsOf
<1>5. \A i \in Standing \ request[r].remove :
        asset[i].key \notin request[r].paths \/ asset[i].key \in misused
  BY <1>2, <1>3 DEF FilesInv, RowsHaveObjects
<1>6. \A s \in Request : \A n \in request[s].new :
        n.key \notin request[r].paths \/ n.key \in misused
  BY <1>2, <1>3 DEF FilesInv, StandsApart
<1> QED BY <1>1, <1>2, <1>4, <1>5, <1>6

(* The objects of the removed rows go, and the uploads.                    *)
LEMMA FlushStep ==
  ASSUME FilesInv, RemovalsApart, NEW r \in Request, NEW kept, FlushAndClean(r, kept)
  PROVE  FilesInv'
<1> PICK q : q = [request[r] EXCEPT !.step = "commit"]
  OBVIOUS
<1>1. /\ request[r].step = "flush" /\ request' = [request EXCEPT ![r] = q]
      /\ store' = store \ ((request[r].paths \cup TempsOf(request[r])) \ kept) /\ temps' \subseteq temps
      /\ UNCHANGED <<registered, asset, issued, misused>>
  BY DEF FlushAndClean, At
<1>2. request[r] \in RequestSet /\ Removes(request[r]) /\ Inserts(request[r])
  BY DEF FilesInv, Typed
<1>3. /\ q \in RequestSet /\ q.step = "commit" /\ q.remove = request[r].remove
      /\ q.paths = request[r].paths /\ q.deleted = request[r].deleted /\ q.new = request[r].new
      /\ q.add = request[r].add
  BY <1>2 DEF RequestSet
<1>4. /\ request' \in [Request -> RequestSet] /\ request'[r] = q
      /\ \A s \in Request : s # r => request'[s] = request[s]
  BY <1>1, <1>3, OneRequest DEF FilesInv, Typed
<1>5. \A s \in Request : request'[s].new = request[s].new
  BY <1>3, <1>4
<1>6. /\ request[r].remove \subseteq Standing
      /\ request[r].deleted = request[r].remove
      /\ \A i \in Standing \ request[r].remove :
           asset[i].key \notin request[r].paths \/ asset[i].key \in misused
      /\ \A s \in Request : \A n \in request[s].new :
           n.key \notin request[r].paths \/ n.key \in misused
      /\ TempsOf(request[r]) \cap Key \subseteq misused
  BY <1>1, OwnPaths
<1>13. \A k \in Key : k \in store /\ k \notin request[r].paths => k \in store' \cup misused
  BY <1>1, <1>6
<1>7. Standing' \subseteq Standing \ request[r].remove
  BY <1>1, <1>3, <1>4, <1>6, StandingFacts DEF Standing, At
<1>8. Typed' /\ Suffixed'
  <2>1. \A s \in Request : request'[s].add = request[s].add
    BY <1>3, <1>4
  <2>2. Suffixed'
    BY <1>1, <2>1 DEF FilesInv, Suffixed, GivenAll, Given
  <2> QED BY <1>1, <1>4, <2>2 DEF FilesInv, Typed
<1>9. \A s \in Request : Removes(request[s])'
  <2>1. Removes(q)
    BY <1>1, <1>2, <1>3 DEF Removes
  <2> QED BY <1>1, <1>4, <2>1 DEF FilesInv, Removes
<1>10. \A s \in Request : Inserts(request[s])'
  <2>1. \A s \in Request : request'[s].step \in {"idle", "delete", "place"} => request'[s] = request[s]
    BY <1>3, <1>4
  <2>2. \A s \in Request : \A n \in request[s].new : n.key \in store' \cup misused
    BY <1>6, <1>13 DEF FilesInv, Typed, Inserts
  <2> QED BY <1>1, <1>5, <2>1, <2>2 DEF FilesInv, Inserts
<1>11. InsertsApart' /\ StandsApart'
  BY <1>1, <1>5, <1>7 DEF FilesInv, InsertsApart, StandsApart
<1>12. RowsHaveObjects'
  <2>1. \A i \in Standing' : asset[i].key \in store' \cup misused
    BY <1>6, <1>7, <1>13 DEF FilesInv, Typed, RowsHaveObjects
  <2> QED BY <1>1, <1>7, <2>1 DEF FilesInv, RowsHaveObjects
<1> QED BY <1>8, <1>9, <1>10, <1>11, <1>12 DEF FilesInv

(* A request commits: its rows stand, and those it deleted are gone.       *)
LEMMA SessionStep ==
  ASSUME FilesInv, RemovalsApart, NEW r \in Request, CommitSession(r)
  PROVE  FilesInv'
<1> PICK new : new = request[r].new
  OBVIOUS
<1> PICK kept : kept = DOMAIN asset \ request[r].deleted
  OBVIOUS
<1>1. /\ request[r].step = "commit" /\ request' = [request EXCEPT ![r] = Idle] /\ registered' = TRUE
      /\ UNCHANGED <<issued, store, temps, misused>>
      /\ asset' = [i \in kept \cup Inserted(new) |->
                     IF i \in kept THEN asset[i]
                     ELSE [key |-> (CHOOSE n \in new : n.id = i).key, is_active |-> TRUE]]
  BY DEF CommitSession, At
<1>2. /\ request' \in [Request -> RequestSet] /\ request'[r] = Idle
      /\ \A s \in Request : s # r => request'[s] = request[s]
  BY <1>1, OneRequest, IdleFacts DEF FilesInv, Typed
<1>3. /\ Removes(request[r]) /\ request[r].deleted = request[r].remove /\ Inserts(request[r])
      /\ new \subseteq NewRow
  BY <1>1 DEF FilesInv, Removes, Typed, RequestSet
<1>4. \A n \in new : (CHOOSE m \in new : m.id = n.id) = n
  BY <1>3 DEF Inserts
<1>5. /\ DOMAIN asset' = kept \cup Inserted(new)
      /\ kept \subseteq DOMAIN asset /\ \A i \in kept : asset'[i] = asset[i]
      /\ \A n \in new : n.id \in DOMAIN asset' /\ n.id \notin kept
                        /\ asset'[n.id] = [key |-> n.key, is_active |-> TRUE]
  <2>1. \A n \in new : n.id \in Inserted(new) /\ n.id \notin kept
    BY <1>3 DEF Inserted, Inserts
  <2> QED BY <1>1, <1>4, <2>1
<1>15. /\ \A i \in kept : asset'[i].key = asset[i].key
       /\ \A n \in new : asset'[n.id].key = n.key
  <2>1. \A i \in kept : asset'[i].key = asset[i].key
    BY <1>5
  <2>2. ASSUME NEW n \in new PROVE asset'[n.id].key = n.key
    <3>1. asset'[n.id] = [key |-> n.key, is_active |-> TRUE]
      BY <1>5
    <3> QED BY ONLY <3>1
  <2> QED BY <2>1, <2>2
<1>6. \A i \in DOMAIN asset' : i \in kept \/ \E n \in new : i = n.id
  BY <1>5 DEF Inserted
<1>7. Typed' /\ Suffixed'
  <2>1. \A n \in new : n.id \in 1 .. issued /\ [key |-> n.key, is_active |-> TRUE] \in Row
    BY <1>3 DEF Inserts, NewRow, Row
  <2>3. \A i \in kept : i \in 1 .. issued /\ asset'[i] \in Row
    BY <1>5 DEF FilesInv, Typed
  <2>4. \A n \in new : n.id \in 1 .. issued /\ asset'[n.id] \in Row
    BY <1>5, <2>1
  <2>2. DOMAIN asset' \subseteq 1 .. issued /\ \A i \in DOMAIN asset' : asset'[i] \in Row
    BY <1>6, <2>3, <2>4
  <2>5. Suffixed'
    BY <1>1, <1>2, IdleFacts DEF FilesInv, Suffixed, GivenAll, Given
  <2> QED BY <1>1, <1>2, <2>2, <2>5 DEF FilesInv, Typed
<1>8. \A s \in Request : Removes(request[s])'
  <2>1. ASSUME NEW s \in Request, s # r PROVE Removes(request[s])'
    <3>1. request'[s] = request[s] /\ Removes(request[s])
      BY <1>2, <2>1 DEF FilesInv
    <3>2. request[s].remove \cap request[r].remove = {}
      BY <2>1 DEF RemovalsApart
    <3>3. request[s].remove \subseteq kept
      BY <1>3, <3>1, <3>2 DEF Removes
    <3>4. {asset[i].key : i \in request[s].remove} = {asset'[i].key : i \in request[s].remove}
      BY <1>5, <3>3
    <3> QED BY <1>5, <3>1, <3>3, <3>4 DEF Removes
  <2>2. Removes(Idle)'
    BY IdleFacts DEF Removes
  <2> QED BY <1>2, <2>1, <2>2
<1>9. ASSUME NEW s \in Request, s # r, NEW m \in request[s].new
      PROVE  m.id \notin DOMAIN asset' /\ \A n \in new : m.key # n.key \/ m.key \in misused
  <2>1. \A n \in new : m.id # n.id /\ (m.key # n.key \/ m.key \in misused)
    BY <1>9 DEF FilesInv, InsertsApart
  <2>2. m.id \notin DOMAIN asset
    BY <1>9 DEF FilesInv, Inserts
  <2> QED BY <1>5, <1>6, <2>1, <2>2
<1>10. \A s \in Request : Inserts(request[s])'
  <2>1. ASSUME NEW s \in Request, s # r PROVE Inserts(request[s])'
    BY <1>1, <1>2, <1>9, <2>1 DEF FilesInv, Inserts
  <2>2. Inserts(Idle)'
    BY IdleFacts DEF Inserts
  <2> QED BY <1>2, <2>1, <2>2
<1>11. InsertsApart'
  BY <1>1, <1>2, IdleFacts DEF FilesInv, InsertsApart
<1>12. \A i \in Standing' : (i \in kept /\ i \in Standing) \/ \E n \in new : i = n.id
  <2> SUFFICES ASSUME NEW i \in Standing', i \in kept PROVE i \in Standing
    BY <1>6 DEF Standing
  <2>1. \A s \in Request : request[s].step = "commit" => i \notin request[s].deleted
    BY <1>2 DEF Standing, At
  <2> QED BY <1>5, <2>1, StandingFacts
<1>13. StandsApart'
  <2>1. ASSUME NEW i \in Standing', NEW s \in Request, NEW m \in request'[s].new
        PROVE  m.key # asset'[i].key \/ m.key \in misused
    <3>1. s # r /\ m \in request[s].new
      BY <1>2, <2>1, IdleFacts
    <3>2. CASE i \in kept /\ i \in Standing
      BY <1>15, <3>1, <3>2 DEF FilesInv, StandsApart
    <3>3. ASSUME NEW n \in new, i = n.id PROVE m.key # asset'[i].key \/ m.key \in misused
      <4>1. m.key # n.key \/ m.key \in misused
        BY <1>9, <3>1
      <4> QED BY <1>15, <3>3, <4>1
    <3> QED BY <1>12, <3>2, <3>3
  <2> QED BY <1>1, <2>1 DEF StandsApart
<1>14. RowsHaveObjects'
  <2>1. ASSUME NEW i \in Standing' PROVE asset'[i].key \in store \cup misused
    <3>1. CASE i \in kept /\ i \in Standing
      BY <1>15, <3>1 DEF FilesInv, RowsHaveObjects
    <3>2. ASSUME NEW n \in new, i = n.id PROVE asset'[i].key \in store \cup misused
      BY <1>3, <1>15, <3>2 DEF Inserts
    <3> QED BY <1>12, <3>1, <3>2
  <2>3. ASSUME NEW n \in new, NEW j \in Standing', asset'[j].key = n.key
        PROVE  j = n.id \/ n.key \in misused
    <3>1. CASE j \in kept /\ j \in Standing
      BY <1>15, <2>3, <3>1 DEF FilesInv, StandsApart
    <3>2. ASSUME NEW m \in new, j = m.id PROVE j = n.id \/ n.key \in misused
      BY <1>3, <1>15, <2>3, <3>2 DEF Inserts
    <3> QED BY <1>12, <3>1, <3>2
  <2>2. ASSUME NEW i \in Standing', NEW j \in Standing', asset'[i].key = asset'[j].key
        PROVE  i = j \/ asset'[i].key \in misused
    <3>1. CASE (i \in kept /\ i \in Standing) /\ (j \in kept /\ j \in Standing)
      BY <1>15, <2>2, <3>1 DEF FilesInv, RowsHaveObjects
    <3>2. ASSUME NEW n \in new, i = n.id PROVE i = j \/ asset'[i].key \in misused
      BY <1>15, <2>2, <2>3, <3>2
    <3>3. ASSUME NEW n \in new, j = n.id PROVE i = j \/ asset'[i].key \in misused
      BY <1>15, <2>2, <2>3, <3>3
    <3> QED BY <1>12, <3>1, <3>2, <3>3
  <2>4. store' = store /\ misused' = misused
    BY <1>1
  <2> QED BY ONLY <2>1, <2>2, <2>4 DEF RowsHaveObjects
<1> QED BY <1>7, <1>8, <1>10, <1>11, <1>13, <1>14 DEF FilesInv

(* A request fails before it has deleted an object.                        *)
LEMMA RollbackStep ==
  ASSUME FilesInv, LateFailures = FALSE, NEW r \in Request, Rollback(r)
  PROVE  FilesInv'
<1>1. /\ request' = [request EXCEPT ![r] = Idle] /\ UNCHANGED <<registered, asset, issued, store, temps, misused>>
      /\ request[r].step = "commit" => request[r].paths = {}
  BY DEF Rollback, At
<1>2. request[r].step = "commit" => request[r].deleted = {}
  BY <1>1 DEF FilesInv, Removes
<1>3. registered \in BOOLEAN /\ temps \subseteq Temp
  BY DEF FilesInv, Typed
<1>4. GivenAll(Idle.add)
  BY IdleFacts DEF GivenAll
<1> QED BY <1>1, <1>2, <1>3, <1>4, ReadStep, IdleFacts

(* The account is deleted: its rows stay, with their objects.              *)
LEMMA SoftStep ==
  ASSUME FilesInv, SoftDeactivate
  PROVE  FilesInv'
<1>1. /\ registered' = FALSE /\ UNCHANGED <<issued, store, temps, misused, request>>
      /\ asset' = [i \in DOMAIN asset |-> [asset[i] EXCEPT !.is_active = FALSE]]
  BY DEF SoftDeactivate
<1>2. /\ DOMAIN asset' = DOMAIN asset
      /\ \A i \in DOMAIN asset : asset'[i] \in Row /\ asset'[i].key = asset[i].key
  BY <1>1 DEF FilesInv, Typed, Row
<1>3. Standing' = Standing /\ Standing \subseteq DOMAIN asset
  BY <1>1, <1>2 DEF Standing, At
<1>4. Typed' /\ Suffixed'
  BY <1>1, <1>2 DEF FilesInv, Typed, Suffixed, GivenAll, Given
<1>5. \A s \in Request : Removes(request[s])' /\ Inserts(request[s])'
  <2> SUFFICES ASSUME NEW s \in Request PROVE Removes(request[s])' /\ Inserts(request[s])'
    OBVIOUS
  <2>1. Removes(request[s]) /\ Inserts(request[s])
    BY DEF FilesInv
  <2>2. {asset[i].key : i \in request[s].remove} = {asset'[i].key : i \in request[s].remove}
    BY <1>2, <2>1 DEF Removes
  <2> QED BY <1>1, <1>2, <2>1, <2>2 DEF Removes, Inserts
<1>6. InsertsApart' /\ StandsApart' /\ RowsHaveObjects'
  BY <1>1, <1>2, <1>3 DEF FilesInv, InsertsApart, StandsApart, RowsHaveObjects
<1> QED BY <1>4, <1>5, <1>6 DEF FilesInv

(* Another user takes a file for an upload.                                *)
LEMMA ElsewhereStep ==
  ASSUME FilesInv, NEW key \in store, CommitElsewhere(key)
  PROVE  FilesInv'
<1>1. /\ store' = store \ {key} /\ misused' = misused \cup {key}
      /\ UNCHANGED <<registered, asset, issued, temps, request>>
  BY DEF CommitElsewhere
<1>2. Typed' /\ Suffixed'
  BY <1>1 DEF FilesInv, Typed, Suffixed, GivenAll, Given
<1>3. \A s \in Request : Removes(request[s])' /\ Inserts(request[s])'
  BY <1>1 DEF FilesInv, Removes, Inserts
<1>4. Standing' = Standing
  BY <1>1 DEF Standing, At
<1>5. InsertsApart' /\ StandsApart' /\ RowsHaveObjects'
  BY <1>1, <1>4 DEF FilesInv, InsertsApart, StandsApart, RowsHaveObjects
<1> QED BY <1>2, <1>3, <1>5 DEF FilesInv

(* The rest is about uploads and the account.                              *)
LEMMA QuietStep ==
  ASSUME FilesInv, UNCHANGED <<asset, issued, store, misused, request>>,
         registered' \in BOOLEAN, temps' \subseteq Temp
  PROVE  FilesInv'
<1>1. Typed' /\ Suffixed'
  BY DEF FilesInv, Typed, Suffixed, GivenAll, Given
<1>2. \A s \in Request : Removes(request[s])' /\ Inserts(request[s])'
  BY DEF FilesInv, Removes, Inserts
<1>3. Standing' = Standing
  BY DEF Standing, At
<1>4. InsertsApart' /\ StandsApart' /\ RowsHaveObjects'
  BY <1>3 DEF FilesInv, InsertsApart, StandsApart, RowsHaveObjects
<1> QED BY <1>1, <1>2, <1>4 DEF FilesInv

(* No step breaks the invariant, but for a failure after the objects are   *)
(* deleted, and for two requests that remove one row.                      *)
LEMMA FilesStep ==
  ASSUME FilesInv, RemovalsApart, LateFailures = FALSE, [Next]_vars
  PROVE  FilesInv'
<1>1. registered \in BOOLEAN /\ temps \subseteq Temp
  BY DEF FilesInv, Typed
<1>2. CASE SignUp \/ UNCHANGED vars \/ \E t \in Temp : Upload(t)
  BY <1>1, <1>2, QuietStep DEF SignUp, Upload, vars
<1>3. CASE \E r \in Request : \E remove \in SUBSET RowId : \E add \in Lists : Commit(r, remove, add)
  BY <1>3, CommitStep
<1>4. CASE \E r \in Request : DeleteRows(r)
  BY <1>4, DeleteStep
<1>5. CASE \E r \in Request : \E copied \in Copies(request[r].add) : \E unseen \in SUBSET copied :
             Place(r, copied, unseen)
  BY <1>5, PlaceStep
<1>6. CASE \E r \in Request : \E kept \in SUBSET (request[r].paths \cup TempsOf(request[r])) :
             FlushAndClean(r, kept)
  BY <1>6, FlushStep
<1>7. CASE \E r \in Request : (\E name \in Name : DirectUpload(r, name)) \/ SaveProfileImage(r)
  BY <1>7, DirectStep
<1>8. CASE \E r \in Request : CommitSession(r)
  BY <1>8, SessionStep
<1>9. CASE \E r \in Request : Rollback(r)
  BY <1>9, RollbackStep
<1>10. CASE SoftDeactivate
  BY <1>10, SoftStep
<1>11. CASE \E key \in store : CommitElsewhere(key)
  BY <1>11, ElsewhereStep
<1> QED BY <1>2, <1>3, <1>4, <1>5, <1>6, <1>7, <1>8, <1>9, <1>10, <1>11 DEF Next

(* It holds at the start.                                                  *)
LEMMA FilesStart ==
  ASSUME Init
  PROVE  FilesInv
<1>1. /\ registered = FALSE /\ issued = 0 /\ store = {} /\ temps = {} /\ misused = {}
      /\ DOMAIN asset = {}
      /\ request = [r \in Request |-> Idle]
  BY DEF Init
<1>2. Typed /\ Suffixed
  <2>1. request \in [Request -> RequestSet]
    BY <1>1, IdleFacts
  <2>2. 0 \in 0 .. MaxRows
    OBVIOUS
  <2>3. Suffixed
    BY <1>1, IdleFacts DEF Suffixed, GivenAll
  <2> QED BY <1>1, <2>1, <2>2, <2>3 DEF Typed
<1>3. \A r \in Request : request[r] = Idle
  BY <1>1
<1>4. \A r \in Request : Removes(request[r]) /\ Inserts(request[r])
  BY <1>3, IdleFacts DEF Inserts
<1>5. InsertsApart
  BY <1>3, IdleFacts DEF InsertsApart
<1>6. Standing = {}
  BY <1>1 DEF Standing
<1> QED BY <1>2, <1>4, <1>5, <1>6 DEF FilesInv, StandsApart, RowsHaveObjects

-----------------------------------------------------------------------------
(* The theorems *)

(* The inductive invariant: what the requests under way have read of the   *)
(* rows they remove is still so, and the objects they have put are nobody  *)
(* else's, but for those whose keys were misused, as long as no request    *)
(* fails after it has deleted objects and no two remove one row.           *)
THEOREM FilesAreSound ==
  ASSUME LateFailures = FALSE
  PROVE  Spec /\ []RemovalsApart => []FilesInv
<1>1. Init => FilesInv
  BY FilesStart
<1>2. FilesInv /\ RemovalsApart /\ [Next]_vars => FilesInv'
  BY FilesStep
<1> QED BY <1>1, <1>2, PTL DEF Spec

(* Whoever is shown a file can fetch it, and fetches that file: a row that *)
(* stands has its object, which no other row has, unless a request named   *)
(* the file as an upload or put over it, its look-up having failed.        *)
THEOREM RowsAlwaysHaveObjects ==
  ASSUME LateFailures = FALSE
  PROVE  Spec /\ []RemovalsApart => []RowsHaveObjects
<1>1. FilesInv => RowsHaveObjects
  BY DEF FilesInv
<1> QED BY <1>1, FilesAreSound, PTL

(* An upload is taken away only by a request that has put a copy of it     *)
(* under a row it is about to commit, which is there unless its key was    *)
(* misused.                                                                *)
THEOREM UploadsAlwaysSurvive ==
  ASSUME LateFailures = FALSE
  PROVE  Spec /\ []RemovalsApart => UploadsSurvive
<1> DEFINE Covered == \A t \in temps \ temps' :
                       \E r \in Request : \E n \in request[r].new :
                         n.from = t /\ n.key \in store' \cup misused'
<1>1. ASSUME FilesInv, RemovalsApart, NEW r \in Request, NEW kept, FlushAndClean(r, kept)
      PROVE  Covered
  <2>1. /\ request[r].step = "flush" /\ store' = store \ ((request[r].paths \cup TempsOf(request[r])) \ kept)
        /\ misused' = misused
        /\ temps' = temps \ (TempsOf(request[r]) \ kept)
    BY <1>1 DEF FlushAndClean, At
  <2>2. \A n \in request[r].new : n.key \in Key
    <3>1. request[r] \in RequestSet
      BY <1>1 DEF FilesInv, Typed
    <3>2. request[r].new \subseteq NewRow
      BY ONLY <3>1 DEF RequestSet
    <3> QED BY <3>2 DEF NewRow
  <2>4. \A n \in request[r].new :
          n.key \in misused \/ (/\ n.key \in store /\ n.key \notin request[r].paths
                              /\ n.key \notin TempsOf(request[r]))
    BY <1>1, <2>1, <2>2, OwnPaths DEF FilesInv, Inserts
  <2>3. \A t \in temps \ temps' : \E n \in request[r].new : n.from = t
    BY <2>1 DEF TempsOf
  <2> QED BY <2>1, <2>3, <2>4
<1>2. FilesInv /\ RemovalsApart /\ [Next]_vars => [Covered]_vars
  <2> SUFFICES ASSUME FilesInv, RemovalsApart, Next, temps \ temps' # {}
               PROVE  Covered
    OBVIOUS
  <2>1. ~SignUp /\ ~SoftDeactivate /\ (\A t \in Temp : ~Upload(t)) /\ \A key : ~CommitElsewhere(key)
    BY DEF SignUp, SoftDeactivate, Upload, CommitElsewhere
  <2>2. \A r \in Request :
          /\ \A remove, add : ~Commit(r, remove, add)
          /\ ~DeleteRows(r) /\ \A copied, unseen : ~Place(r, copied, unseen)
    BY DEF Commit, DeleteRows, Place
  <2>3. \A r \in Request :
          /\ \A name : ~DirectUpload(r, name)
          /\ ~SaveProfileImage(r) /\ ~CommitSession(r) /\ ~Rollback(r)
    BY DEF DirectUpload, SaveProfileImage, CommitSession, Rollback
  <2>4. \E r \in Request : \E kept : FlushAndClean(r, kept)
    BY <2>1, <2>2, <2>3 DEF Next
  <2> HIDE DEF Covered
  <2> QED BY <1>1, <2>4
<1>3. Spec /\ []RemovalsApart => [][Covered]_vars
  <2> HIDE DEF Covered
  <2> QED BY <1>2, FilesAreSound, PTL DEF Spec
<1> QED BY <1>3 DEF UploadsSurvive

=============================================================================
