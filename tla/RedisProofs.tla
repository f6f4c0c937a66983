----------------------------- MODULE RedisProofs -----------------------------
(***************************************************************************)
(* Theorems about the two parts of the program that meet in Redis, for any *)
(* number of users, groups, codes, requests, clients, tasks and events and *)
(* any size of the queues.                                                 *)
(*                                                                         *)
(* What the program publishes there: the web sockets of a worker, what a   *)
(* client is sent and what it is not.  What it caches there: the members   *)
(* of a team and their rights, of which whatever was read while nothing    *)
(* was being written is true at any later time.                            *)
(***************************************************************************)
EXTENDS Realtime, TeamRoles, TLAPS

(* The web sockets of a worker *)

USE QueueAssumption, TaskAssumption

-----------------------------------------------------------------------------
(* The inductive invariant *)

AnyTeam == Team \cup {CHOOSE t \in Team : TRUE}

ConnSet ==
  [state : {"off", "joining", "open", "leaving", "awaiting"}, team : AnyTeam, quiet : BOOLEAN,
   pings : Nat, queue : Seq(Nat), dropped : Nat, first : Nat, sent : Seq(Nat)]

TaskSet ==
  [state : {"starting", "listening", "closing", "crashed", "done"}, team : AnyTeam, inbox : Seq(Nat)]

(* What was sent, s, and what waits in the queue, u, as one sequence.      *)
Count(s, u)  == Len(s) + Len(u)
Got(s, u, i) == IF i <= Len(s) THEN s[i] ELSE u[i - Len(s)]
Last(s, u)   == Got(s, u, Count(s, u))

(* It is in order, and with the dropped events it is all since the first.  *)
Exact(s, u, dropped, first) ==
  /\ first = 0 => Count(s, u) = 0 /\ dropped = 0
  /\ first > 0 => Count(s, u) > 0 /\ Count(s, u) + dropped + first = Last(s, u) + 1
  /\ \A i, j \in 1 .. Count(s, u) : i < j => Got(s, u, i) < Got(s, u, j)

(* What becomes of a queue u that is offered e, and when full loses its    *)
(* oldest.                                                                 *)
Taken(u, d, f, e, u2, d2, f2, full) ==
  /\ full \in {0, 1} /\ (full = 1 => Len(u) > 0)
  /\ Len(u2) = Len(u) - full + 1 /\ u2[Len(u2)] = e
  /\ \A i \in 1 .. Len(u) - full : u2[i] = u[i + full]
  /\ d2 = d + full /\ f2 = IF f = 0 THEN e ELSE f

Orderly(r) == Exact(r.sent, r.queue, r.dropped, r.first)
Latest(r)  == Last(r.sent, r.queue)

(* A task has in its inbox the last events of its team, without a gap.     *)
Consecutive(k) ==
  LET r == task[k] IN
  /\ r.state = "starting" => r.inbox = <<>>
  /\ r.state = "listening" =>
       /\ Len(r.inbox) <= published[r.team]
       /\ \A m \in 1 .. Len(r.inbox) : r.inbox[m] + Len(r.inbox) = published[r.team] + m

Typed ==
  /\ published \in [Team -> Nat]
  /\ conn \in [Conn -> ConnSet]
  /\ task \in [Task -> TaskSet]
  /\ by_team \in [Team -> SUBSET Conn]
  /\ subscriber_tasks \in [Team -> Task \cup {NoTask}]
  /\ \A c \in Conn : conn[c].state # "off" => conn[c].team \in Team
  /\ \A k \in Task : Alive(k) => task[k].team \in Team

(* The task that hears for a team is the registered one, and a team with   *)
(* connections has one, if only a crashed one.                             *)
Registered ==
  /\ \A k \in Task : Alive(k) => subscriber_tasks[task[k].team] = k
  /\ \A t \in Team : by_team[t] # {} => subscriber_tasks[t] # NoTask
  /\ \A t \in Team : \A c \in by_team[t] : conn[c].team = t /\ conn[c].state \in {"open", "leaving"}

(* A registered connection is as far as the task that hears for its team.  *)
InStep ==
  \A k \in Task : Alive(k) =>
    \A c \in by_team[task[k].team] :
      conn[c].first > 0 =>
        /\ task[k].state = "listening"
        /\ Latest(conn[c]) + Len(task[k].inbox) = published[task[k].team]

RealtimeInv ==
  /\ Typed /\ Registered /\ InStep
  /\ \A k \in Task : Consecutive(k)
  /\ \A c \in Conn : Orderly(conn[c]) /\ (conn[c].state = "joining" => conn[c].first = 0)

-----------------------------------------------------------------------------
(* What a connection holds *)

(* The events in their places.                                             *)
LEMMA GotFacts ==
  ASSUME NEW s \in Seq(Nat), NEW u \in Seq(Nat)
  PROVE  /\ Len(s) \in Nat /\ Len(u) \in Nat /\ Count(s, u) \in Nat
         /\ \A i \in 1 .. Count(s, u) : Got(s, u, i) \in Nat
<1>1. Len(s) \in Nat /\ Len(u) \in Nat /\ Count(s, u) \in Nat
  BY DEF Count
<1>2. ASSUME NEW i \in 1 .. Count(s, u) PROVE Got(s, u, i) \in Nat
  <2>1. CASE i <= Len(s)
    <3>1. i \in 1 .. Len(s)
      BY <1>1, <2>1 DEF Count
    <3> QED BY <2>1, <3>1 DEF Got
  <2>2. CASE ~(i <= Len(s))
    <3>1. i - Len(s) \in 1 .. Len(u)
      BY <1>1, <2>2 DEF Count
    <3> QED BY <2>2, <3>1 DEF Got
  <2> QED BY <2>1, <2>2
<1> QED BY <1>1, <1>2

(* A cancelled task hears no more.                                         *)
LEMMA CancelledFacts ==
  ASSUME NEW r \in TaskSet
  PROVE  Cancelled(r) \in TaskSet /\ Cancelled(r).state = "closing"
<1> PICK none : none = <<>>
  OBVIOUS
<1>3. none \in Seq(Nat)
  OBVIOUS
<1>1. r = [state |-> r.state, team |-> r.team, inbox |-> r.inbox] /\ r.team \in AnyTeam
  BY DEF TaskSet
<1>2. Cancelled(r) = [r EXCEPT !.state = "closing", !.inbox = none]
  BY DEF Cancelled
<1> QED BY ONLY <1>1, <1>2, <1>3 DEF TaskSet

(* A connection that is off, or a task that is done, holds nothing.        *)
LEMMA Blank ==
  /\ Off \in ConnSet /\ Off.state = "off" /\ Off.first = 0 /\ Orderly(Off)
  /\ Done \in TaskSet /\ Done.state = "done" /\ Done.inbox = <<>>
<1>1. /\ Off \in ConnSet /\ Off.state = "off" /\ Off.first = 0 /\ Off.sent = <<>> /\ Off.queue = <<>>
      /\ Off.dropped = 0
  BY DEF Off, ConnSet, AnyTeam
<1>2. Exact(<<>>, <<>>, 0, 0)
  BY DEF Exact, Count
<1>3. Done \in TaskSet /\ Done.state = "done" /\ Done.inbox = <<>>
  BY DEF Done, TaskSet, AnyTeam
<1> QED BY <1>1, <1>2, <1>3 DEF Orderly

(* send_loop moves an event from the queue to the client.                  *)
LEMMA SendKeeps ==
  ASSUME NEW s \in Seq(Nat), NEW u \in Seq(Nat), u # <<>>, NEW d, NEW f, Exact(s, u, d, f)
  PROVE  /\ Exact(Append(s, Head(u)), Tail(u), d, f)
         /\ Last(Append(s, Head(u)), Tail(u)) = Last(s, u)
<1> PICK s2 : s2 = Append(s, Head(u))
  OBVIOUS
<1> PICK u2 : u2 = Tail(u)
  OBVIOUS
<1>1. /\ Len(s) \in Nat /\ Len(u) \in Nat /\ Len(u) > 0
      /\ Len(s2) = Len(s) + 1 /\ Len(u2) = Len(u) - 1
      /\ s2[Len(s) + 1] = u[1] /\ \A i \in 1 .. Len(s) : s2[i] = s[i]
      /\ \A i \in 1 .. Len(u2) : u2[i] = u[i + 1]
  OBVIOUS
<1>2. Count(s2, u2) = Count(s, u) /\ Count(s, u) \in Nat /\ Count(s, u) > 0
  BY <1>1 DEF Count
<1>3. ASSUME NEW i \in 1 .. Count(s, u) PROVE Got(s2, u2, i) = Got(s, u, i)
  BY <1>1 DEF Got, Count
<1>4. Last(s2, u2) = Last(s, u)
  BY <1>2, <1>3 DEF Last
<1> QED BY <1>2, <1>3, <1>4 DEF Exact

(* A queue takes an event, and loses its oldest when it is full.           *)
LEMMA QueueKeeps ==
  ASSUME NEW s \in Seq(Nat), NEW u \in Seq(Nat), NEW d \in Nat, NEW f \in Nat,
         Exact(s, u, d, f), NEW e \in Nat, e > 0, f > 0 => e = Last(s, u) + 1,
         NEW u2 \in Seq(Nat), NEW d2 \in Nat, NEW f2 \in Nat,
         NEW full \in {0, 1}, Taken(u, d, f, e, u2, d2, f2, full)
  PROVE  Exact(s, u2, d2, f2) /\ Last(s, u2) = e
<1>0. full \in {0, 1} /\ (full = 1 => Len(u) > 0) /\ d2 = d + full /\ f2 = IF f = 0 THEN e ELSE f
  BY DEF Taken
<1>1. /\ Len(s) \in Nat /\ Len(u) \in Nat /\ Len(u2) \in Nat /\ Len(u2) > 0
      /\ Count(s, u2) = Count(s, u) - full + 1 /\ Count(s, u) \in Nat /\ Count(s, u2) > Len(s)
      /\ Count(s, u2) \in Nat
      /\ full \in Nat /\ full <= 1
  <2>1. /\ Len(s) \in Nat /\ Len(u) \in Nat /\ Len(u2) \in Nat /\ Len(u2) = Len(u) - full + 1
    BY DEF Taken
  <2> PICK l \in Nat, m \in Nat, n \in Nat : l = Len(s) /\ m = Len(u) /\ n = Len(u2)
    BY <2>1
  <2>2. n = m - full + 1 /\ (full = 1 => m > 0) /\ full \in {0, 1}
    BY ONLY <1>0, <2>1, l = Len(s), m = Len(u), n = Len(u2)
  <2>3. Count(s, u) = l + m /\ Count(s, u2) = l + n
    BY DEF Count
  <2>4. /\ n > 0 /\ l + n = l + m - full + 1 /\ l + m \in Nat /\ l + n > l /\ l + n \in Nat
        /\ full \in Nat /\ full <= 1
    BY ONLY l \in Nat, m \in Nat, n \in Nat, <2>2
  <2> QED BY ONLY <2>1, <2>3, <2>4, l = Len(s), m = Len(u), n = Len(u2)
<1>2. Last(s, u2) = e
  BY <1>0, <1>1 DEF Last, Got, Count, Taken
<1>3. ASSUME NEW i \in 1 .. Count(s, u) - full
      PROVE  \E n \in 1 .. Count(s, u) :
                /\ Got(s, u2, i) = Got(s, u, n)
                /\ n = IF i <= Len(s) THEN i ELSE i + full
  <2>1. CASE i <= Len(s)
    <3>1. i \in 1 .. Count(s, u) /\ Got(s, u2, i) = Got(s, u, i)
      BY <1>0, <1>1, <2>1 DEF Got, Count
    <3> QED BY <1>0, <2>1, <3>1
  <2>2. CASE ~(i <= Len(s))
    <3>1. i - Len(s) \in 1 .. Len(u) - full /\ i + full \in 1 .. Count(s, u)
      BY <1>0, <1>1, <2>2 DEF Count
    <3>2. Got(s, u2, i) = u[i - Len(s) + full]
      BY <1>0, <2>2, <3>1 DEF Got, Taken
    <3>3. Got(s, u, i + full) = u[i + full - Len(s)]
      BY <1>0, <1>1, <2>2 DEF Got
    <3>4. i - Len(s) + full = i + full - Len(s)
      BY <1>0, <1>1
    <3> QED BY <1>0, <2>2, <3>1, <3>2, <3>3, <3>4
  <2> QED BY <1>0, <2>1, <2>2
<1>4. ASSUME NEW n \in 1 .. Count(s, u) PROVE Got(s, u, n) < e
  <2>1. Count(s, u) # 0 /\ Count(s, u) \in 1 .. Count(s, u)
    BY <1>0, <1>1
  <2>3. f > 0 /\ e = Last(s, u) + 1
    BY <1>0, <2>1 DEF Exact
  <2>4. Got(s, u, n) \in Nat /\ Last(s, u) \in Nat
    BY <1>0, <2>1, GotFacts DEF Last
  <2>2. n = Count(s, u) \/ Got(s, u, n) < Last(s, u)
    BY <1>0, <1>1, <2>1 DEF Exact, Last
  <2> QED BY <1>0, <2>2, <2>3, <2>4 DEF Last
<1>5. ASSUME NEW i \in 1 .. Count(s, u2), NEW j \in 1 .. Count(s, u2), i < j
      PROVE  Got(s, u2, i) < Got(s, u2, j)
  <2>4. i \in 1 .. Count(s, u) - full
    BY <1>0, <1>1, <1>5
  <2>1. PICK n \in 1 .. Count(s, u) :
           Got(s, u2, i) = Got(s, u, n) /\ n = IF i <= Len(s) THEN i ELSE i + full
    BY <1>0, <1>3, <2>4
  <2>2. CASE j = Count(s, u2)
    BY <1>0, <1>2, <1>4, <2>1, <2>2 DEF Last
  <2>3. CASE j # Count(s, u2)
    <3>5. \A a, b \in Nat : j \in 1 .. a /\ a = b - full + 1 /\ j # a => j \in 1 .. b - full
      BY ONLY <1>0
    <3>4. j \in 1 .. Count(s, u) - full
      BY <1>0, <1>1, <2>3, <3>5
    <3>1. PICK m \in 1 .. Count(s, u) :
             Got(s, u2, j) = Got(s, u, m) /\ m = IF j <= Len(s) THEN j ELSE j + full
      BY <1>0, <1>3, <3>4
    <3>2. n < m
      BY <1>0, <1>1, <1>5, <2>1, <3>1
    <3> QED BY <1>0, <2>1, <3>1, <3>2 DEF Exact
  <2> QED BY <1>0, <2>2, <2>3
<1>6. Count(s, u2) + d2 + f2 = e + 1
  <2>1. CASE f = 0
    <3>1. Count(s, u) = 0 /\ d = 0 /\ full = 0
      <4>1. Count(s, u) = 0 /\ d = 0
        BY <1>0, <2>1 DEF Exact
      <4>2. Len(u) = 0
        BY <1>0, <1>1, <4>1 DEF Count
      <4> QED BY <1>0, <4>1, <4>2
    <3>2. Count(s, u2) = 1
      BY <1>0, <1>1, <3>1
    <3> QED BY <1>0, <2>1, <3>1, <3>2
  <2>2. CASE f > 0
    <3>1. Count(s, u) + d + f = e
      BY <1>0, <2>2 DEF Exact
    <3>2. Count(s, u2) = Count(s, u) - full + 1 /\ Count(s, u) \in Nat
      BY <1>0, <1>1
    <3>3. d2 = d + full /\ f2 = f
      BY <1>0, <2>2
    <3>4. Count(s, u2) + d2 + f2 = Count(s, u) + d + f + 1
      BY ONLY <1>0, <3>2, <3>3, d \in Nat, f \in Nat
    <3> QED BY <1>0, <3>1, <3>4
  <2> QED BY <1>0, <2>1, <2>2
<1>7. f2 > 0 /\ Count(s, u2) > 0
  BY <1>0, <1>1
<1> QED BY <1>0, <1>2, <1>5, <1>6, <1>7 DEF Exact

(* The next event is offered to a connection.                              *)
LEMMA OfferKeeps ==
  ASSUME NEW r \in ConnSet, Orderly(r), NEW e \in Nat, e > 0,
         r.first > 0 => e = Latest(r) + 1
  PROVE  /\ Offer(r, e) \in ConnSet /\ Orderly(Offer(r, e))
         /\ Latest(Offer(r, e)) = e /\ Offer(r, e).first > 0
         /\ Offer(r, e).state = r.state /\ Offer(r, e).team = r.team
<1> PICK q : q = Offer(r, e)
  OBVIOUS
<1> PICK s \in Seq(Nat), u \in Seq(Nat), d \in Nat, f \in Nat :
      s = r.sent /\ u = r.queue /\ d = r.dropped /\ f = r.first
  BY DEF ConnSet
<1> PICK kept : kept = IF Len(u) < SEND_QUEUE_MAXSIZE THEN u ELSE Tail(u)
  OBVIOUS
<1> PICK full \in {0, 1} : full = IF Len(u) < SEND_QUEUE_MAXSIZE THEN 0 ELSE 1
  OBVIOUS
<1>1. Len(u) \in Nat /\ (full = 1 => Len(u) > 0)
  OBVIOUS
<1>2. kept \in Seq(Nat) /\ Len(kept) = Len(u) - full /\ \A i \in 1 .. Len(kept) : kept[i] = u[i + full]
  <2>1. CASE full = 0
    BY <1>1, <2>1
  <2>2. CASE full = 1
    BY <1>1, <2>2
  <2> QED BY <2>1, <2>2
<1> PICK u2 : u2 = Append(kept, e)
  OBVIOUS
<1> PICK d2 \in Nat : d2 = d + full
  OBVIOUS
<1> PICK f2 \in Nat : f2 = IF f = 0 THEN e ELSE f
  OBVIOUS
<1>3. u2 \in Seq(Nat) /\ Taken(u, d, f, e, u2, d2, f2, full)
  <2>1. /\ u2 \in Seq(Nat) /\ Len(u2) = Len(kept) + 1 /\ u2[Len(u2)] = e
        /\ \A i \in 1 .. Len(kept) : u2[i] = kept[i]
    BY ONLY <1>2, e \in Nat, u2 = Append(kept, e)
  <2>2. /\ Len(u2) = Len(u) - full + 1
        /\ \A i \in 1 .. Len(u) - full : u2[i] = u[i + full]
    BY ONLY <1>2, <2>1
  <2> QED BY ONLY <1>1, <2>1, <2>2, full \in {0, 1}, d2 = d + full, f2 = IF f = 0 THEN e ELSE f
          DEF Taken
<1>4. Exact(s, u2, d2, f2) /\ Last(s, u2) = e
  <2>1. Exact(s, u, d, f) /\ (f > 0 => e = Last(s, u) + 1)
    BY DEF Orderly, Latest
  <2>2. s \in Seq(Nat) /\ u \in Seq(Nat) /\ d \in Nat /\ f \in Nat /\ e \in Nat /\ e > 0 /\ u2 \in Seq(Nat)
    BY <1>3
  <2>3. d2 \in Nat /\ f2 \in Nat /\ full \in {0, 1} /\ Taken(u, d, f, e, u2, d2, f2, full)
    BY <1>3
  <2>4. Exact(s, u2, d2, f2)
    BY ONLY <2>1, <2>2, <2>3, QueueKeeps
  <2>5. Last(s, u2) = e
    BY ONLY <2>1, <2>2, <2>3, QueueKeeps
  <2> QED BY <2>4, <2>5
<1>5. /\ q.queue = u2 /\ q.sent = s /\ q.dropped = d2 /\ q.first = f2
      /\ q.state = r.state /\ q.team = r.team /\ q.quiet = r.quiet /\ q.pings = r.pings
      /\ q = [state |-> q.state, team |-> q.team, quiet |-> q.quiet, pings |-> q.pings,
              queue |-> q.queue, dropped |-> q.dropped, first |-> q.first, sent |-> q.sent]
  <2>1. r = [state |-> r.state, team |-> r.team, quiet |-> r.quiet, pings |-> r.pings,
             queue |-> u, dropped |-> d, first |-> f, sent |-> s]
    BY DEF ConnSet
  <2>2. d + full = IF Len(u) < SEND_QUEUE_MAXSIZE THEN d ELSE d + 1
    OBVIOUS
  <2> QED BY <2>1, <2>2 DEF Offer
<1>6. q \in ConnSet /\ q.first > 0
  <2>1. r.state \in {"off", "joining", "open", "leaving", "awaiting"} /\ r.team \in AnyTeam
        /\ r.quiet \in BOOLEAN /\ r.pings \in Nat
    BY DEF ConnSet
  <2>2. q = [state |-> r.state, team |-> r.team, quiet |-> r.quiet, pings |-> r.pings,
             queue |-> u2, dropped |-> d2, first |-> f2, sent |-> s]
    BY <1>5
  <2>3. q \in ConnSet
    BY <1>3, <2>1, <2>2 DEF ConnSet
  <2> QED BY <1>5, <2>3
<1>7. Orderly(q) /\ Latest(q) = e
  BY <1>4, <1>5 DEF Orderly, Latest
<1> QED BY <1>5, <1>6, <1>7

-----------------------------------------------------------------------------
(* Every step keeps the invariant *)

(* A step of a connection alone: it begins or ends, or keeps its place in  *)
(* the registry and what it was offered.                                   *)
LEMMA OneConnection ==
  ASSUME RealtimeInv, NEW c \in Conn, NEW r \in ConnSet, conn' = [conn EXCEPT ![c] = r],
         UNCHANGED <<published, by_team, subscriber_tasks, task>>,
         r.state # "off" => r.team \in Team, Orderly(r), r.state = "joining" => r.first = 0,
         \/ conn[c].state \notin {"open", "leaving"}
         \/ /\ r.team = conn[c].team /\ r.state \in {"open", "leaving"}
            /\ r.first = conn[c].first /\ Latest(r) = Latest(conn[c])
  PROVE  RealtimeInv'
<1> USE DEF RealtimeInv
<1>1. conn' \in [Conn -> ConnSet] /\ conn'[c] = r /\ \A b \in Conn \ {c} : conn'[b] = conn[b]
  BY DEF Typed
<1>2. Typed'
  BY <1>1 DEF Typed, Alive
<1>3. Registered'
  BY <1>1 DEF Typed, Registered, Alive
<1>4. InStep'
  <2> SUFFICES ASSUME NEW k \in Task, Alive(k), NEW b \in by_team[task[k].team], conn'[b].first > 0
               PROVE  /\ task[k].state = "listening"
                      /\ Latest(conn'[b]) + Len(task[k].inbox) = published[task[k].team]
    BY DEF InStep, Alive, Latest
  <2>1. task[k].team \in Team /\ b \in Conn /\ conn[b].state \in {"open", "leaving"}
    BY DEF Typed, Registered
  <2>2. conn'[b].first = conn[b].first /\ Latest(conn'[b]) = Latest(conn[b])
    BY <1>1, <2>1
  <2> QED BY <2>1, <2>2 DEF InStep
<1>5. \A k \in Task : Consecutive(k)'
  BY DEF Consecutive
<1>6. \A b \in Conn : Orderly(conn'[b]) /\ (conn'[b].state = "joining" => conn'[b].first = 0)
  BY <1>1
<1> QED BY <1>2, <1>3, <1>4, <1>5, <1>6 DEF Orderly

(* A step of a task alone: it ends, or has subscribed.                     *)
LEMMA OneTask ==
  ASSUME RealtimeInv, NEW k \in Task, NEW r \in TaskSet, task' = [task EXCEPT ![k] = r],
         UNCHANGED <<published, conn, by_team, subscriber_tasks>>,
         \/ r.state \in {"closing", "crashed", "done"}
         \/ /\ task[k].state = "starting" /\ r.state = "listening"
            /\ r.team = task[k].team /\ r.inbox = task[k].inbox
  PROVE  RealtimeInv'
<1> USE DEF RealtimeInv
<1>1. task' \in [Task -> TaskSet] /\ task'[k] = r /\ \A j \in Task \ {k} : task'[j] = task[j]
  BY DEF Typed
<1>2. \A j \in Task : Alive(j)' => Alive(j) /\ task'[j].team = task[j].team /\ task'[j].inbox = task[j].inbox
  BY <1>1 DEF Alive
<1>3. Typed'
  BY <1>1, <1>2 DEF Typed
<1>4. Registered'
  BY <1>1, <1>2 DEF Typed, Registered
<1>5. InStep'
  <2> SUFFICES ASSUME NEW j \in Task, Alive(j)', NEW b \in by_team[task'[j].team], conn[b].first > 0
               PROVE  /\ task'[j].state = "listening"
                      /\ Latest(conn[b]) + Len(task'[j].inbox) = published[task'[j].team]
    BY DEF InStep, Latest
  <2>1. task[j].state = "listening" /\ Latest(conn[b]) + Len(task[j].inbox) = published[task[j].team]
    BY <1>2 DEF InStep
  <2> QED BY <1>1, <1>2, <2>1 DEF Alive
<1>6. \A j \in Task : Consecutive(j)'
  <2> SUFFICES ASSUME NEW j \in Task PROVE Consecutive(j)'
    OBVIOUS
  <2>1. Consecutive(j)
    OBVIOUS
  <2>2. CASE j # k \/ r.state # "listening"
    BY <1>1, <2>1, <2>2 DEF Consecutive
  <2>3. CASE j = k /\ r.state = "listening"
    <3>1. r.inbox = <<>> /\ published[r.team] \in Nat
      BY <1>1, <1>3, <2>1, <2>3 DEF Consecutive, Typed, Alive
    <3> QED BY <1>1, <2>3, <3>1 DEF Consecutive
  <2> QED BY <2>2, <2>3
<1> QED BY <1>3, <1>4, <1>5, <1>6 DEF Orderly

(* A connection registers, and the first one of a team starts its task.    *)
LEMMA RegisterKeeps ==
  ASSUME RealtimeInv, NEW c \in Conn, Register(c)
  PROVE  RealtimeInv'
<1> USE DEF RealtimeInv
<1> PICK t : t = conn[c].team
  OBVIOUS
<1>1. /\ conn[c] \in ConnSet /\ t \in Team /\ conn[c].state = "joining" /\ conn[c].first = 0
      /\ \A s \in Team : c \notin by_team[s]
  BY DEF Register, Typed, Registered
<1> PICK r : r = [conn[c] EXCEPT !.state = "open"]
  OBVIOUS
<1>2. /\ r \in ConnSet /\ r.team = t /\ r.state = "open" /\ r.first = 0 /\ Orderly(r)
      /\ conn' = [conn EXCEPT ![c] = r]
  BY <1>1 DEF ConnSet, Orderly, Register
<1>3. conn' \in [Conn -> ConnSet] /\ conn'[c] = r /\ \A b \in Conn \ {c} : conn'[b] = conn[b]
  BY <1>2 DEF Typed
<1>4. /\ by_team' \in [Team -> SUBSET Conn] /\ by_team'[t] = by_team[t] \cup {c}
      /\ \A s \in Team \ {t} : by_team'[s] = by_team[s]
      /\ UNCHANGED published /\ published \in [Team -> Nat]
  BY <1>1 DEF Register, Typed
<1>5. \A b \in Conn : Orderly(conn'[b]) /\ (conn'[b].state = "joining" => conn'[b].first = 0)
  BY <1>2, <1>3
<1>6. \A s \in Team : \A b \in by_team'[s] : conn'[b].team = s /\ conn'[b].state \in {"open", "leaving"}
  BY <1>1, <1>2, <1>3, <1>4 DEF Registered, Typed
<1>7. CASE subscriber_tasks[t] # NoTask
  <2>1. UNCHANGED <<subscriber_tasks, task>>
    BY <1>7 DEF Register
  <2>2. Typed'
    <3>1. \A b \in Conn : conn'[b].state # "off" => conn'[b].team \in Team
      BY <1>1, <1>2, <1>3 DEF Typed
    <3>2. \A k \in Task : Alive(k)' => task'[k].team \in Team
      BY <2>1 DEF Typed, Alive
    <3> QED BY <1>3, <1>4, <2>1, <3>1, <3>2 DEF Typed
  <2>3. Registered'
    BY <1>4, <1>6, <1>7, <2>1 DEF Registered, Alive
  <2>4. InStep'
    <3> SUFFICES ASSUME NEW k \in Task, Alive(k), NEW b \in by_team'[task[k].team], conn'[b].first > 0
                 PROVE  /\ task[k].state = "listening"
                        /\ Latest(conn'[b]) + Len(task[k].inbox) = published[task[k].team]
      BY <1>4, <2>1 DEF InStep, Alive, Latest
    <3>1. task[k].team \in Team /\ b \in Conn
      BY <1>4 DEF Typed
    <3>2. b # c /\ b \in by_team[task[k].team] /\ conn'[b] = conn[b]
      BY <1>2, <1>3, <1>4, <3>1
    <3> QED BY <3>1, <3>2 DEF InStep
  <2>5. \A k \in Task : Consecutive(k)'
    BY <1>4, <2>1 DEF Consecutive
  <2> QED BY <1>5, <2>2, <2>3, <2>4, <2>5 DEF Orderly
<1>8. CASE subscriber_tasks[t] = NoTask
  <2> PICK d : d = [Done EXCEPT !.state = "starting", !.team = t]
    OBVIOUS
  <2>1. d \in TaskSet /\ d.state = "starting" /\ d.team = t /\ d.inbox = <<>>
    BY <1>1, Blank DEF TaskSet, AnyTeam
  <2>2. PICK k \in Free : /\ subscriber_tasks' = [subscriber_tasks EXCEPT ![t] = k]
                          /\ task' = [task EXCEPT ![k] = d]
    BY <1>8 DEF Register
  <2>3. k \in Task /\ k # NoTask
    BY DEF Free
  <2>4. /\ task' \in [Task -> TaskSet] /\ task'[k] = d /\ \A j \in Task \ {k} : task'[j] = task[j]
        /\ subscriber_tasks' \in [Team -> Task \cup {NoTask}] /\ subscriber_tasks'[t] = k
        /\ \A s \in Team \ {t} : subscriber_tasks'[s] = subscriber_tasks[s]
    BY <1>1, <2>1, <2>2, <2>3 DEF Typed
  <2>5. \A j \in Task \ {k} : Alive(j)' => Alive(j) /\ task[j].team \in Team \ {t}
    BY <1>8, <2>4 DEF Alive, Typed, Registered
  <2>6. Typed'
    <3>1. \A b \in Conn : conn'[b].state # "off" => conn'[b].team \in Team
      BY <1>1, <1>2, <1>3 DEF Typed
    <3>2. ASSUME NEW j \in Task, Alive(j)' PROVE task'[j].team \in Team
      <4>1. CASE j = k
        BY <1>1, <2>1, <2>4, <4>1
      <4>2. CASE j # k
        BY <2>4, <2>5, <3>2, <4>2
      <4> QED BY <4>1, <4>2
    <3> QED BY <1>3, <1>4, <2>4, <3>1, <3>2 DEF Typed
  <2>7. Registered'
    <3>1. \A j \in Task : Alive(j)' => subscriber_tasks'[task'[j].team] = j
      <4> SUFFICES ASSUME NEW j \in Task, Alive(j)' PROVE subscriber_tasks'[task'[j].team] = j
        OBVIOUS
      <4>1. CASE j = k
        BY <2>1, <2>4, <4>1
      <4>2. CASE j # k
        BY <2>4, <2>5, <4>2 DEF Registered
      <4> QED BY <4>1, <4>2
    <3>2. \A s \in Team : by_team'[s] # {} => subscriber_tasks'[s] # NoTask
      BY <1>4, <2>3, <2>4 DEF Registered
    <3> QED BY <1>6, <3>1, <3>2 DEF Registered
  <2>8. InStep'
    <3> SUFFICES ASSUME NEW j \in Task, Alive(j)', NEW b \in by_team'[task'[j].team], conn'[b].first > 0
                 PROVE  /\ task'[j].state = "listening"
                        /\ Latest(conn'[b]) + Len(task'[j].inbox) = published[task'[j].team]
      BY <1>4 DEF InStep, Latest
    <3>1. ASSUME j = k PROVE FALSE
      <4>1. by_team'[t] = {c}
        BY <1>1, <1>4, <1>8 DEF Registered
      <4>2. task'[j].team = t
        BY <2>1, <2>4, <3>1
      <4>3. conn'[b].first = 0
        BY <1>2, <1>3, <4>1, <4>2
      <4> QED BY <4>3
    <3>2. Alive(j) /\ task'[j] = task[j] /\ b \in by_team[task[j].team] /\ b \in Conn /\ conn'[b] = conn[b]
      BY <1>2, <1>3, <1>4, <2>4, <2>5, <3>1
    <3> QED BY <3>2 DEF InStep
  <2>9. \A j \in Task : Consecutive(j)'
    <3> SUFFICES ASSUME NEW j \in Task PROVE Consecutive(j)'
      OBVIOUS
    <3>1. CASE j = k
      BY <2>1, <2>4, <3>1 DEF Consecutive
    <3>2. CASE j # k
      BY <1>4, <2>4, <3>2 DEF Consecutive
    <3> QED BY <3>1, <3>2
  <2> QED BY <1>5, <2>6, <2>7, <2>8, <2>9 DEF Orderly
<1> QED BY <1>7, <1>8

(* A connection leaves the registry, and the last one of a team cancels    *)
(* its task.                                                               *)
LEMMA UnregisterKeeps ==
  ASSUME RealtimeInv, NEW c \in Conn, Unregister(c)
  PROVE  RealtimeInv'
<1> USE DEF RealtimeInv
<1> PICK t : t = conn[c].team
  OBVIOUS
<1> PICK k : k = subscriber_tasks[t]
  OBVIOUS
<1> PICK last \in BOOLEAN : last = (by_team[t] = {c})
  OBVIOUS
<1>1. /\ conn[c] \in ConnSet /\ t \in Team /\ conn[c].state = "leaving"
      /\ k \in Task \cup {NoTask}
      /\ \A s \in Team \ {t} : c \notin by_team[s]
  BY DEF Unregister, Typed, Registered
<1>2. /\ by_team' \in [Team -> SUBSET Conn] /\ by_team'[t] = by_team[t] \ {c}
      /\ \A s \in Team \ {t} : by_team'[s] = by_team[s]
      /\ UNCHANGED published /\ published \in [Team -> Nat]
      /\ subscriber_tasks' \in [Team -> Task \cup {NoTask}]
      /\ subscriber_tasks'[t] = (IF last THEN NoTask ELSE k)
      /\ \A s \in Team \ {t} : subscriber_tasks'[s] = subscriber_tasks[s]
  BY <1>1 DEF Unregister, Typed
<1>3. PICK r \in ConnSet : /\ conn' = [conn EXCEPT ![c] = r] /\ r.state \in {"off", "awaiting"}
                           /\ Orderly(r) /\ (r.state # "off" => r.team \in Team)
  <2> PICK w : w = [conn[c] EXCEPT !.state = "awaiting"]
    OBVIOUS
  <2>1. w \in ConnSet /\ w.state = "awaiting" /\ w.team = t /\ Orderly(w)
    BY <1>1 DEF ConnSet, Orderly
  <2>2. conn' = [conn EXCEPT ![c] = w] \/ conn' = [conn EXCEPT ![c] = Off]
    BY DEF Unregister
  <2> QED BY <1>1, <2>1, <2>2, Blank
<1>4. conn' \in [Conn -> ConnSet] /\ conn'[c] = r /\ \A b \in Conn \ {c} : conn'[b] = conn[b]
  BY <1>3 DEF Typed
<1>5. /\ task' \in [Task -> TaskSet]
      /\ \A j \in Task : task'[j] = task[j] \/ (j = k /\ last /\ ~Alive(j)')
      /\ \A j \in Task : j = k /\ last => ~Alive(j)'
  <2>1. CASE last /\ k # NoTask /\ Alive(k)
    <3> PICK d : d = Cancelled(task[k])
      OBVIOUS
    <3>1. task' = [task EXCEPT ![k] = d] /\ k \in Task
      BY <1>1, <2>1 DEF Unregister
    <3>2. d \in TaskSet /\ d.state = "closing"
      <4>1. task[k] \in TaskSet
        BY <3>1 DEF Typed
      <4> QED BY <4>1, CancelledFacts
    <3> QED BY <2>1, <3>1, <3>2 DEF Typed, Alive
  <2>2. CASE last /\ k # NoTask /\ ~Alive(k)
    <3>1. task' = [task EXCEPT ![k] = Done] /\ k \in Task
      BY <1>1, <2>2 DEF Unregister
    <3> QED BY <2>2, <3>1, Blank DEF Typed, Alive
  <2>3. CASE ~(last /\ k # NoTask)
    <3>1. task' = task
      BY <2>3 DEF Unregister
    <3> QED BY <2>3, <3>1 DEF Typed
  <2> QED BY <2>1, <2>2, <2>3
<1>6. \A j \in Task : Alive(j)' => Alive(j) /\ task'[j] = task[j] /\ ~(j = k /\ last)
  BY <1>5 DEF Alive
<1>7. Typed'
  BY <1>2, <1>3, <1>4, <1>5, <1>6 DEF Typed
<1>8. Registered'
  <2>1. \A j \in Task : Alive(j)' => subscriber_tasks'[task'[j].team] = j
    BY <1>1, <1>2, <1>6 DEF Registered, Typed
  <2>2. \A s \in Team : by_team'[s] # {} => subscriber_tasks'[s] # NoTask
    <3>1. by_team'[t] # {} => ~last /\ by_team[t] # {}
      BY <1>2
    <3> QED BY <1>2, <3>1 DEF Registered
  <2>3. \A s \in Team : \A b \in by_team'[s] : b # c /\ b \in Conn /\ b \in by_team[s]
    BY <1>1, <1>2 DEF Typed
  <2> QED BY <1>4, <2>1, <2>2, <2>3 DEF Registered
<1>9. InStep'
  <2> SUFFICES ASSUME NEW j \in Task, Alive(j)', NEW b \in by_team'[task'[j].team], conn'[b].first > 0
               PROVE  /\ task'[j].state = "listening"
                      /\ Latest(conn'[b]) + Len(task'[j].inbox) = published[task'[j].team]
    BY <1>2 DEF InStep, Latest
  <2>1. Alive(j) /\ task'[j] = task[j] /\ task[j].team \in Team
    BY <1>6 DEF Typed
  <2>2. b # c /\ b \in by_team[task[j].team] /\ b \in Conn
    BY <1>1, <1>2, <2>1 DEF Typed
  <2> QED BY <1>4, <2>1, <2>2 DEF InStep
<1>10. \A j \in Task : Consecutive(j)'
  BY <1>2, <1>5, <1>6 DEF Consecutive, Alive
<1>11. \A b \in Conn : Orderly(conn'[b]) /\ (conn'[b].state = "joining" => conn'[b].first = 0)
  BY <1>3, <1>4
<1> QED BY <1>7, <1>8, <1>9, <1>10, <1>11 DEF Orderly

(* What was last offered is an event.                                      *)
LEMMA LatestIsNat ==
  ASSUME NEW r \in ConnSet, Orderly(r), r.first > 0
  PROVE  Latest(r) \in Nat
<1> PICK s \in Seq(Nat), u \in Seq(Nat) : s = r.sent /\ u = r.queue
  BY DEF ConnSet
<1>1. Count(s, u) > 0 /\ Count(s, u) \in Nat
  BY GotFacts DEF Orderly, Exact
<1>2. Count(s, u) \in 1 .. Count(s, u)
  BY <1>1
<1> QED BY <1>2, GotFacts DEF Latest, Last

(* The worker goes down: no task hears any more.                           *)
LEMMA ShutdownKeeps ==
  ASSUME RealtimeInv, Shutdown
  PROVE  RealtimeInv'
<1> USE DEF RealtimeInv
<1>1. /\ UNCHANGED <<published, conn>> /\ by_team' = [t \in Team |-> {}]
      /\ subscriber_tasks' = [t \in Team |-> NoTask]
  BY DEF Shutdown
<1>2. \A k \in Task : task'[k] \in TaskSet /\ ~Alive(k)'
  <2> SUFFICES ASSUME NEW k \in Task PROVE task'[k] \in TaskSet /\ ~Alive(k)'
    OBVIOUS
  <2>1. task[k] \in TaskSet
    BY DEF Typed
  <2>2. task'[k] = IF Alive(k) THEN Cancelled(task[k])
                   ELSE IF task[k].state = "crashed" THEN Done ELSE task[k]
    BY DEF Shutdown
  <2>3. CASE Alive(k)
    BY <2>1, <2>2, <2>3, CancelledFacts DEF Alive
  <2>4. CASE ~Alive(k)
    BY <2>1, <2>2, <2>4, Blank DEF Alive
  <2> QED BY <2>3, <2>4
<1>3. task' \in [Task -> TaskSet]
  <2>1. task' = [k \in Task |-> task'[k]]
    BY DEF Shutdown
  <2> QED BY <1>2, <2>1
<1>4. Typed'
  BY <1>1, <1>2, <1>3 DEF Typed
<1>5. Registered' /\ InStep'
  BY <1>1, <1>2 DEF Registered, InStep
<1>6. \A k \in Task : Consecutive(k)'
  BY <1>2 DEF Consecutive, Alive
<1> QED BY <1>1, <1>4, <1>5, <1>6 DEF Orderly

(* An inbox takes the next event.                                          *)
LEMMA InboxTakes ==
  ASSUME NEW q \in Seq(Nat), NEW p \in Nat, Len(q) <= p,
         \A m \in 1 .. Len(q) : q[m] + Len(q) = p + m
  PROVE  /\ Append(q, p + 1) \in Seq(Nat) /\ Len(Append(q, p + 1)) = Len(q) + 1
         /\ \A m \in 1 .. Len(Append(q, p + 1)) :
              Append(q, p + 1)[m] + Len(Append(q, p + 1)) = p + 1 + m
<1> PICK w : w = Append(q, p + 1)
  OBVIOUS
<1>1. /\ w \in Seq(Nat) /\ Len(w) = Len(q) + 1 /\ Len(q) \in Nat /\ w[Len(q) + 1] = p + 1
      /\ \A m \in 1 .. Len(q) : w[m] = q[m] /\ q[m] \in Nat
  OBVIOUS
<1>2. ASSUME NEW m \in 1 .. Len(w) PROVE w[m] + Len(w) = p + 1 + m
  <2>1. CASE m = Len(q) + 1
    BY <1>1, <2>1
  <2>2. CASE m # Len(q) + 1
    <3>1. m \in 1 .. Len(q)
      BY <1>1, <2>2
    <3>2. w[m] = q[m] /\ q[m] \in Nat /\ q[m] + Len(q) = p + m
      BY <1>1, <3>1
    <3> PICK a : a = q[m]
      OBVIOUS
    <3> PICK l : l = Len(q)
      OBVIOUS
    <3>4. a \in Nat /\ l \in Nat /\ m \in Nat /\ a + l = p + m
      BY <1>1, <3>1, <3>2
    <3>5. a + (l + 1) = p + 1 + m
      BY ONLY p \in Nat, <3>4
    <3>3. q[m] + (Len(q) + 1) = p + 1 + m
      BY ONLY <3>5, a = q[m], l = Len(q)
    <3> QED BY ONLY <1>1, <3>2, <3>3
  <2> QED BY <2>1, <2>2
<1> QED BY <1>1, <1>2

(* ... and gives its first, the one after those it gave before.            *)
LEMMA InboxGives ==
  ASSUME NEW q \in Seq(Nat), q # <<>>, NEW p \in Nat, Len(q) <= p,
         \A m \in 1 .. Len(q) : q[m] + Len(q) = p + m
  PROVE  /\ Tail(q) \in Seq(Nat) /\ Len(Tail(q)) + 1 = Len(q) /\ Len(Tail(q)) <= p
         /\ \A m \in 1 .. Len(Tail(q)) : Tail(q)[m] + Len(Tail(q)) = p + m
         /\ Head(q) \in Nat /\ Head(q) > 0 /\ Head(q) + Len(Tail(q)) = p
         /\ \A n \in Nat : n + Len(q) = p => Head(q) = n + 1
<1> PICK w : w = Tail(q)
  OBVIOUS
<1>1. /\ w \in Seq(Nat) /\ Len(q) \in Nat /\ Len(q) > 0 /\ Len(w) = Len(q) - 1
      /\ Head(q) = q[1] /\ q[1] \in Nat
      /\ \A m \in 1 .. Len(w) : w[m] = q[m + 1] /\ q[m + 1] \in Nat
  OBVIOUS
<1>2. q[1] + Len(q) = p + 1
  BY <1>1
<1>3. ASSUME NEW m \in 1 .. Len(w) PROVE w[m] + Len(w) = p + m
  <2>1. m + 1 \in 1 .. Len(q)
    BY <1>1
  <2>2. w[m] = q[m + 1] /\ q[m + 1] \in Nat /\ q[m + 1] + Len(q) = p + (m + 1)
    BY <1>1, <2>1
  <2> PICK a : a = q[m + 1]
    OBVIOUS
  <2> PICK l : l = Len(q)
    OBVIOUS
  <2>4. a \in Nat /\ l \in Nat /\ m \in Nat /\ a + l = p + (m + 1)
    BY <1>1, <2>1, <2>2
  <2>5. a + (l - 1) = p + m
    BY ONLY p \in Nat, <2>4
  <2>3. q[m + 1] + (Len(q) - 1) = p + m
    BY ONLY <2>5, a = q[m + 1], l = Len(q)
  <2> QED BY ONLY <1>1, <2>2, <2>3
<1>4. Len(w) + 1 = Len(q) /\ Len(w) <= p
  <2>3. Len(q) \in Nat /\ Len(w) \in Nat
    BY ONLY <1>1
  <2> PICK l \in Nat, n \in Nat : l = Len(q) /\ n = Len(w)
    BY ONLY <2>3
  <2>1. n = l - 1 /\ l <= p
    BY ONLY <1>1, Len(q) <= p, l = Len(q), n = Len(w)
  <2>2. n + 1 = l /\ n <= p
    BY ONLY <2>1, l \in Nat, n \in Nat, p \in Nat
  <2> QED BY ONLY <2>2, l = Len(q), n = Len(w)
<1>5. /\ Head(q) \in Nat /\ Head(q) > 0 /\ Head(q) + Len(w) = p
      /\ \A n \in Nat : n + Len(q) = p => Head(q) = n + 1
  <2>3. Len(q) \in Nat /\ Len(w) \in Nat /\ Head(q) \in Nat
    BY ONLY <1>1
  <2> PICK l \in Nat, n \in Nat, h \in Nat : l = Len(q) /\ n = Len(w) /\ h = Head(q)
    BY ONLY <2>3
  <2>1. n = l - 1 /\ l <= p /\ h + l = p + 1
    BY ONLY <1>1, <1>2, Len(q) <= p, l = Len(q), n = Len(w), h = Head(q)
  <2>2. h > 0 /\ h + n = p /\ \A m \in Nat : m + l = p => h = m + 1
    BY ONLY <2>1, l \in Nat, n \in Nat, h \in Nat, p \in Nat
  <2> QED BY ONLY <2>2, h \in Nat, l = Len(q), n = Len(w), h = Head(q)
<1> QED BY ONLY <1>1, <1>3, <1>4, <1>5, w = Tail(q)

(* An event goes to the inboxes of the tasks that listen for its team.     *)
LEMMA PublishKeeps ==
  ASSUME RealtimeInv, NEW t \in Team, Publish(t)
  PROVE  RealtimeInv'
<1> USE DEF RealtimeInv
<1> PICK p \in Nat : p = published[t]
  BY DEF Typed
<1>1. /\ UNCHANGED <<conn, by_team, subscriber_tasks>>
      /\ published' \in [Team -> Nat] /\ published'[t] = p + 1
      /\ \A s \in Team \ {t} : published'[s] = published[s]
  BY DEF Publish, Typed
<1> DEFINE Hears(k) == task[k].state = "listening" /\ task[k].team = t
<1>2. \A k \in Task : task'[k] = IF Hears(k) THEN [task[k] EXCEPT !.inbox = Append(@, p + 1)] ELSE task[k]
  BY <1>1 DEF Publish
<1>3. ASSUME NEW k \in Task, Hears(k)
      PROVE  /\ task'[k] \in TaskSet /\ task'[k].state = "listening" /\ task'[k].team = t
             /\ task'[k].inbox = Append(task[k].inbox, p + 1)
             /\ Len(task'[k].inbox) = Len(task[k].inbox) + 1 /\ Len(task[k].inbox) \in Nat
             /\ Len(task[k].inbox) <= p
             /\ \A m \in 1 .. Len(task'[k].inbox) : task'[k].inbox[m] + Len(task'[k].inbox) = p + 1 + m
  <2> PICK r \in TaskSet : r = task[k]
    BY DEF Typed
  <2>1. r = [state |-> r.state, team |-> r.team, inbox |-> r.inbox] /\ r.inbox \in Seq(Nat)
        /\ r.state = "listening" /\ r.team = t /\ r.team \in AnyTeam
    BY <1>3 DEF TaskSet
  <2>2. Consecutive(k)
    OBVIOUS
  <2>3. Len(r.inbox) <= p /\ \A m \in 1 .. Len(r.inbox) : r.inbox[m] + Len(r.inbox) = p + m
    BY <2>1, <2>2 DEF Consecutive
  <2> PICK q : q = Append(r.inbox, p + 1)
    OBVIOUS
  <2>4. /\ q \in Seq(Nat) /\ Len(q) = Len(r.inbox) + 1
        /\ \A m \in 1 .. Len(q) : q[m] + Len(q) = p + 1 + m
    BY ONLY <2>1, <2>3, InboxTakes, p \in Nat, q = Append(r.inbox, p + 1)
  <2>5. task'[k] = [state |-> "listening", team |-> t, inbox |-> q]
    BY <1>2, <1>3, <2>1
  <2>6. task'[k] \in TaskSet
    BY <2>1, <2>4, <2>5 DEF TaskSet
  <2> QED BY <2>1, <2>3, <2>4, <2>5, <2>6
<1>4. \A k \in Task : ~Hears(k) => task'[k] = task[k]
  BY <1>2
<1>5. task' \in [Task -> TaskSet]
  <2>1. task' = [k \in Task |-> task'[k]]
    BY DEF Publish
  <2>2. \A k \in Task : task'[k] \in TaskSet
    BY <1>3, <1>4 DEF Typed
  <2> QED BY <2>1, <2>2
<1>6. \A k \in Task : task'[k].state = task[k].state /\ task'[k].team = task[k].team
  BY <1>3, <1>4
<1>7. Typed'
  BY <1>1, <1>5, <1>6 DEF Typed, Alive
<1>8. Registered'
  BY <1>1, <1>6 DEF Registered, Alive
<1>9. InStep'
  <2> SUFFICES ASSUME NEW j \in Task, Alive(j), NEW b \in by_team[task[j].team], conn[b].first > 0
               PROVE  /\ task[j].state = "listening"
                      /\ Latest(conn[b]) + Len(task'[j].inbox) = published'[task[j].team]
    BY <1>1, <1>6 DEF InStep, Latest, Alive
  <2>1. task[j].state = "listening" /\ Latest(conn[b]) + Len(task[j].inbox) = published[task[j].team]
    BY DEF InStep
  <2>2. Latest(conn[b]) \in Nat
    <3>1. b \in Conn
      BY DEF Typed
    <3>2. conn[b] \in ConnSet /\ Orderly(conn[b])
      BY <3>1 DEF Typed
    <3> QED BY <3>2, LatestIsNat
  <2>3. CASE task[j].team = t
    BY <1>1, <1>3, <2>1, <2>2, <2>3
  <2>4. CASE task[j].team # t
    BY <1>1, <1>4, <2>1, <2>4 DEF Typed
  <2> QED BY <2>3, <2>4
<1>10. ASSUME NEW k \in Task PROVE Consecutive(k)'
  <2>1. CASE Hears(k)
    BY <1>1, <1>3, <2>1 DEF Consecutive
  <2>2. CASE ~Hears(k)
    <3>1. task'[k] = task[k] /\ Consecutive(k)
      BY <1>4, <2>2
    <3>2. task[k].state = "listening" => published'[task[k].team] = published[task[k].team]
      BY <1>1, <2>2 DEF Typed, Alive
    <3> QED BY <3>1, <3>2 DEF Consecutive
  <2> QED BY <2>1, <2>2
<1> QED BY <1>1, <1>7, <1>8, <1>9, <1>10 DEF Orderly

(* A task offers what it hears next to the connections of its team.        *)
LEMMA ListenKeeps ==
  ASSUME RealtimeInv, NEW k \in Task, Listen(k)
  PROVE  RealtimeInv'
<1> USE DEF RealtimeInv
<1> PICK t : t = task[k].team
  OBVIOUS
<1> PICK q : q = task[k].inbox
  OBVIOUS
<1> PICK e : e = Head(q)
  OBVIOUS
<1>1. /\ task[k] \in TaskSet /\ task[k].state = "listening" /\ t \in Team /\ q \in Seq(Nat) /\ q # <<>>
      /\ published[t] \in Nat /\ Alive(k) /\ UNCHANGED <<published, by_team, subscriber_tasks>>
  BY DEF Listen, Typed, Alive, TaskSet
<1>2. Len(q) <= published[t] /\ \A m \in 1 .. Len(q) : q[m] + Len(q) = published[t] + m
  BY <1>1 DEF Consecutive
<1>3. /\ Tail(q) \in Seq(Nat) /\ Len(Tail(q)) <= published[t]
      /\ \A m \in 1 .. Len(Tail(q)) : Tail(q)[m] + Len(Tail(q)) = published[t] + m
      /\ e \in Nat /\ e > 0 /\ e + Len(Tail(q)) = published[t]
      /\ \A n \in Nat : n + Len(q) = published[t] => e = n + 1
  <2> PICK p \in Nat : p = published[t]
    BY <1>1
  <2>1. Len(q) <= p /\ \A m \in 1 .. Len(q) : q[m] + Len(q) = p + m
    BY <1>2
  <2>2. /\ Tail(q) \in Seq(Nat) /\ Len(Tail(q)) + 1 = Len(q) /\ Len(Tail(q)) <= p
        /\ \A m \in 1 .. Len(Tail(q)) : Tail(q)[m] + Len(Tail(q)) = p + m
        /\ Head(q) \in Nat /\ Head(q) > 0 /\ Head(q) + Len(Tail(q)) = p
        /\ \A n \in Nat : n + Len(q) = p => Head(q) = n + 1
    BY ONLY <1>1, <2>1, p \in Nat, InboxGives
  <2> QED BY ONLY <2>2, p = published[t], e = Head(q)
<1> PICK d : d = [task[k] EXCEPT !.inbox = Tail(q)]
  OBVIOUS
<1>4. /\ d \in TaskSet /\ d.state = "listening" /\ d.team = t /\ d.inbox = Tail(q)
      /\ task' = [task EXCEPT ![k] = d]
  BY <1>1, <1>3 DEF TaskSet, Listen
<1>5. task' \in [Task -> TaskSet] /\ task'[k] = d /\ \A j \in Task \ {k} : task'[j] = task[j]
  BY <1>4 DEF Typed
<1>6. \A j \in Task : task'[j].state = task[j].state /\ task'[j].team = task[j].team
  BY <1>1, <1>4, <1>5
<1>7. \A b \in Conn : conn'[b] = IF b \in by_team[t] THEN Offer(conn[b], e) ELSE conn[b]
  BY DEF Listen
<1>8. ASSUME NEW b \in by_team[t]
      PROVE  /\ b \in Conn /\ conn'[b] \in ConnSet /\ Orderly(conn'[b]) /\ Latest(conn'[b]) = e
             /\ conn'[b].state = conn[b].state /\ conn'[b].team = conn[b].team
             /\ conn[b].state \in {"open", "leaving"}
  <2>1. b \in Conn
    BY <1>1 DEF Typed
  <2> PICK r \in ConnSet : r = conn[b]
    BY <2>1 DEF Typed
  <2>2. Orderly(r) /\ conn[b].state \in {"open", "leaving"}
    BY <1>1, <2>1 DEF Registered
  <2>3. r.first > 0 => e = Latest(r) + 1
    <3> SUFFICES ASSUME r.first > 0 PROVE e = Latest(r) + 1
      OBVIOUS
    <3>1. Latest(r) \in Nat
      BY <2>2, LatestIsNat
    <3>2. Latest(r) + Len(q) = published[t]
      BY <1>1, <2>1 DEF InStep
    <3> QED BY <1>3, <3>1, <3>2
  <2>4. /\ Offer(r, e) \in ConnSet /\ Orderly(Offer(r, e)) /\ Latest(Offer(r, e)) = e
        /\ Offer(r, e).state = r.state /\ Offer(r, e).team = r.team
    BY ONLY <1>3, <2>2, <2>3, r \in ConnSet, OfferKeeps
  <2>5. conn'[b] = Offer(r, e)
    BY <1>7, <2>1
  <2> QED BY <2>1, <2>2, <2>4, <2>5
<1>9. \A b \in Conn : b \notin by_team[t] => conn'[b] = conn[b]
  BY <1>7
<1>10. \A b \in Conn : conn'[b].state = conn[b].state /\ conn'[b].team = conn[b].team
  BY <1>8, <1>9
<1>11. conn' \in [Conn -> ConnSet]
  <2>1. conn' = [b \in Conn |-> conn'[b]]
    BY DEF Listen
  <2>2. \A b \in Conn : conn'[b] \in ConnSet
    BY <1>8, <1>9 DEF Typed
  <2> QED BY <2>1, <2>2
<1>12. Typed'
  BY <1>1, <1>5, <1>6, <1>10, <1>11 DEF Typed, Alive
<1>13. Registered'
  <2>1. \A j \in Task : Alive(j)' <=> Alive(j)
    BY <1>6 DEF Alive
  <2>2. UNCHANGED <<subscriber_tasks, by_team>> /\ \A a \in Team : by_team[a] \subseteq Conn
    BY <1>1 DEF Typed
  <2> QED BY <1>1, <1>6, <1>10, <2>1, <2>2 DEF Registered
<1>14. InStep'
  <2> SUFFICES ASSUME NEW j \in Task, Alive(j), NEW b \in by_team[task[j].team], conn'[b].first > 0
               PROVE  /\ task[j].state = "listening"
                      /\ Latest(conn'[b]) + Len(task'[j].inbox) = published[task[j].team]
    BY <1>1, <1>6 DEF InStep, Latest, Alive
  <2>1. CASE j = k
    BY <1>1, <1>3, <1>4, <1>5, <1>8, <2>1
  <2>2. CASE j # k
    <3>1. task[j].team \in Team /\ task[j].team # t /\ b \in Conn
      BY <1>1, <2>2 DEF Registered, Typed
    <3>2. b \notin by_team[t]
      BY <1>1, <3>1 DEF Registered
    <3> QED BY <1>5, <1>9, <2>2, <3>1, <3>2 DEF InStep
  <2> QED BY <2>1, <2>2
<1>15. ASSUME NEW j \in Task PROVE Consecutive(j)'
  <2>1. CASE j = k
    BY <1>1, <1>3, <1>4, <1>5, <2>1 DEF Consecutive
  <2>2. CASE j # k
    BY <1>1, <1>5, <2>2 DEF Consecutive
  <2> QED BY <2>1, <2>2
<1>16. \A b \in Conn : Orderly(conn'[b]) /\ (conn'[b].state = "joining" => conn'[b].first = 0)
  BY <1>8, <1>9
<1> QED BY <1>12, <1>13, <1>14, <1>15, <1>16 DEF Orderly

LEMMA RealtimeInvInit == Init => RealtimeInv
<1> SUFFICES ASSUME Init PROVE RealtimeInv
  OBVIOUS
<1>1. /\ \A c \in Conn : conn[c] = Off
      /\ \A k \in Task : task[k] = Done
      /\ \A t \in Team : by_team[t] = {} /\ subscriber_tasks[t] = NoTask
  BY DEF Init
<1>2. Typed
  <2>1. conn \in [Conn -> ConnSet] /\ task \in [Task -> TaskSet]
    BY Blank DEF Init
  <2>2. /\ published \in [Team -> Nat] /\ by_team \in [Team -> SUBSET Conn]
        /\ subscriber_tasks \in [Team -> Task \cup {NoTask}]
    BY DEF Init
  <2> QED BY <1>1, <2>1, <2>2, Blank DEF Typed, Alive
<1>3. \A k \in Task : ~Alive(k) /\ Consecutive(k)
  BY <1>1, Blank DEF Alive, Consecutive
<1>4. Registered /\ InStep
  BY <1>1, <1>3 DEF Registered, InStep
<1> QED BY <1>1, <1>2, <1>3, <1>4, Blank DEF RealtimeInv

(* What a client or a timer makes an open connection do to itself.         *)
LEMMA OpenKeeps ==
  ASSUME RealtimeInv, NEW c \in Conn, conn[c].state = "open", NEW r \in ConnSet,
         conn' = [conn EXCEPT ![c] = r], InEndpoint, r.state \in {"open", "leaving"},
         r.team = conn[c].team, r.first = conn[c].first, Orderly(r), Latest(r) = Latest(conn[c])
  PROVE  RealtimeInv'
<1>1. r.team \in Team
  BY DEF RealtimeInv, Typed
<1> QED BY <1>1, OneConnection DEF InEndpoint

LEMMA EndpointKeeps ==
  ASSUME RealtimeInv, NEW c \in Conn, Endpoint(c)
  PROVE  RealtimeInv'
<1> PICK r \in ConnSet : r = conn[c]
  BY DEF RealtimeInv, Typed
<1>1. Orderly(r) /\ r.sent \in Seq(Nat) /\ r.queue \in Seq(Nat)
  BY DEF RealtimeInv, ConnSet
<1>2. ASSUME NEW t \in Team, Connect(c, t) PROVE RealtimeInv'
  <2> PICK w : w = [Off EXCEPT !.state = "joining", !.team = t]
    OBVIOUS
  <2>1. w \in ConnSet /\ w.state = "joining" /\ w.team = t /\ w.first = 0 /\ Orderly(w)
    BY Blank DEF ConnSet, AnyTeam, Orderly
  <2>2. conn' = [conn EXCEPT ![c] = w] /\ UNCHANGED <<published, by_team, subscriber_tasks, task>>
    BY <1>2 DEF Connect
  <2>3. conn[c].state \notin {"open", "leaving"}
    BY <1>2 DEF Connect
  <2> QED BY ONLY RealtimeInv, <2>1, <2>2, <2>3, c \in Conn, OneConnection
<1>3. CASE Register(c)
  BY <1>3, RegisterKeeps
<1>4. CASE Unregister(c)
  BY <1>4, UnregisterKeeps
<1>5. CASE Awaited(c)
  <2>1. conn' = [conn EXCEPT ![c] = Off] /\ UNCHANGED <<published, by_team, subscriber_tasks, task>>
    BY <1>5 DEF Awaited
  <2>2. conn[c].state \notin {"open", "leaving"}
    BY <1>5 DEF Awaited
  <2>3. Off \in ConnSet /\ Off.state = "off" /\ Orderly(Off)
    BY Blank
  <2> QED BY ONLY RealtimeInv, <2>1, <2>2, <2>3, c \in Conn, OneConnection
<1>6. CASE Send(c)
  <2> PICK s2 : s2 = Append(r.sent, Head(r.queue))
    OBVIOUS
  <2> PICK u2 : u2 = Tail(r.queue)
    OBVIOUS
  <2> PICK w : w = [r EXCEPT !.sent = s2, !.queue = u2]
    OBVIOUS
  <2>1. conn[c].state = "open" /\ r.queue # <<>> /\ InEndpoint
    BY <1>6 DEF Send
  <2>2. conn' = [conn EXCEPT ![c] = w]
    BY <1>6 DEF Send, RealtimeInv, Typed, ConnSet
  <2>3. s2 \in Seq(Nat) /\ u2 \in Seq(Nat)
    BY <1>1, <2>1
  <2>4. /\ w.sent = s2 /\ w.queue = u2 /\ w.state = r.state /\ w.team = r.team /\ w.first = r.first
        /\ w.dropped = r.dropped /\ w \in ConnSet
    BY <2>3 DEF ConnSet
  <2>5. Exact(r.sent, r.queue, r.dropped, r.first)
    BY <1>1 DEF Orderly
  <2>6. Exact(s2, u2, r.dropped, r.first) /\ Last(s2, u2) = Last(r.sent, r.queue)
    BY ONLY <1>1, <2>1, <2>5, SendKeeps, s2 = Append(r.sent, Head(r.queue)), u2 = Tail(r.queue)
  <2>7. Orderly(w) /\ Latest(w) = Latest(conn[c])
    BY <2>4, <2>6 DEF Orderly, Latest
  <2> QED BY <2>1, <2>2, <2>4, <2>7, OpenKeeps
<1>7. CASE Hear(c) \/ Ping(c)
  <2>1. PICK n \in Nat : conn' = [conn EXCEPT ![c] = [r EXCEPT !.pings = n]] /\ InEndpoint /\ r.state = "open"
    <3>1. r.pings \in Nat
      BY DEF ConnSet
    <3> QED BY <1>7, <3>1 DEF Hear, Ping
  <2> PICK w : w = [r EXCEPT !.pings = n]
    OBVIOUS
  <2>2. w \in ConnSet /\ w.state = r.state /\ w.team = r.team /\ w.first = r.first
        /\ Orderly(w) /\ Latest(w) = Latest(r)
    BY <1>1 DEF ConnSet, Orderly, Latest
  <2> QED BY <2>1, <2>2, OpenKeeps
<1>8. CASE FallSilent(c)
  <2>1. conn' = [conn EXCEPT ![c] = [r EXCEPT !.quiet = TRUE]] /\ InEndpoint /\ r.state = "open"
    BY <1>8 DEF FallSilent
  <2> PICK w : w = [r EXCEPT !.quiet = TRUE]
    OBVIOUS
  <2>2. w \in ConnSet /\ w.state = r.state /\ w.team = r.team /\ w.first = r.first
        /\ Orderly(w) /\ Latest(w) = Latest(r)
    BY <1>1 DEF ConnSet, Orderly, Latest
  <2> QED BY <2>1, <2>2, OpenKeeps
<1>9. CASE Disconnect(c) \/ IdleClose(c)
  <2>1. conn' = [conn EXCEPT ![c] = [r EXCEPT !.state = "leaving"]] /\ InEndpoint /\ r.state = "open"
    BY <1>9 DEF Disconnect, IdleClose
  <2> PICK w : w = [r EXCEPT !.state = "leaving"]
    OBVIOUS
  <2>2. w \in ConnSet /\ w.state = "leaving" /\ w.team = r.team /\ w.first = r.first
        /\ Orderly(w) /\ Latest(w) = Latest(r)
    BY <1>1 DEF ConnSet, Orderly, Latest
  <2> QED BY <2>1, <2>2, OpenKeeps
<1> QED BY <1>2, <1>3, <1>4, <1>5, <1>6, <1>7, <1>8, <1>9 DEF Endpoint

LEMMA TeamSubscriberKeeps ==
  ASSUME RealtimeInv, NEW k \in Task, TeamSubscriber(k)
  PROVE  RealtimeInv'
<1> PICK r \in TaskSet : r = task[k]
  BY DEF RealtimeInv, Typed
<1>1. CASE Subscribe(k)
  <2> PICK w : w = [r EXCEPT !.state = "listening"]
    OBVIOUS
  <2>1. w \in TaskSet /\ w.state = "listening" /\ w.team = r.team /\ w.inbox = r.inbox
    BY DEF TaskSet
  <2>2. /\ task' = [task EXCEPT ![k] = w] /\ UNCHANGED <<published, conn, by_team, subscriber_tasks>>
        /\ task[k].state = "starting"
    BY <1>1 DEF Subscribe
  <2> QED BY <2>1, <2>2, OneTask
<1>2. CASE Listen(k)
  BY <1>2, ListenKeeps
<1>3. CASE Crash(k)
  <2> PICK none : none = <<>>
    OBVIOUS
  <2>1. none \in Seq(Nat)
    OBVIOUS
  <2> PICK w : w = [r EXCEPT !.state = "crashed", !.inbox = none]
    OBVIOUS
  <2>2. w \in TaskSet /\ w.state = "crashed"
    BY <2>1 DEF TaskSet
  <2>3. task' = [task EXCEPT ![k] = w] /\ UNCHANGED <<published, conn, by_team, subscriber_tasks>>
    BY <1>3 DEF Crash, RealtimeInv, Typed, TaskSet
  <2> QED BY ONLY RealtimeInv, k \in Task, <2>2, <2>3, OneTask
<1>4. CASE Close(k)
  <2>1. task' = [task EXCEPT ![k] = Done] /\ UNCHANGED <<published, conn, by_team, subscriber_tasks>>
    BY <1>4 DEF Close
  <2> QED BY <2>1, OneTask, Blank
<1> QED BY <1>1, <1>2, <1>3, <1>4 DEF TeamSubscriber

LEMMA RealtimeInvStep == RealtimeInv /\ [Next]_vars => RealtimeInv'
<1> SUFFICES ASSUME RealtimeInv, [Next]_vars PROVE RealtimeInv'
  OBVIOUS
<1>1. CASE UNCHANGED vars
  BY <1>1 DEF vars, RealtimeInv, Typed, Registered, InStep, Consecutive, Alive, Orderly, Latest
<1>2. ASSUME NEW c \in Conn, Endpoint(c) PROVE RealtimeInv'
  BY <1>2, EndpointKeeps
<1>3. ASSUME NEW k \in Task, TeamSubscriber(k) PROVE RealtimeInv'
  BY <1>3, TeamSubscriberKeeps
<1>4. ASSUME NEW t \in Team, Publish(t) PROVE RealtimeInv'
  BY <1>4, PublishKeeps
<1>5. CASE Shutdown
  BY <1>5, ShutdownKeeps
<1> QED BY <1>1, <1>2, <1>3, <1>4, <1>5 DEF Next

-----------------------------------------------------------------------------
(* The theorems *)

(* The registry, the tasks and the connections of a worker stay in step:   *)
(* the task that hears for a team is the one registered for it, a team     *)
(* with connections has one, its inbox has no gap, and every connection    *)
(* registered has been offered all its task heard (register, unregister,   *)
(* _team_subscriber, fanout).                                              *)
THEOREM RegistryIsSound == Spec => []RealtimeInv
BY RealtimeInvInit, RealtimeInvStep, PTL DEF Spec

(* What was sent and what waits, as the model has it.                      *)
LEMMA GotIsConcat ==
  ASSUME NEW s \in Seq(Nat), NEW u \in Seq(Nat)
  PROVE  /\ Len(s \o u) = Count(s, u) /\ DOMAIN (s \o u) = 1 .. Count(s, u)
         /\ \A i \in 1 .. Count(s, u) : (s \o u)[i] = Got(s, u, i)
<1>1. s \o u \in Seq(Nat) /\ Len(s \o u) = Len(s) + Len(u)
  OBVIOUS
<1>2. ASSUME NEW i \in 1 .. Count(s, u) PROVE (s \o u)[i] = Got(s, u, i)
  BY <1>2 DEF Count, Got
<1> QED BY <1>1, <1>2 DEF Count

LEMMA SoundLosesNothing == RealtimeInv => NothingLostButOverflow
<1> SUFFICES ASSUME RealtimeInv, NEW c \in Conn, NEW got, got = conn[c].sent \o conn[c].queue
             PROVE  /\ \A m, n \in DOMAIN got : m < n => got[m] < got[n]
                    /\ got # <<>> => Len(got) + conn[c].dropped = got[Len(got)] - conn[c].first + 1
  BY DEF NothingLostButOverflow
<1> PICK s \in Seq(Nat), u \in Seq(Nat), d \in Nat, f \in Nat :
      s = conn[c].sent /\ u = conn[c].queue /\ d = conn[c].dropped /\ f = conn[c].first
  BY DEF RealtimeInv, Typed, ConnSet
<1>1. Exact(s, u, d, f)
  BY DEF RealtimeInv, Orderly
<1>2. /\ Len(got) = Count(s, u) /\ DOMAIN got = 1 .. Count(s, u)
      /\ \A i \in 1 .. Count(s, u) : got[i] = Got(s, u, i)
  BY ONLY GotIsConcat, s \in Seq(Nat), u \in Seq(Nat), s = conn[c].sent, u = conn[c].queue,
          got = conn[c].sent \o conn[c].queue
<1>3. \A m, n \in DOMAIN got : m < n => got[m] < got[n]
  <2> SUFFICES ASSUME NEW m \in DOMAIN got, NEW n \in DOMAIN got, m < n PROVE got[m] < got[n]
    OBVIOUS
  <2>1. m \in 1 .. Count(s, u) /\ n \in 1 .. Count(s, u)
    BY <1>2
  <2>2. Got(s, u, m) < Got(s, u, n)
    BY <1>1, <2>1 DEF Exact
  <2> QED BY <1>2, <2>1, <2>2
<1>4. ASSUME got # <<>> PROVE Len(got) + d = got[Len(got)] - f + 1
  <2>1. Count(s, u) \in Nat /\ got \in Seq(Nat)
    BY GotFacts
  <2>2. Count(s, u) > 0
    <3>1. Len(got) # 0
      BY ONLY <1>4, <2>1
    <3> QED BY ONLY <1>2, <2>1, <3>1
  <2>3. Count(s, u) \in 1 .. Count(s, u)
    BY <2>1, <2>2
  <2> PICK l : l = Last(s, u)
    OBVIOUS
  <2>4. l \in Nat /\ got[Len(got)] = l
    BY <1>2, <2>3, GotFacts DEF Last
  <2>5. Count(s, u) + d + f = l + 1
    BY <1>1, <2>2 DEF Exact
  <2> PICK n : n = Count(s, u)
    OBVIOUS
  <2>6. n \in Nat /\ n + d + f = l + 1
    BY <2>1, <2>5
  <2>7. n + d = l - f + 1
    BY ONLY <2>4, <2>6, d \in Nat, f \in Nat
  <2> QED BY ONLY <1>2, <2>4, <2>7, n = Count(s, u)
<1> QED BY <1>3, <1>4

(* A client gets the events of its team in order, none twice, and all of   *)
(* them since the first it was offered but those its full queue dropped,   *)
(* whoever comes and goes and whatever crashes (offer, fanout, send_loop). *)
THEOREM NothingEverLost == Spec => []NothingLostButOverflow
BY RegistryIsSound, SoundLosesNothing, PTL

-----------------------------------------------------------------------------
(* The members of a team and the caches of their rights *)

USE NamesApart, WatchedUsers

-----------------------------------------------------------------------------

(* What a pending change has been asked to write.                          *)
RowOps   == {"invite", "remove", "leave", "assign", "deleteUser"}
GroupOps == {"create", "delete", "codes"}

Asked(c) ==
  \/ /\ c.op \in RowOps /\ c.user \in User /\ c.group = "-"
     /\ c.op \in {"invite", "assign"} => c.to \in Group \cup {"none", "gone"}
     /\ c.op \in {"remove", "leave"} => c.to = "out"
     /\ c.op = "deleteUser" => c.to = "gone"
  \/ c.op \in GroupOps /\ c.user = "-" /\ c.group \in Custom

Sound(c) == c = NoChange \/ (c.at \in {"changed", "invalidated"} /\ Asked(c))

(* An answer that was read while nothing was being written: nothing has    *)
(* been written since, and it is true.                                     *)
Serial(s) ==
  s.at \in {"scope", "meta", "codes"} /\ ~s.over =>
     /\ Pending = {}
     /\ s.at = "scope" => IsActive(s.user)
     /\ s.at = "meta" => s.group = member[s.user]
     /\ s.at = "codes" => s.codes = CodesOf(s.group)

(* The keys that a change makes untrue are gone by its commit, or were set *)
(* by someone who read while it was being written.                         *)
Gone(c) ==
  c.at = "invalidated" =>
     /\ c.op \in {"invite", "remove", "leave", "assign"} /\ c.user \in DOMAIN meta
           => meta[c.user].over
     /\ c.op \in {"remove", "leave"} /\ c.user \in DOMAIN scope => scope[c.user].over
     /\ c.op \in GroupOps /\ c.group \in DOMAIN lists => lists[c.group].over

Change_Type ==
  [op : Op \cup {"idle"}, at : {"idle", "changed", "invalidated"},
   user : User \cup {"-"}, to : Row \cup {"-"}, group : Group \cup {"-"}, codes : SUBSET Code]

Read_Type ==
  [at : {"idle", "scope", "meta", "fetch", "codes"}, user : Watched \cup {"-"},
   group : Group \cup {"-", "none"}, codes : SUBSET Code, over : BOOLEAN]

TeamInv ==
  /\ member \in [User -> Row]
  /\ \A g \in DOMAIN groups : groups[g].codes \in SUBSET Code
  /\ \A u \in DOMAIN meta : meta[u].group \in Group \cup {"none"}
  /\ tx \in [Writer -> Change_Type]
  /\ read \in [Reader -> Read_Type]
  /\ \A r \in Reader : read[r].at = "meta" => read[r].group # "-"
  /\ \A w \in Writer : Sound(tx[w])
  /\ \A w \in Writer : Gone(tx[w])
  /\ \A r \in Reader : Serial(read[r])
  /\ SerialIsTrue

-----------------------------------------------------------------------------
(* Records and rows *)

(* A change that is asked for has the fields of one.                       *)
LEMMA NoneTyped == NoChange \in Change_Type
  BY DEF NoChange, Change_Type, Row

(* The codes of a group follow from its own row.                           *)
LEMMA CodesFollowRow ==
  ASSUME NEW g, g \in DOMAIN groups <=> g \in DOMAIN groups', groups[g] = groups'[g]
  PROVE  CodesOf(g) = CodesOf(g)'
  BY DEF CodesOf, HasGroup, Group

-----------------------------------------------------------------------------
(* Writers *)

(* Every request that writes asks for a change of a known form.            *)
LEMMA WriteAsks ==
  ASSUME TeamInv, NEW w \in Writer, Write(w)
  PROVE  \E c \in Change_Type : c.at = "idle" /\ Asked(c) /\ Change(w, c)
<1> DEFINE C(op, u, to) == [NoChange EXCEPT !.op = op, !.user = u, !.to = to]
           G(op, g, codes) == [NoChange EXCEPT !.op = op, !.group = g, !.codes = codes]
<1>1. ASSUME NEW op \in RowOps, NEW u \in User, NEW to \in Row, Change(w, C(op, u, to)),
             op \in {"invite", "assign"} => to \in Group \cup {"none", "gone"},
             op \in {"remove", "leave"} => to = "out",
             op = "deleteUser" => to = "gone"
      PROVE  \E c \in Change_Type : c.at = "idle" /\ Asked(c) /\ Change(w, c)
  <2>1. /\ C(op, u, to).at = "idle" /\ C(op, u, to).op = op /\ C(op, u, to).user = u
        /\ C(op, u, to).to = to /\ C(op, u, to).group = "-"
        /\ C(op, u, to) \in Change_Type
    BY DEF NoChange, Change_Type, RowOps, Op
  <2>2. Asked(C(op, u, to))
    BY <1>1, <2>1 DEF Asked
  <2> QED BY <1>1, <2>1, <2>2
<1>2. ASSUME NEW op \in GroupOps, NEW g \in Custom, NEW codes \in SUBSET Code,
             Change(w, G(op, g, codes))
      PROVE  \E c \in Change_Type : c.at = "idle" /\ Asked(c) /\ Change(w, c)
  <2>1. /\ G(op, g, codes).at = "idle" /\ G(op, g, codes).op = op
        /\ G(op, g, codes).user = "-" /\ G(op, g, codes).group = g
        /\ G(op, g, codes) \in Change_Type
    BY DEF NoChange, Change_Type, GroupOps, Op, Group
  <2>2. Asked(G(op, g, codes))
    BY <1>2, <2>1 DEF Asked
  <2> QED BY <1>2, <2>1, <2>2
<1> HIDE DEF C, G
<1>3. ASSUME NEW u \in User, RemoveMember(w, u) \/ LeaveTeam(w, u) \/ DeleteUser(w, u)
      PROVE  \E op \in {"remove", "leave", "deleteUser"}, to \in {"out", "gone"} :
               /\ Change(w, C(op, u, to))
               /\ op \in {"remove", "leave"} => to = "out"
               /\ op = "deleteUser" => to = "gone"
  BY <1>3 DEF RemoveMember, LeaveTeam, DeleteUser, ChangeRow, C
<1>4. ASSUME NEW u \in User, NEW g \in Group \cup {"none"},
             InviteMember(w, u, g) \/ AssignPermissionGroup(w, u, g)
      PROVE  \E op \in {"invite", "assign"}, to \in {g, "gone"} : Change(w, C(op, u, to))
  BY <1>4 DEF InviteMember, AssignPermissionGroup, ChangeRow, C
<1>5. ASSUME NEW g \in Custom, DeleteGroup(w, g)
      PROVE  Change(w, G("delete", g, {}))
  BY <1>5 DEF DeleteGroup, ChangeGroup, G
<1>6. ASSUME NEW g \in Custom, NEW codes \in SUBSET Code,
             CreateGroup(w, g, codes) \/ SetGroupCodes(w, g, codes) \/ PatchGroupCodes(w, g, codes)
      PROVE  \E op \in {"create", "codes"}, some \in SUBSET Code : Change(w, G(op, g, some))
  <2>1. CASE CreateGroup(w, g, codes) \/ SetGroupCodes(w, g, codes)
    BY <2>1 DEF CreateGroup, SetGroupCodes, ChangeGroup, G
  <2>2. CASE PatchGroupCodes(w, g, codes)
    <3>1. groups[g].codes \ codes \in SUBSET Code
      BY <2>2 DEF PatchGroupCodes, HasGroup, TeamInv
    <3> QED BY <2>2, <3>1 DEF PatchGroupCodes, ChangeGroup, G
  <2> QED BY <1>6, <2>1, <2>2
<1>7. CASE \E u \in User : RemoveMember(w, u) \/ LeaveTeam(w, u) \/ DeleteUser(w, u)
  BY <1>1, <1>3, <1>7 DEF RowOps, Row
<1>8. CASE \E u \in User, g \in Group \cup {"none"} :
             InviteMember(w, u, g) \/ AssignPermissionGroup(w, u, g)
  BY <1>1, <1>4, <1>8 DEF RowOps, Row
<1>9. CASE \E g \in Custom : DeleteGroup(w, g)
  BY <1>2, <1>5, <1>9 DEF GroupOps
<1>10. CASE \E g \in Custom, codes \in SUBSET Code :
              CreateGroup(w, g, codes) \/ SetGroupCodes(w, g, codes) \/ PatchGroupCodes(w, g, codes)
  BY <1>2, <1>6, <1>10 DEF GroupOps
<1> QED BY <1>7, <1>8, <1>9, <1>10 DEF Write

(* A change leaves every answer under way without a claim to be true.      *)
LEMMA ChangeKeeps ==
  ASSUME TeamInv, NEW w \in Writer, NEW c \in Change_Type, Asked(c), Change(w, c)
  PROVE  TeamInv'
<1> DEFINE d == [c EXCEPT !.at = "changed"]
<1>1. /\ d \in Change_Type /\ d.at = "changed" /\ d.op = c.op /\ d.user = c.user
      /\ d.to = c.to /\ d.group = c.group
  BY DEF Change_Type
<1>2. Asked(d)
  BY <1>1 DEF Asked
<1> HIDE DEF d
<1>3. /\ tx' = [tx EXCEPT ![w] = d] /\ tx \in [Writer -> Change_Type]
      /\ UNCHANGED <<member, groups, meta, scope, lists>>
  BY DEF Change, TeamInv, d
<1>4. tx' \in [Writer -> Change_Type] /\ tx'[w] = d /\ \A v \in Writer \ {w} : tx'[v] = tx[v]
  BY <1>1, <1>3
<1>5. (\A v \in Writer : Sound(tx[v]))'
  BY <1>1, <1>2, <1>4 DEF Sound, TeamInv
<1>6. (\A v \in Writer : Gone(tx[v]))'
  BY <1>1, <1>3, <1>4 DEF Gone, TeamInv
<1>7. read' \in [Reader -> Read_Type]
      /\ \A r \in Reader : /\ read'[r].at # "idle" => read'[r].over
                           /\ read'[r].at = "meta" => read'[r].group # "-"
  <2>1. NoRead \in Read_Type /\ NoRead.at = "idle"
    BY DEF NoRead, Read_Type
  <2>2. ASSUME NEW r \in Reader, read[r].at # "idle"
        PROVE  /\ [read[r] EXCEPT !.over = TRUE] \in Read_Type
               /\ [read[r] EXCEPT !.over = TRUE].over
               /\ [read[r] EXCEPT !.over = TRUE].at = read[r].at
               /\ [read[r] EXCEPT !.over = TRUE].group = read[r].group
    <3>1. read[r] \in Read_Type
      BY DEF TeamInv
    <3> QED BY ONLY <3>1 DEF Read_Type
  <2> QED BY <2>1, <2>2 DEF Change, TeamInv
<1>8. (\A r \in Reader : Serial(read[r]))'
  BY <1>7 DEF Serial
<1>9. SerialIsTrue'
  BY <1>3 DEF TeamInv, SerialIsTrue, TrueMeta, TrueScope, TrueList, IsActive, CodesOf, HasGroup
<1> QED BY <1>3, <1>4, <1>5, <1>6, <1>7, <1>8, <1>9 DEF TeamInv

(* The keys of a writer go before it commits.                              *)
LEMMA InvalidateKeeps ==
  ASSUME TeamInv, NEW w \in Writer, Invalidate(w)
  PROVE  TeamInv'
<1> PICK c : c = tx[w]
  OBVIOUS
<1> PICK d : d = [c EXCEPT !.at = "invalidated"]
  OBVIOUS
<1>1. /\ c \in Change_Type /\ c.at = "changed" /\ c # NoChange
      /\ meta' = Keep(meta, MetaKeys(c)) /\ scope' = Keep(scope, ScopeKeys(c))
      /\ lists' = Keep(lists, ListKeys(c))
      /\ tx' = [tx EXCEPT ![w] = d] /\ UNCHANGED <<member, groups, read>>
  BY DEF Invalidate, TeamInv, NoChange
<1>2. Asked(c)
  BY <1>1 DEF TeamInv, Sound
<1>3. /\ d \in Change_Type /\ d.at = "invalidated" /\ d.op = c.op /\ d.user = c.user
      /\ d.to = c.to /\ d.group = c.group
  BY <1>1 DEF Change_Type
<1>4. Asked(d)
  BY <1>2, <1>3 DEF Asked
<1>5. /\ c.op \in {"invite", "remove", "leave", "assign"} => MetaKeys(c) = {c.user}
      /\ c.op \in {"remove", "leave"} => ScopeKeys(c) = {c.user}
      /\ c.op \in GroupOps => ListKeys(c) = {c.group}
  BY DEF MetaKeys, ScopeKeys, ListKeys, GroupOps
<1>6. /\ DOMAIN meta' = DOMAIN meta \ MetaKeys(c) /\ \A u \in DOMAIN meta' : meta'[u] = meta[u]
      /\ DOMAIN scope' = DOMAIN scope \ ScopeKeys(c) /\ \A u \in DOMAIN scope' : scope'[u] = scope[u]
      /\ DOMAIN lists' = DOMAIN lists \ ListKeys(c) /\ \A g \in DOMAIN lists' : lists'[g] = lists[g]
  <2>1. DOMAIN meta' = DOMAIN meta \ MetaKeys(c) /\ \A u \in DOMAIN meta' : meta'[u] = meta[u]
    <3>1. meta' = Keep(meta, MetaKeys(c))
      BY <1>1
    <3> QED BY ONLY <3>1 DEF Keep, Restrict
  <2>2. DOMAIN scope' = DOMAIN scope \ ScopeKeys(c) /\ \A u \in DOMAIN scope' : scope'[u] = scope[u]
    <3>1. scope' = Keep(scope, ScopeKeys(c))
      BY <1>1
    <3> QED BY ONLY <3>1 DEF Keep, Restrict
  <2>3. DOMAIN lists' = DOMAIN lists \ ListKeys(c) /\ \A g \in DOMAIN lists' : lists'[g] = lists[g]
    <3>1. lists' = Keep(lists, ListKeys(c))
      BY <1>1
    <3> QED BY ONLY <3>1 DEF Keep, Restrict
  <2> QED BY <2>1, <2>2, <2>3
<1>7. tx' \in [Writer -> Change_Type] /\ tx'[w] = d /\ \A v \in Writer \ {w} : tx'[v] = tx[v]
  BY <1>1, <1>3 DEF TeamInv
<1>8. (\A v \in Writer : Sound(tx[v]))'
  BY <1>3, <1>4, <1>7 DEF Sound, TeamInv
<1>9. (\A v \in Writer : Gone(tx[v]))'
  <2>1. Gone(tx[w])'
    BY <1>3, <1>5, <1>6, <1>7 DEF Gone
  <2>2. ASSUME NEW v \in Writer \ {w} PROVE Gone(tx[v])'
    BY <1>6, <1>7 DEF Gone, TeamInv
  <2> QED BY <2>1, <2>2
<1>10. (\A r \in Reader : Serial(read[r]))'
  <2>1. w \in Pending
    BY <1>1 DEF Pending
  <2>2. ASSUME NEW r \in Reader, read[r].at \in {"scope", "meta", "codes"} PROVE read[r].over
    BY <2>1, <2>2 DEF TeamInv, Serial
  <2> QED BY <1>1, <2>2 DEF Serial
<1>11. SerialIsTrue'
  BY <1>1, <1>6 DEF TeamInv, SerialIsTrue, TrueMeta, TrueScope, TrueList, IsActive, CodesOf, HasGroup
<1> QED BY <1>1, <1>6, <1>7, <1>8, <1>9, <1>10, <1>11 DEF TeamInv

(* While something is being written no answer under way claims to be true. *)
LEMMA NothingSerial ==
  ASSUME TeamInv, NEW w \in Writer, tx[w].at # "idle"
  PROVE  \A r \in Reader : read[r].at \in {"scope", "meta", "codes"} => read[r].over
<1>1. w \in Pending
  BY DEF Pending
<1> QED BY <1>1 DEF TeamInv, Serial

(* What is committed makes untrue only keys that a write overlapped.       *)
LEMMA CommitKeeps ==
  ASSUME TeamInv, NEW w \in Writer, Commit(w)
  PROVE  TeamInv'
<1> PICK c : c = tx[w]
  OBVIOUS
<1>1. /\ c \in Change_Type /\ c.at = "invalidated" /\ c # NoChange
      /\ member' = IF c.user \in User THEN [member EXCEPT ![c.user] = c.to] ELSE member
      /\ tx' = [tx EXCEPT ![w] = NoChange] /\ UNCHANGED <<meta, scope, lists, read>>
  BY DEF Commit, TeamInv, NoChange
<1>2. groups' = IF c.group \in Custom
                  THEN Put(groups, c.group, [codes |-> c.codes, live |-> c.op # "delete"])
                  ELSE groups
  BY DEF Commit
<1>3. Asked(c) /\ Gone(c)
  BY <1>1 DEF TeamInv, Sound
<1>4. /\ tx' \in [Writer -> Change_Type]
      /\ tx'[w] = NoChange /\ \A v \in Writer \ {w} : tx'[v] = tx[v]
  BY <1>1, NoneTyped DEF TeamInv
<1>5. (\A v \in Writer : Sound(tx[v]) /\ Gone(tx[v]))'
  BY <1>1, <1>4 DEF Sound, Gone, TeamInv, NoChange
<1>6. (\A r \in Reader : Serial(read[r]))'
  BY <1>1, NothingSerial DEF Serial
<1>7. member' \in [User -> Row] /\ \A u \in User \ {c.user} : member'[u] = member[u]
  <2>1. c.user \in User => c.to \in Row
    BY <1>3 DEF Asked, Row, RowOps
  <2> QED BY <1>1, <2>1 DEF TeamInv
<1>8. (\A g \in DOMAIN groups : groups[g].codes \in SUBSET Code)'
  <2>1. c.codes \in SUBSET Code
    BY <1>1 DEF Change_Type
  <2>2. CASE c.group \in Custom
    BY <1>2, <2>1, <2>2 DEF TeamInv, Put
  <2>3. CASE c.group \notin Custom
    BY <1>2, <2>3 DEF TeamInv
  <2> QED BY <2>2, <2>3
<1>9. ASSUME NEW u \in User, u # c.user \/ c.op \in GroupOps PROVE member'[u] = member[u]
  BY <1>1, <1>3, <1>7, <1>9 DEF Asked, GroupOps, RowOps
<1>10. ASSUME NEW g, c.group \notin Custom \/ g # c.group PROVE CodesOf(g)' = CodesOf(g)
  <2>1. CASE c.group \notin Custom
    BY <1>2, <2>1, CodesFollowRow
  <2>2. CASE c.group \in Custom
    <3>1. (g \in DOMAIN groups <=> g \in DOMAIN groups') /\ (g \in DOMAIN groups => groups[g] = groups'[g])
      BY <1>2, <1>10, <2>2 DEF Put
    <3> QED BY <3>1 DEF CodesOf, HasGroup, Group
  <2> QED BY <2>1, <2>2
<1>11. (\A u \in DOMAIN meta : ~meta[u].over /\ member[u] # "gone" => TrueMeta(u))'
  <2> SUFFICES ASSUME NEW u \in DOMAIN meta, ~meta[u].over, member'[u] # "gone"
               PROVE  meta[u].group = member'[u]
    BY <1>1 DEF TrueMeta
  <2>1. CASE u = c.user /\ u \in User
    BY <1>1, <1>3, <2>1 DEF Asked, Gone, RowOps, GroupOps, TeamInv
  <2>2. CASE u # c.user \/ u \notin User
    <3>1. member'[u] = member[u]
      BY <1>1, <2>2 DEF TeamInv
    <3> QED BY <3>1 DEF TeamInv, SerialIsTrue, TrueMeta
  <2> QED BY <2>1, <2>2
<1>12. (\A u \in DOMAIN scope : ~scope[u].over /\ member[u] # "gone" => TrueScope(u))'
  <2> SUFFICES ASSUME NEW u \in DOMAIN scope, ~scope[u].over, member'[u] # "gone"
               PROVE  member'[u] \notin {"out", "gone"}
    BY <1>1 DEF TrueScope, IsActive
  <2>1. CASE u = c.user /\ u \in User
    <3>1. c.to = member'[u] /\ c.op \in RowOps
      BY <1>1, <1>3, <2>1 DEF TeamInv, Asked
    <3>2. CASE c.op \in {"invite", "assign"}
      BY <1>3, <3>1, <3>2 DEF Asked, Group, RowOps, GroupOps
    <3>3. CASE c.op \in {"remove", "leave"}
      BY <1>1, <1>3, <2>1, <3>3 DEF Gone
    <3>4. CASE c.op = "deleteUser"
      BY <1>3, <3>1, <3>4 DEF Asked, GroupOps
    <3> QED BY <3>1, <3>2, <3>3, <3>4 DEF RowOps
  <2>2. CASE u # c.user \/ u \notin User
    <3>1. member'[u] = member[u]
      BY <1>1, <2>2 DEF TeamInv
    <3> QED BY <3>1 DEF TeamInv, SerialIsTrue, TrueScope, IsActive
  <2> QED BY <2>1, <2>2
<1>13. (\A g \in DOMAIN lists : ~lists[g].over => TrueList(g))'
  <2> SUFFICES ASSUME NEW g \in DOMAIN lists, ~lists[g].over
               PROVE  lists[g].codes = CodesOf(g)'
    BY <1>1 DEF TrueList
  <2>1. CASE c.group \in Custom /\ g = c.group
    BY <1>1, <1>3, <2>1 DEF Asked, Gone
  <2>2. CASE c.group \notin Custom \/ g # c.group
    BY <1>10, <2>2 DEF TeamInv, SerialIsTrue, TrueList
  <2> QED BY <2>1, <2>2
<1> QED BY <1>1, <1>4, <1>5, <1>6, <1>7, <1>8, <1>11, <1>12, <1>13 DEF TeamInv, SerialIsTrue

(* What is undone was never seen.                                          *)
LEMMA RollbackKeeps ==
  ASSUME TeamInv, NEW w \in Writer, Rollback(w)
  PROVE  TeamInv'
<1>1. /\ tx[w].at # "idle" /\ tx' = [tx EXCEPT ![w] = NoChange]
      /\ UNCHANGED <<member, groups, meta, scope, lists, read>>
  BY DEF Rollback, Pending
<1>2. /\ tx' \in [Writer -> Change_Type]
      /\ tx'[w] = NoChange /\ \A v \in Writer \ {w} : tx'[v] = tx[v]
  BY <1>1, NoneTyped DEF TeamInv
<1>3. (\A v \in Writer : Sound(tx[v]) /\ Gone(tx[v]))'
  BY <1>1, <1>2 DEF Sound, Gone, TeamInv, NoChange
<1>4. (\A r \in Reader : Serial(read[r]))'
  BY <1>1, NothingSerial DEF Serial
<1>5. SerialIsTrue'
  BY <1>1 DEF TeamInv, SerialIsTrue, TrueMeta, TrueScope, TrueList, IsActive, CodesOf, HasGroup
<1> QED BY <1>1, <1>2, <1>3, <1>4, <1>5 DEF TeamInv

-----------------------------------------------------------------------------
(* Readers *)

(* What a reader is about to set, from one step to the next.               *)
LEMMA ReadStep ==
  ASSUME TeamInv, NEW r \in Reader, NEW s \in Read_Type, read' = [read EXCEPT ![r] = s],
         Serial(s), s.at = "meta" => s.group # "-", UNCHANGED <<member, groups, tx>>
  PROVE  /\ (read \in [Reader -> Read_Type])'
         /\ (\A x \in Reader : read[x].at = "meta" => read[x].group # "-")'
         /\ (\A x \in Reader : Serial(read[x]))'
<1>1. /\ read' \in [Reader -> Read_Type] /\ read'[r] = s
      /\ \A x \in Reader \ {r} : read'[x] = read[x]
  BY DEF TeamInv
<1>2. ASSUME NEW x \in Reader PROVE Serial(read[x])'
  <2>1. Serial(read'[x])
    BY <1>1 DEF TeamInv
  <2>2. Pending' = Pending /\ \A u : IsActive(u)' = IsActive(u)
    BY DEF Pending, IsActive
  <2>3. \A g : CodesOf(g)' = CodesOf(g)
    BY DEF CodesOf, HasGroup
  <2> QED BY <2>1, <2>2, <2>3 DEF Serial
<1> QED BY <1>1, <1>2 DEF TeamInv

(* A cache in which every key either stood before or is true.              *)
LEMMA CachesStep ==
  ASSUME TeamInv, UNCHANGED <<member, groups, tx>>,
         (read \in [Reader -> Read_Type])',
         (\A x \in Reader : read[x].at = "meta" => read[x].group # "-")',
         (\A x \in Reader : Serial(read[x]))',
         \A u \in DOMAIN meta' :
            \/ u \in DOMAIN meta /\ meta'[u] = meta[u]
            \/ /\ meta'[u].group \in Group \cup {"none"}
               /\ meta'[u].over \/ (Pending = {} /\ meta'[u].group = member[u]),
         \A u \in DOMAIN scope' :
            \/ u \in DOMAIN scope /\ scope'[u] = scope[u]
            \/ scope'[u].over \/ (Pending = {} /\ IsActive(u)),
         \A g \in DOMAIN lists' :
            \/ g \in DOMAIN lists /\ lists'[g] = lists[g]
            \/ lists'[g].over \/ (Pending = {} /\ lists'[g].codes = CodesOf(g))
  PROVE  TeamInv'
<1>1. /\ \A u : IsActive(u)' = IsActive(u)
      /\ \A g : CodesOf(g)' = CodesOf(g)
      /\ \A v \in Writer : v \in Pending \/ tx[v].at = "idle"
  BY DEF IsActive, CodesOf, HasGroup, Pending
<1>2. (\A v \in Writer : Sound(tx[v]))'
  BY DEF TeamInv, Sound
<1>3. ASSUME NEW v \in Writer, tx[v].at = "invalidated" PROVE Gone(tx[v])'
  <2>1. v \in Pending /\ Gone(tx[v])
    BY <1>3 DEF Pending, TeamInv
  <2> QED BY <1>3, <2>1 DEF Gone
<1>4. (\A v \in Writer : Gone(tx[v]))'
  BY <1>3 DEF Gone
<1>5. (\A u \in DOMAIN meta : meta[u].group \in Group \cup {"none"})'
  BY DEF TeamInv
<1>6. SerialIsTrue'
  BY <1>1 DEF TeamInv, SerialIsTrue, TrueMeta, TrueScope, TrueList
<1> QED BY <1>2, <1>4, <1>5, <1>6 DEF TeamInv

(* A read that sets nothing yet, or that is over.                          *)
LEMMA ReadKeeps ==
  ASSUME TeamInv, NEW r \in Reader, NEW s \in Read_Type, read' = [read EXCEPT ![r] = s],
         Serial(s), s.at = "meta" => s.group # "-",
         UNCHANGED <<member, groups, tx, meta, scope, lists>>
  PROVE  TeamInv'
BY ReadStep, CachesStep

(* A reader with nothing to set claims nothing.                            *)
LEMMA Claimless ==
  /\ NoRead \in Read_Type /\ Serial(NoRead) /\ NoRead.at = "idle"
  /\ \A g \in Group : /\ [NoRead EXCEPT !.at = "fetch", !.group = g] \in Read_Type
                      /\ Serial([NoRead EXCEPT !.at = "fetch", !.group = g])
                      /\ [NoRead EXCEPT !.at = "fetch", !.group = g].at = "fetch"
  BY DEF NoRead, Read_Type, Serial

(* The rows and the key that a reader asks for, as they are now.           *)
LEMMA QueryKeeps ==
  ASSUME TeamInv, NEW r \in Reader, NEW u \in Watched,
         ScopeRead(r, u) \/ MetaRead(r, u) \/ MetaHit(r, u)
  PROVE  TeamInv'
<1> DEFINE S == [NoRead EXCEPT !.at = "scope", !.user = u]
           M == [NoRead EXCEPT !.at = "meta", !.user = u, !.group = member[u]]
           H == [NoRead EXCEPT !.at = "fetch", !.group = meta[u].group]
<1>0. (Pending # {}) \in BOOLEAN /\ u \in User
  OBVIOUS
<1>1. CASE ScopeRead(r, u)
  <2> PICK s : s = [S EXCEPT !.over = Pending # {}]
    OBVIOUS
  <2>1. s \in Read_Type /\ s.at = "scope" /\ s.user = u /\ s.over = (Pending # {})
    BY DEF NoRead, Read_Type
  <2>2. Serial(s)
    BY <1>1, <2>1 DEF Serial, ScopeRead
  <2>3. read' = [read EXCEPT ![r] = s] /\ UNCHANGED <<member, groups, tx, meta, scope, lists>>
    BY <1>1 DEF ScopeRead, Reads
  <2> QED BY <2>1, <2>2, <2>3, ReadKeeps
<1>2. CASE MetaRead(r, u)
  <2> PICK s : s = [M EXCEPT !.over = Pending # {}]
    OBVIOUS
  <2>1. member[u] \in Group \cup {"none"} /\ member[u] # "-"
    BY <1>0, <1>2 DEF MetaRead, IsActive, TeamInv, Row, Group
  <2>2. /\ s \in Read_Type /\ s.at = "meta" /\ s.user = u /\ s.group = member[u]
        /\ s.over = (Pending # {})
    BY <2>1 DEF NoRead, Read_Type
  <2>3. Serial(s)
    BY <2>2 DEF Serial
  <2>4. read' = [read EXCEPT ![r] = s] /\ UNCHANGED <<member, groups, tx, meta, scope, lists>>
    BY <1>2 DEF MetaRead, Reads
  <2> QED BY <2>1, <2>2, <2>3, <2>4, ReadKeeps
<1>3. CASE MetaHit(r, u)
  <2> PICK s : s = [H EXCEPT !.over = Pending # {}]
    OBVIOUS
  <2>1. meta[u].group \in Group
    BY <1>3 DEF MetaHit, TeamInv
  <2>2. s \in Read_Type /\ s.at = "fetch"
    BY <2>1 DEF NoRead, Read_Type
  <2>3. Serial(s)
    BY <2>2 DEF Serial
  <2>4. read' = [read EXCEPT ![r] = s] /\ UNCHANGED <<member, groups, tx, meta, scope, lists>>
    BY <1>3 DEF MetaHit, Reads
  <2> QED BY <2>2, <2>3, <2>4, ReadKeeps
<1> QED BY <1>1, <1>2, <1>3

(* What was read is set, whatever has happened since.                      *)
LEMMA AnswerKeeps ==
  ASSUME TeamInv, NEW r \in Reader, Answer(r)
  PROVE  TeamInv'
<1> PICK s : s = read[r]
  OBVIOUS
<1>0. s \in Read_Type /\ Serial(s) /\ (s.at = "meta" => s.group # "-")
  BY DEF TeamInv
<1>1. CASE ScopeFill(r)
  <2>1. /\ s.at = "scope" /\ scope' = Put(scope, s.user, [over |-> s.over])
        /\ read' = [read EXCEPT ![r] = NoRead] /\ UNCHANGED <<member, groups, tx, meta, lists>>
    BY <1>1 DEF ScopeFill
  <2>2. \A u \in DOMAIN scope' : \/ u \in DOMAIN scope /\ scope'[u] = scope[u]
                                 \/ u = s.user /\ scope'[u].over = s.over
    BY <2>1 DEF Put
  <2>3. s.over \/ (Pending = {} /\ IsActive(s.user))
    BY <1>0, <2>1 DEF Serial
  <2> QED BY <2>1, <2>2, <2>3, Claimless, ReadStep, CachesStep
<1>2. CASE MetaFill(r)
  <2>1. /\ s.at = "meta" /\ meta' = Put(meta, s.user, [group |-> s.group, over |-> s.over])
        /\ read' = [read EXCEPT ![r] = IF s.group \in {"none", "ADMIN"} THEN NoRead
                                       ELSE [NoRead EXCEPT !.at = "fetch", !.group = s.group]]
        /\ UNCHANGED <<member, groups, tx, scope, lists>>
    BY <1>2 DEF MetaFill
  <2>2. \A u \in DOMAIN meta' :
           \/ u \in DOMAIN meta /\ meta'[u] = meta[u]
           \/ u = s.user /\ meta'[u].over = s.over /\ meta'[u].group = s.group
    BY <2>1 DEF Put
  <2>3. s.over \/ (Pending = {} /\ s.group = member[s.user])
    BY <1>0, <2>1 DEF Serial
  <2>4. s.group \in Group \cup {"none"}
    BY <1>0, <2>1 DEF Read_Type
  <2>5. PICK n \in Read_Type : read' = [read EXCEPT ![r] = n] /\ Serial(n) /\ n.at # "meta"
    BY <2>1, <2>4, Claimless
  <2>6. /\ (read \in [Reader -> Read_Type])'
        /\ (\A x \in Reader : read[x].at = "meta" => read[x].group # "-")'
        /\ (\A x \in Reader : Serial(read[x]))'
    BY <2>1, <2>5, ReadStep
  <2> QED BY <2>1, <2>2, <2>3, <2>4, <2>6, CachesStep
<1>3. CASE CodesHit(r)
  BY <1>3, Claimless, ReadKeeps DEF CodesHit
<1>4. CASE CodesRead(r)
  <2> PICK n : n = [[s EXCEPT !.at = "codes", !.codes = CodesOf(s.group)]
                      EXCEPT !.over = Pending # {}]
    OBVIOUS
  <2>1. CodesOf(s.group) \in SUBSET Code
    BY DEF CodesOf, HasGroup, TeamInv
  <2>2. /\ n \in Read_Type /\ n.at = "codes" /\ n.codes = CodesOf(s.group)
        /\ n.group = s.group /\ n.over = (Pending # {})
    BY <1>0, <2>1 DEF Read_Type
  <2>3. Serial(n)
    BY <2>2 DEF Serial
  <2>4. read' = [read EXCEPT ![r] = n] /\ UNCHANGED <<member, groups, tx, meta, scope, lists>>
    BY <1>4 DEF CodesRead, Reads
  <2> QED BY <2>2, <2>3, <2>4, ReadKeeps
<1>5. CASE CodesFill(r)
  <2>1. /\ s.at = "codes" /\ lists' = Put(lists, s.group, [codes |-> s.codes, over |-> s.over])
        /\ read' = [read EXCEPT ![r] = NoRead] /\ UNCHANGED <<member, groups, tx, meta, scope>>
    BY <1>5 DEF CodesFill
  <2>2. \A g \in DOMAIN lists' :
           \/ g \in DOMAIN lists /\ lists'[g] = lists[g]
           \/ g = s.group /\ lists'[g].over = s.over /\ lists'[g].codes = s.codes
    BY <2>1 DEF Put
  <2>3. s.over \/ (Pending = {} /\ s.codes = CodesOf(s.group))
    BY <1>0, <2>1 DEF Serial
  <2> QED BY <2>1, <2>2, <2>3, Claimless, ReadStep, CachesStep
<1> QED BY <1>1, <1>2, <1>3, <1>4, <1>5 DEF Answer

(* A key that expires takes nothing else with it.                          *)
LEMMA ExpiryKeeps ==
  ASSUME TeamInv, NEW k, ExpireMeta(k) \/ ExpireScope(k) \/ ExpireList(k)
  PROVE  TeamInv'
<1>1. /\ \A u \in DOMAIN meta' : u \in DOMAIN meta /\ meta'[u] = meta[u]
      /\ \A u \in DOMAIN scope' : u \in DOMAIN scope /\ scope'[u] = scope[u]
      /\ \A g \in DOMAIN lists' : g \in DOMAIN lists /\ lists'[g] = lists[g]
  BY DEF ExpireMeta, ExpireScope, ExpireList, Keep, Restrict
<1>2. UNCHANGED <<member, groups, tx, read>>
  BY DEF ExpireMeta, ExpireScope, ExpireList
<1>3. /\ (read \in [Reader -> Read_Type])'
      /\ (\A x \in Reader : read[x].at = "meta" => read[x].group # "-")'
    BY <1>2 DEF TeamInv
<1>4. (\A x \in Reader : Serial(read[x]))'
  BY <1>2 DEF TeamInv, Serial, Pending, IsActive, CodesOf, HasGroup
<1> QED BY <1>1, <1>2, <1>3, <1>4, CachesStep

-----------------------------------------------------------------------------

(* A key of the cache of rights that was read while nothing was being      *)
(* written is true at any later time, but for a deleted user: whatever     *)
(* TeamService and RbacService write, the keys they delete are all that    *)
(* their change makes untrue.                                              *)
THEOREM SerialAlwaysTrue == TeamSpec => []SerialIsTrue
<1>1. TeamInit => TeamInv
  <2> SUFFICES ASSUME TeamInit PROVE TeamInv
    OBVIOUS
  <2>1. /\ groups = <<>> /\ meta = <<>> /\ scope = <<>> /\ lists = <<>>
        /\ tx = [w \in Writer |-> NoChange] /\ read = [r \in Reader |-> NoRead]
    BY DEF TeamInit
  <2>2. DOMAIN groups = {} /\ DOMAIN meta = {} /\ DOMAIN scope = {} /\ DOMAIN lists = {}
    BY <2>1
  <2>3. member \in [User -> Row]
    BY DEF TeamInit, Row, Group
  <2>4. tx \in [Writer -> Change_Type] /\ \A w \in Writer : Sound(tx[w]) /\ Gone(tx[w])
    BY <2>1, NoneTyped DEF Sound, Gone, NoChange
  <2>5. /\ read \in [Reader -> Read_Type]
        /\ \A r \in Reader : Serial(read[r]) /\ read[r].at # "meta"
    BY <2>1, Claimless
  <2>6. SerialIsTrue
    BY <2>2 DEF SerialIsTrue
  <2> QED BY <2>2, <2>3, <2>4, <2>5, <2>6 DEF TeamInv
<1>2. TeamInv /\ [TeamNext]_teamVars => TeamInv'
  <2> SUFFICES ASSUME TeamInv, [TeamNext]_teamVars PROVE TeamInv'
    OBVIOUS
  <2>1. ASSUME NEW w \in Writer, Write(w) PROVE TeamInv'
    BY <2>1, WriteAsks, ChangeKeeps
  <2>2. ASSUME NEW w \in Writer, Invalidate(w) \/ Commit(w) \/ Rollback(w) PROVE TeamInv'
    BY <2>2, InvalidateKeeps, CommitKeeps, RollbackKeeps
  <2>3. ASSUME NEW r \in Reader, Answer(r) PROVE TeamInv'
    BY <2>3, AnswerKeeps
  <2>4. ASSUME NEW r \in Reader, NEW u \in Watched, ScopeRead(r, u) \/ MetaRead(r, u) \/ MetaHit(r, u)
        PROVE  TeamInv'
    BY <2>4, QueryKeeps
  <2>5. ASSUME NEW k, ExpireMeta(k) \/ ExpireScope(k) \/ ExpireList(k) PROVE TeamInv'
    BY <2>5, ExpiryKeeps
  <2>6. CASE UNCHANGED teamVars
    <3>1. UNCHANGED <<member, groups, tx, meta, scope, lists, read>>
      BY <2>6 DEF teamVars
    <3>2. (\A x \in Reader : Serial(read[x]))'
      BY <3>1 DEF TeamInv, Serial, Pending, IsActive, CodesOf, HasGroup
    <3> QED BY <3>1, <3>2, CachesStep DEF TeamInv
  <2> QED BY <2>1, <2>2, <2>3, <2>4, <2>5, <2>6 DEF TeamNext
<1>3. TeamInv => SerialIsTrue
  BY DEF TeamInv
<1> QED BY <1>1, <1>2, <1>3, PTL DEF TeamSpec

=============================================================================
