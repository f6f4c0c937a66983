------------------------------ MODULE Realtime ------------------------------
(***************************************************************************)
(* The web sockets of one worker.  An event that a service publishes goes  *)
(* to the Redis channel of its team; a subscriber task per team, started   *)
(* by the first connection that registers and cancelled by the last one    *)
(* that leaves, puts what it hears into a bounded queue per connection,    *)
(* and the send loop of the connection sends from there.                   *)
(*                                                                         *)
(* An action is what a task of the event loop does between two awaits.     *)
(* register, unregister and shutdown run under one asyncio.Lock; only      *)
(* unregister awaits while it holds it, for the task it cancelled.         *)
(*                                                                         *)
(* Events are numbered per team in the order Redis has them.  first and    *)
(* sent are history: the first event offered to a connection, and those    *)
(* its client was sent.                                                    *)
(***************************************************************************)
EXTENDS Naturals, Sequences, FiniteSets

CONSTANTS
  Conn,        \* web sockets a client may have open
  Team,
  Task, NoTask,  \* subscriber tasks, an id is used again once it is done
  SEND_QUEUE_MAXSIZE,
  MaxEvents    \* bound: events published per team

ASSUME QueueAssumption == SEND_QUEUE_MAXSIZE \in Nat \ {0}
ASSUME TaskAssumption  == NoTask \notin Task

PING_INTERVAL == 30
IDLE_TIMEOUT  == 60

VARIABLES
  up,                \* the worker has not been shut down
  published,         \* events of each team
  conn,              \* _Connection and its endpoint
  by_team,           \* _by_team
  subscriber_tasks,  \* _subscriber_tasks
  task,              \* _team_subscriber
  lock               \* the cancelled task unregister awaits under _lock

vars == <<up, published, conn, by_team, subscriber_tasks, task, lock>>

(* pings counts the receive timeouts since the client was last heard; a    *)
(* quiet client says nothing any more, not even that it is gone.           *)
Off == [state |-> "off", team |-> CHOOSE t \in Team : TRUE, quiet |-> FALSE,
        pings |-> 0, queue |-> <<>>, dropped |-> 0, first |-> 0, sent |-> <<>>]

Done == [state |-> "done", team |-> CHOOSE t \in Team : TRUE, inbox |-> <<>>]

Init ==
  /\ up = TRUE
  /\ published = [t \in Team |-> 0]
  /\ conn = [c \in Conn |-> Off]
  /\ by_team = [t \in Team |-> {}]
  /\ subscriber_tasks = [t \in Team |-> NoTask]
  /\ task = [k \in Task |-> Done]
  /\ lock = NoTask

Alive(k) == task[k].state \in {"starting", "listening"}
Free == {k \in Task : task[k].state = "done"}
Cancelled(r) == [r EXCEPT !.state = "closing", !.inbox = <<>>]

-----------------------------------------------------------------------------
(* The registry.  ConnectionManager *)

(* realtime_ws accepted the client and waits to register it. *)
Connect(c, t) ==
  /\ up /\ conn[c].state = "off"
  /\ conn' = [conn EXCEPT ![c] = [Off EXCEPT !.state = "joining", !.team = t]]
  /\ UNCHANGED <<up, published, by_team, subscriber_tasks, task, lock>>

(* register: a task that has crashed is still registered, it is not        *)
(* replaced.                                                               *)
Register(c) ==
  LET t == conn[c].team IN
  /\ conn[c].state = "joining" /\ lock = NoTask
  /\ conn' = [conn EXCEPT ![c].state = "open"]
  /\ by_team' = [by_team EXCEPT ![t] = @ \cup {c}]
  /\ IF subscriber_tasks[t] = NoTask
     THEN LET k == CHOOSE k \in Free : TRUE IN
          /\ Free # {}   \* bound
          /\ subscriber_tasks' = [subscriber_tasks EXCEPT ![t] = k]
          /\ task' = [task EXCEPT ![k] = [Done EXCEPT !.state = "starting",
                                                      !.team = t]]
     ELSE UNCHANGED <<subscriber_tasks, task>>
  /\ UNCHANGED <<up, published, lock>>

(* Mutant: the last connection forgets the task without cancelling it. *)
Unregister_NoCancel(c) ==
  LET t == conn[c].team
      last == by_team[t] = {c}
  IN
  /\ conn[c].state = "leaving" /\ lock = NoTask
  /\ by_team' = [by_team EXCEPT ![t] = @ \ {c}]
  /\ subscriber_tasks' = [subscriber_tasks EXCEPT ![t] = IF last THEN NoTask ELSE @]
  /\ conn' = [conn EXCEPT ![c] = Off]
  /\ UNCHANGED <<up, published, task, lock>>

(* Mutant: whoever leaves takes the subscriber of the team along. *)
Unregister_Always(c) ==
  LET t == conn[c].team
      k == subscriber_tasks[t]
  IN
  /\ conn[c].state = "leaving" /\ lock = NoTask
  /\ by_team' = [by_team EXCEPT ![t] = @ \ {c}]
  /\ subscriber_tasks' = [subscriber_tasks EXCEPT ![t] = NoTask]
  /\ IF k # NoTask /\ Alive(k)
     THEN /\ task' = [task EXCEPT ![k] = Cancelled(@)]
          /\ lock' = k
          /\ conn' = [conn EXCEPT ![c].state = "awaiting"]
     ELSE /\ conn' = [conn EXCEPT ![c] = Off]
          /\ UNCHANGED <<task, lock>>
  /\ UNCHANGED <<up, published>>

(* unregister, in the finally of the endpoint: the last connection of a    *)
(* team cancels its task, if it is not done, and awaits its end.           *)
Unregister(c) ==
  LET t == conn[c].team
      k == subscriber_tasks[t]
      last == by_team[t] = {c}
  IN
  /\ conn[c].state = "leaving" /\ lock = NoTask
  /\ by_team' = [by_team EXCEPT ![t] = @ \ {c}]
  /\ subscriber_tasks' = [subscriber_tasks EXCEPT ![t] = IF last THEN NoTask ELSE @]
  /\ IF last /\ k # NoTask /\ Alive(k)
     THEN /\ task' = [task EXCEPT ![k] = Cancelled(@)]
          /\ lock' = k
          /\ conn' = [conn EXCEPT ![c].state = "awaiting"]
     ELSE /\ task' = IF last /\ k # NoTask THEN [task EXCEPT ![k] = Done]
                     ELSE task
          /\ conn' = [conn EXCEPT ![c] = Off]
          /\ UNCHANGED lock
  /\ UNCHANGED <<up, published>>

(* ... and lets the lock go. *)
Awaited(c) ==
  /\ conn[c].state = "awaiting" /\ task[lock].state = "done"
  /\ lock' = NoTask
  /\ conn' = [conn EXCEPT ![c] = Off]
  /\ UNCHANGED <<up, published, by_team, subscriber_tasks, task>>

(* shutdown: connections that are still open are forgotten, their          *)
(* endpoints unregister nothing.                                           *)
Shutdown ==
  /\ up /\ lock = NoTask
  /\ up' = FALSE
  /\ by_team' = [t \in Team |-> {}]
  /\ subscriber_tasks' = [t \in Team |-> NoTask]
  /\ task' = [k \in Task |->
       IF Alive(k) THEN Cancelled(task[k])
       ELSE IF task[k].state = "crashed" THEN Done ELSE task[k]]
  /\ UNCHANGED <<published, conn, lock>>

-----------------------------------------------------------------------------
(* From the service to the queues *)

(* publish: Redis hands the event to those subscribed at that moment; what *)
(* is published once this worker is down reaches none of its clients.      *)
Publish(t) ==
  /\ up /\ published[t] < MaxEvents
  /\ published' = [published EXCEPT ![t] = @ + 1]
  /\ task' = [k \in Task |->
       IF task[k].state = "listening" /\ task[k].team = t
       THEN [task[k] EXCEPT !.inbox = Append(@, published'[t])] ELSE task[k]]
  /\ UNCHANGED <<up, conn, by_team, subscriber_tasks, lock>>

(* _team_subscriber subscribes some time after register has returned, *)
Subscribe(k) ==
  /\ task[k].state = "starting"
  /\ task' = [task EXCEPT ![k].state = "listening"]
  /\ UNCHANGED <<up, published, conn, by_team, subscriber_tasks, lock>>

(* _Connection.offer: a full queue loses its oldest event. *)
Offer(r, event) ==
  [r EXCEPT
     !.queue   = Append(IF Len(@) < SEND_QUEUE_MAXSIZE THEN @ ELSE Tail(@), event),
     !.dropped = IF Len(r.queue) < SEND_QUEUE_MAXSIZE THEN @ ELSE @ + 1,
     !.first   = IF @ = 0 THEN event ELSE @]

(* hands what it hears to the connections registered then (fanout), *)
Listen(k) ==
  /\ task[k].state = "listening" /\ task[k].inbox # <<>>
  /\ conn' = [c \in Conn |->
       IF c \in by_team[task[k].team] THEN Offer(conn[c], Head(task[k].inbox))
       ELSE conn[c]]
  /\ task' = [task EXCEPT ![k].inbox = Tail(@)]
  /\ UNCHANGED <<up, published, by_team, subscriber_tasks, lock>>

(* ends with an error when Redis closes the connection, *)
Crash(k) ==
  /\ Alive(k)
  /\ task' = [task EXCEPT ![k].state = "crashed", ![k].inbox = <<>>]
  /\ UNCHANGED <<up, published, conn, by_team, subscriber_tasks, lock>>

(* and once cancelled unsubscribes and closes before it ends. *)
Close(k) ==
  /\ task[k].state = "closing"
  /\ task' = [task EXCEPT ![k] = Done]
  /\ UNCHANGED <<up, published, conn, by_team, subscriber_tasks, lock>>

-----------------------------------------------------------------------------
(* The endpoint of a connection.  realtime_ws *)

InEndpoint == UNCHANGED <<up, published, by_team, subscriber_tasks, task, lock>>

(* send_loop *)
Send(c) ==
  /\ conn[c].state = "open" /\ conn[c].queue # <<>>
  /\ conn' = [conn EXCEPT ![c].sent  = Append(@, Head(conn[c].queue)),
                          ![c].queue = Tail(@)]
  /\ InEndpoint

(* The client sends a text, a ping or anything else. *)
Hear(c) ==
  /\ conn[c].state = "open" /\ ~conn[c].quiet /\ conn[c].pings > 0
  /\ conn' = [conn EXCEPT ![c].pings = 0]
  /\ InEndpoint

(* The network of the client is gone, and nobody tells the server. *)
FallSilent(c) ==
  /\ conn[c].state = "open" /\ ~conn[c].quiet
  /\ conn' = [conn EXCEPT ![c].quiet = TRUE]
  /\ InEndpoint

(* The client closes, or a send or a receive fails. *)
Disconnect(c) ==
  /\ conn[c].state = "open"
  /\ conn' = [conn EXCEPT ![c].state = "leaving"]
  /\ InEndpoint

(* Mutant: the server's own ping counts as a sign of life. *)
Ping_Refreshes(c) ==
  /\ conn[c].state = "open"
  /\ conn' = [conn EXCEPT ![c].pings = 0]
  /\ InEndpoint

(* A receive that timed out: the time since last_ping is then at least     *)
(* this, and a little more.                                                *)
Silence(c) == (conn[c].pings + 1) * PING_INTERVAL

Ping(c) ==
  /\ conn[c].state = "open" /\ Silence(c) <= IDLE_TIMEOUT
  /\ conn' = [conn EXCEPT ![c].pings = @ + 1]
  /\ InEndpoint

(* Close code 4004. *)
IdleClose(c) ==
  /\ conn[c].state = "open" /\ Silence(c) >= IDLE_TIMEOUT
  /\ conn' = [conn EXCEPT ![c].state = "leaving"]
  /\ InEndpoint

Endpoint(c) ==
  \/ \E t \in Team : Connect(c, t)
  \/ Register(c)    \/ Unregister(c)  \/ Awaited(c)
  \/ Send(c)        \/ Hear(c)        \/ FallSilent(c)
  \/ Disconnect(c)  \/ Ping(c)        \/ IdleClose(c)

TeamSubscriber(k) == Subscribe(k) \/ Listen(k) \/ Crash(k) \/ Close(k)

Next ==
  \/ \E c \in Conn : Endpoint(c)
  \/ \E k \in Task : TeamSubscriber(k)
  \/ \E t \in Team : Publish(t)
  \/ Shutdown

(* The event loop runs every task that can run, asyncio.Lock serves those  *)
(* who wait in their order, a send ends, a timer fires.  Nothing makes a   *)
(* client talk or leave, Redis fail, or anything be published.             *)
EventLoop ==
  /\ \A c \in Conn :
       /\ SF_vars(Register(c) \/ Unregister(c) \/ Awaited(c))
       /\ WF_vars(Send(c)) /\ WF_vars(Ping(c) \/ IdleClose(c))
  /\ \A k \in Task : WF_vars(Subscribe(k) \/ Listen(k) \/ Close(k))

Spec == Init /\ [][Next]_vars /\ EventLoop

-----------------------------------------------------------------------------
(* What clients may rely on *)

(* A client gets the events of its team in their order, none twice, and    *)
(* from the first one it was offered all but those its full queue dropped, *)
(* whoever else comes and leaves (register, unregister, fanout, offer).    *)
NothingLostButOverflow ==
  \A c \in Conn :
    LET got == conn[c].sent \o conn[c].queue IN
    /\ \A m, n \in DOMAIN got : m < n => got[m] < got[n]
    /\ got # <<>> =>
         Len(got) + conn[c].dropped = got[Len(got)] - conn[c].first + 1

(* An event the subscriber of a team hears while a connection of the team  *)
(* is open reaches its client, unless the connection ends, its queue       *)
(* overflows, the subscriber has crashed or the worker is shut down.       *)
Crashed(t) == subscriber_tasks[t] # NoTask /\ ~Alive(subscriber_tasks[t])
Heard(c, n) ==
  /\ conn[c].state = "open" /\ up
  /\ \E k \in Task : /\ task[k].state = "listening" /\ task[k].team = conn[c].team
                     /\ \E m \in DOMAIN task[k].inbox : task[k].inbox[m] = n
EventsArrive ==
  \A c \in Conn, n \in 1 .. MaxEvents :
    Heard(c, n) ~> \/ \E m \in DOMAIN conn[c].sent : conn[c].sent[m] = n
                   \/ conn[c].dropped > 0 \/ conn[c].state # "open"
                   \/ Crashed(conn[c].team) \/ ~up

(* A connection whose client has fallen silent is closed and unregistered  *)
(* in the end, however the registry's lock is contended for (IDLE_TIMEOUT).*)
IdleEnds ==
  \A c \in Conn : conn[c].state = "open" /\ conn[c].quiet ~> conn[c].state = "off"
=============================================================================
