--------------------------- MODULE ListenerProofs ---------------------------
(***************************************************************************)
(* The listener's loop (Listener.tla), for any number of connections, any  *)
(* packets, limits and faults: every route request is settled exactly      *)
(* once, and a client that leaves while it waits gets nothing more.        *)
(* LoopInv is the invariant, over the connections, the workers, the        *)
(* kernel's queue and the batch being served.                              *)
(***************************************************************************)
EXTENDS ListenerHandlers

----------------------------------------------------------------------------
(* The inductive invariant.                                                *)

\* A connection that is not gone.
Alive(k) ==
    /\ Sound(k)
    /\ k.state = "ROUTE_WAITING" /\ ~k.closing => Waits(k)
    /\ k.forked => k.closing
    /\ k.place # "live" => ~k.closing /\ k.state = "INITIAL"

\* Every connection that is not gone is sound, every one that is gone is
\* settled.
Lives ==
    /\ DOMAIN conn = Conns
    /\ \A c \in Conns : IF conn[c].place = "gone" THEN Finished(conn[c]) ELSE Alive(conn[c])

\* A worker is the child of a connection that forked.
Children ==
    /\ DOMAIN child = Conns
    /\ \A c \in Conns : conn[c].place # "gone" /\ ~conn[c].forked => child[c] = "none"

\* The kernel's queue holds each client that has come and was not taken in.
Queue ==
    /\ backlog \in Seq(Conns)
    /\ \A i \in 1..Len(backlog) : conn[backlog[i]].place = "backlog"
    /\ \A i, j \in 1..Len(backlog) : backlog[i] = backlog[j] => i = j

\* An event that says its client has left.
Leaves(e) == e.kind = "CLIENT" /\ e.flags \cap {"ERR", "HUP", "RDHUP"} # {}

\* The phases in which a batch is served.
Batching == {"signals", "route", "sockets", "timers"}

\* What a batch may ask: an upstream's event only where there is one, one
\* event for a client, and none of a client that left while it waited that
\* would still be served.
Events ==
    \A e \in requests.ready :
        /\ e.c \in Live /\ e.kind \in {"CLIENT", "UPSTREAM", "TIMEOUT"}
        /\ e.kind = "UPSTREAM" => ~Early(conn[e.c])
        /\ Leaves(e) => /\ e.c \notin requests.routes
                        /\ conn[e.c].state = "ROUTE_WAITING" => conn[e.c].closing /\ ~conn[e.c].forked
        /\ \A f \in requests.ready : e.kind = "CLIENT" /\ f.kind = "CLIENT" /\ e.c = f.c => e = f

\* The waiters a batch asks for their verdict.
Routes == \A c \in requests.routes : c \in Live /\ ~conn[c].closing /\ conn[c].state = "ROUTE_WAITING"

\* What is left of the batch, by the loop's phase.
Batch ==
    /\ pc \in Batching \cup {"wait", "accept", "exited"}
    /\ DOMAIN requests = {"ready", "routes", "child", "stop", "accept"}
    /\ pc \in {"wait", "accept"} => requests.ready = {} /\ requests.routes = {} /\ \A c \in Live : ~conn[c].closing
    /\ pc = "exited" => Live = {}
    /\ pc \in Batching => Events /\ Routes
    /\ pc \in {"sockets", "timers"} => requests.routes = {}
    /\ pc = "timers" => \A e \in requests.ready : e.kind = "TIMEOUT"

\* The inductive invariant.
LoopInv == Lives /\ Children /\ Queue /\ Batch

\* A change of a connection that the invariant does not see.
Same(k, j) ==
    /\ Formed(j)
    /\ j.place = k.place /\ j.closing = k.closing /\ j.forked = k.forked
    /\ j.state = k.state /\ j.waiter = k.waiter /\ j.timer = k.timer
    /\ j.metrics = k.metrics /\ j.route_metrics = k.route_metrics
    /\ Idle(k) => Idle(j)

\* A change the invariant does not see keeps a connection that is not gone
\* sound.
LEMMA SameAlive ==
    ASSUME NEW k, NEW j, Alive(k), Same(k, j)
    PROVE  Alive(j)
<1>1. Counted(j)
  BY DEF Alive, Same, Sound, Counted
<1>2. Held(j) /\ Calm(j) /\ Formed(j)
  BY Zenon DEF Alive, Same, Sound, Held, Calm, Waits, Early
<1>3. QED
  BY <1>1, <1>2 DEF Alive, Same, Sound, Waits

\* And one that is gone settled.
LEMMA SameFinished ==
    ASSUME NEW k, NEW j, Finished(k), Same(k, j)
    PROVE  Finished(j)
BY DEF Finished, Same

\* No change is such a change.
LEMMA SameItself ==
    ASSUME NEW k, Formed(k)
    PROVE  Same(k, k)
BY Zenon DEF Same

\* Every connection is well formed.
LEMMA AllFormed ==
    ASSUME Lives, NEW c \in Conns
    PROVE  Formed(conn[c])
BY Zenon DEF Lives, Alive, Sound, Finished

\* What is known of a live connection.
LEMMA LivesAlive ==
    ASSUME Lives, NEW c \in Live
    PROVE  c \in Conns /\ Alive(conn[c]) /\ conn[c].place = "live" /\ Formed(conn[c])
BY DEF Lives, Live, Alive, Sound

\* The connections the invariant does not see change leave it standing.
LEMMA SameLives ==
    ASSUME Lives, DOMAIN conn' = Conns, \A c \in Conns : Same(conn[c], conn'[c])
    PROVE  Lives' /\ Live' = Live
<1>1. ASSUME NEW c \in Conns
      PROVE  IF conn'[c].place = "gone" THEN Finished(conn'[c]) ELSE Alive(conn'[c])
  <2>1. Same(conn[c], conn'[c]) /\ conn'[c].place = conn[c].place
    BY DEF Same
  <2> QED  BY <2>1, SameAlive, SameFinished, Zenon DEF Lives
<1>2. Lives'
  BY <1>1, Zenon DEF Lives
<1>3. Live' = Live
  BY DEF Live, Same
<1>4. QED
  BY <1>2, <1>3, Zenon

\* Workers belong to the connections they did.
LEMMA SameChildren ==
    ASSUME Children, \A c \in Conns : Same(conn[c], conn'[c]), child' = child
    PROVE  Children'
BY DEF Children, Same

\* The kernel's queue holds the clients it did.
LEMMA SameQueue ==
    ASSUME Queue, \A c \in Conns : Same(conn[c], conn'[c]), backlog' = backlog
    PROVE  Queue'
<1>1. ASSUME NEW i \in 1..Len(backlog) PROVE conn'[backlog[i]].place = "backlog"
  <2>1. backlog[i] \in Conns
    BY DEF Queue
  <2> QED  BY <2>1 DEF Queue, Same
<1>2. QED
  BY <1>1 DEF Queue

\* The batch asks for what it did.
LEMMA SameBatch ==
    ASSUME Lives, Batch, \A c \in Conns : Same(conn[c], conn'[c]), Live' = Live, pc' = pc, requests' = requests
    PROVE  Batch'
<1>1. ASSUME NEW c \in Live
      PROVE  c \in Live' /\ conn'[c].closing = conn[c].closing /\ conn'[c].forked = conn[c].forked
             /\ conn'[c].state = conn[c].state
  BY Zenon DEF Live, Same
<1>2. Events => Events'
  <2> SUFFICES ASSUME Events, NEW e \in requests.ready
               PROVE  /\ e.c \in Live' /\ e.kind \in {"CLIENT", "UPSTREAM", "TIMEOUT"}
                      /\ e.kind = "UPSTREAM" => ~Early(conn'[e.c])
                      /\ Leaves(e) => /\ e.c \notin requests.routes
                                      /\ conn'[e.c].state = "ROUTE_WAITING" => conn'[e.c].closing /\ ~conn'[e.c].forked
                      /\ \A f \in requests.ready : e.kind = "CLIENT" /\ f.kind = "CLIENT" /\ e.c = f.c => e = f
    BY Zenon DEF Events, Leaves, Early
  <2> QED  BY <1>1, Zenon DEF Events, Early
<1>3. Routes => Routes'
  BY <1>1, Zenon DEF Routes
<1>4. QED
  BY <1>1, <1>2, <1>3, Zenon DEF Batch

\* A step that changes connections only where the invariant does not see
\* keeps it.
LEMMA SameLoop ==
    ASSUME LoopInv, DOMAIN conn' = Conns, \A c \in Conns : Same(conn[c], conn'[c]),
           pc' = pc, requests' = requests, backlog' = backlog, child' = child
    PROVE  LoopInv'
BY SameLives, SameChildren, SameQueue, SameBatch, Zenon DEF LoopInv

----------------------------------------------------------------------------

\* One connection changes.
LEMMA OneSame ==
    ASSUME Lives, NEW c \in Conns, NEW j, Same(conn[c], j), conn' = [conn EXCEPT ![c] = j]
    PROVE  DOMAIN conn' = Conns /\ \A d \in Conns : Same(conn[d], conn'[d])
<1>1. DOMAIN conn' = Conns /\ conn'[c] = j /\ \A d \in Conns \ {c} : conn'[d] = conn[d]
  BY DEF Lives
<1>2. QED
  BY <1>1, AllFormed, SameItself, Zenon

\* A peer sends, closes or resets.
LEMMA SpeakInv ==
    ASSUME LoopInv, NEW c \in Conns, NEW s \in End, Speak(c, s)
    PROVE  LoopInv' /\ \A d \in Conns : Same(conn[d], conn'[d])
<1>0. Formed(conn[c]) /\ Lives
  BY AllFormed, SMTT(30) DEF LoopInv
<1> DEFINE q == conn[c].sock[s]
           a == [conn[c] EXCEPT !.sock[s].said = @ + 1, !.sock[s].unread = @ \o Chunks(c, s)[q.said + 1]]
           b == [conn[c] EXCEPT !.sock[s].fin = TRUE]
           r == [conn[c] EXCEPT !.sock[s].rst = TRUE]
<1>1. Same(conn[c], a) /\ Same(conn[c], b) /\ Same(conn[c], r)
  BY <1>0 DEF Same, Formed, Idle, Fields, End
<1>2. \E j \in {a, b, r} : conn' = [conn EXCEPT ![c] = j]
  BY Zenon DEF Speak
<1> HIDE DEF a, b, r
<1>3. DOMAIN conn' = Conns /\ \A d \in Conns : Same(conn[d], conn'[d])
  BY <1>0, <1>1, <1>2, OneSame, Zenon
<1>4. QED
  BY <1>3, SameLoop, Zenon DEF Speak, loop

\* A peer reads.
LEMMA HearInv ==
    ASSUME LoopInv, NEW c \in Conns, NEW s \in End, Hear(c, s)
    PROVE  LoopInv' /\ \A d \in Conns : Same(conn[d], conn'[d])
<1>0. Formed(conn[c]) /\ Lives
  BY AllFormed DEF LoopInv
<1> DEFINE a == [conn[c] EXCEPT !.sock[s].out = 0]
<1>1. Same(conn[c], a)
  BY <1>0 DEF Same, Formed, Idle, Fields, End
<1>2. conn' = [conn EXCEPT ![c] = a]
  BY DEF Hear
<1> HIDE DEF a
<1>3. DOMAIN conn' = Conns /\ \A d \in Conns : Same(conn[d], conn'[d])
  BY <1>0, <1>1, <1>2, OneSame, Zenon
<1>4. QED
  BY <1>3, SameLoop, Zenon DEF Hear, loop

\* A dial comes through or is refused.
LEMMA DialInv ==
    ASSUME LoopInv, NEW c \in Conns, Dial(c)
    PROVE  LoopInv' /\ \A d \in Conns : Same(conn[d], conn'[d])
<1>0. Formed(conn[c]) /\ Lives /\ conn[c].dial = "trying"
  BY AllFormed DEF LoopInv, Dial
<1> DEFINE a == [conn[c] EXCEPT !.dial = "up"]
           b == [conn[c] EXCEPT !.dial = "refused", !.sock["upstream"].rst = TRUE]
<1>1. Same(conn[c], a) /\ Same(conn[c], b)
  BY <1>0 DEF Same, Formed, Idle, Fields, End
<1>2. \E j \in {a, b} : conn' = [conn EXCEPT ![c] = j]
  BY Zenon DEF Dial
<1> HIDE DEF a, b
<1>3. DOMAIN conn' = Conns /\ \A d \in Conns : Same(conn[d], conn'[d])
  BY <1>0, <1>1, <1>2, OneSame, Zenon
<1>4. QED
  BY <1>3, SameLoop, Zenon DEF Dial, loop

\* The resolver answers.
LEMMA ResolveInv ==
    ASSUME LoopInv, NEW c \in Conns, Resolve(c)
    PROVE  LoopInv' /\ \A d \in Conns : Same(conn[d], conn'[d])
<1>0. Formed(conn[c]) /\ Lives
  BY AllFormed DEF LoopInv
<1>1. PICK v \in Verdicts : conn' = [conn EXCEPT ![c].answer = v]
  BY Zenon DEF Resolve
<1> DEFINE a == [conn[c] EXCEPT !.answer = v]
<1>2. Same(conn[c], a)
  BY <1>0, Zenon DEF Same, Formed, Idle, Fields, End
<1>3. conn' = [conn EXCEPT ![c] = a]
  BY <1>1
<1> HIDE DEF a
<1>4. DOMAIN conn' = Conns /\ \A d \in Conns : Same(conn[d], conn'[d])
  BY <1>0, <1>2, <1>3, OneSame, Zenon
<1>5. QED
  BY <1>4, SameLoop, Zenon DEF Resolve, loop

\* The clock advances.
LEMMA TickInv ==
    ASSUME LoopInv, Tick
    PROVE  LoopInv' /\ \A d \in Conns : Same(conn[d], conn'[d])
<1>0. Lives
  BY Zenon DEF LoopInv
<1> DEFINE t(c) == [conn[c] EXCEPT !.left = Later(@), !.life = Later(@), !.fired = @ \/ conn[c].left = 1,
                        !.since = IF conn[c].timer = "SHORT_IDLE" THEN Least(@ + 1, LISTENER_SHORT_RELAY_IDLE_TIMEOUT_SEC) ELSE @]
<1>1. ASSUME NEW c \in Conns PROVE Same(conn[c], t(c)) /\ Same(conn[c], conn[c])
  BY <1>0, AllFormed, SameItself DEF Same, Formed, Idle, Fields
<1>2. conn' = [c \in Conns |-> IF c \notin Live THEN conn[c] ELSE t(c)]
  BY Zenon DEF Tick
<1> HIDE DEF t
<1>3. DOMAIN conn' = Conns /\ \A c \in Conns : Same(conn[c], conn'[c])
  BY <1>1, <1>2, Zenon
<1>4. QED
  BY <1>3, SameLoop, Zenon DEF Tick

\* The batch is not touched by a connection that is not live and stays so.
LEMMA BatchBeside ==
    ASSUME Batch, Live' = Live, \A c \in Live : conn'[c] = conn[c], pc' = pc, requests' = requests
    PROVE  Batch'
<1>1. Events => Events'
  BY DEF Events, Leaves, Early
<1>2. Routes => Routes'
  BY DEF Routes
<1>3. QED
  BY <1>1, <1>2, Zenon DEF Batch

\* A client joins the kernel's queue.
LEMMA ArriveInv ==
    ASSUME LoopInv, NEW c \in Conns, Arrive(c)
    PROVE  LoopInv'
<1> DEFINE j == [conn[c] EXCEPT !.place = "backlog"]
<1>0. Lives /\ Children /\ Queue /\ Batch /\ Formed(conn[c]) /\ conn[c].place = "away"
  BY AllFormed DEF LoopInv, Arrive
<1>1. /\ Formed(j) /\ j.place = "backlog"
      /\ j.closing = conn[c].closing /\ j.forked = conn[c].forked
      /\ j.state = conn[c].state /\ j.waiter = conn[c].waiter /\ j.timer = conn[c].timer
      /\ j.metrics = conn[c].metrics /\ j.route_metrics = conn[c].route_metrics
      /\ Idle(conn[c]) => Idle(j)
  BY <1>0, Zenon DEF Formed, Idle, Fields
<1>2. conn' = [conn EXCEPT ![c] = j]
  BY DEF Arrive
<1>3. Alive(conn[c]) /\ ~conn[c].closing
  BY <1>0 DEF Lives, Alive
<1>4. Alive(j)
  <2> HIDE DEF j
  <2>1. Counted(j)
    BY <1>1, <1>3 DEF Alive, Sound, Counted
  <2> QED  BY <1>0, <1>1, <1>3, <2>1, ZenonT(40) DEF Alive, Sound, Held, Calm, Waits, Early
<1> HIDE DEF j
<1>5. DOMAIN conn' = Conns /\ conn'[c] = j /\ \A d \in Conns \ {c} : conn'[d] = conn[d]
  BY <1>0, <1>2, Zenon DEF Lives
<1>6. Lives' /\ Live' = Live
  <2>1. Lives'
    BY <1>0, <1>1, <1>4, <1>5, ZenonT(40) DEF Lives
  <2>2. Live' = Live
    BY <1>0, <1>1, <1>5 DEF Live
  <2> QED  BY <2>1, <2>2
<1>7. Children'
  BY <1>0, <1>1, <1>5, Zenon DEF Children, Arrive
<1>8. Queue'
  <2>1. backlog' = Append(backlog, c) /\ backlog \in Seq(Conns)
    BY <1>0, Zenon DEF Queue, Arrive
  <2>2. \A i \in 1..Len(backlog) : backlog[i] \in Conns /\ backlog[i] # c /\ conn'[backlog[i]].place = "backlog"
    BY <1>0, <1>5, <2>1 DEF Queue
  <2>3. /\ backlog' \in Seq(Conns) /\ Len(backlog') = Len(backlog) + 1 /\ Len(backlog) \in Nat
        /\ \A i \in 1..Len(backlog) : backlog'[i] = backlog[i]
        /\ backlog'[Len(backlog) + 1] = c
    BY <2>1
  <2>4. \A i \in 1..Len(backlog') : i \in 1..Len(backlog) \/ i = Len(backlog) + 1
    BY <2>3
  <2>5. \A i \in 1..Len(backlog') : conn'[backlog'[i]].place = "backlog"
    BY <1>1, <1>5, <2>2, <2>3, <2>4, SMTT(30)
  <2>6. \A i, k \in 1..Len(backlog') : backlog'[i] = backlog'[k] => i = k
    BY <1>0, <2>2, <2>3, <2>4 DEF Queue
  <2> QED  BY <2>3, <2>5, <2>6 DEF Queue
<1>9. Batch'
  <2>1. \A d \in Live : conn'[d] = conn[d]
    BY <1>0, <1>5, Zenon DEF Live
  <2> QED  BY <1>0, <1>6, <2>1, BatchBeside, Zenon DEF Arrive, loop
<1>10. QED
  BY <1>6, <1>7, <1>8, <1>9 DEF LoopInv

\* Connections that do not change stay sound.
LEMMA LivesUnmoved ==
    ASSUME Lives, conn' = conn
    PROVE  Lives' /\ Live' = Live
BY DEF Lives, Live

\* A queue that does not change stays in order.
LEMMA QueueUnmoved ==
    ASSUME Queue, conn' = conn, backlog' = backlog
    PROVE  Queue'
BY DEF Queue

\* A worker exits.
LEMMA ExitsInv ==
    ASSUME LoopInv, NEW c \in Conns, WorkerExits(c)
    PROVE  LoopInv'
<1>0. Lives /\ Children /\ Queue /\ Batch /\ conn' = conn /\ backlog' = backlog /\ pc' = pc /\ requests' = requests
  BY DEF LoopInv, WorkerExits, loop
<1>1. Children'
  BY <1>0 DEF Children, WorkerExits
<1>2. QED
  BY <1>0, <1>1, LivesUnmoved, QueueUnmoved, BatchBeside, SMTT(30) DEF LoopInv

\* A step that leaves the connections and the queue alone.
LEMMA UnmovedInv ==
    ASSUME LoopInv, conn' = conn, backlog' = backlog, child' = child, Batch'
    PROVE  LoopInv'
BY LivesUnmoved, QueueUnmoved DEF LoopInv, Children

\* The stop signal comes, or nothing happens.
LEMMA TerminateInv ==
    ASSUME LoopInv, Terminate \/ UNCHANGED vars
    PROVE  LoopInv'
<1>1. conn' = conn /\ backlog' = backlog /\ child' = child /\ pc' = pc /\ requests' = requests
  BY DEF Terminate, vars, loop
<1>2. QED
  BY <1>1, UnmovedInv, LivesUnmoved, BatchBeside DEF LoopInv

\* From one pass of the batch to the next.
LEMMA PassInv ==
    ASSUME LoopInv, RoutesDone \/ SocketsDone
    PROVE  LoopInv'
<1>0. conn' = conn /\ backlog' = backlog /\ child' = child /\ requests' = requests
  BY DEF RoutesDone, SocketsDone
<1>1. Lives /\ Batch /\ Live' = Live
  BY <1>0, LivesUnmoved DEF LoopInv
<1>2. (Events => Events') /\ (Routes => Routes')
  BY <1>0, <1>1 DEF Events, Routes, Leaves, Early
<1>3. Batch'
  BY <1>0, <1>1, <1>2, SMTT(30) DEF Batch, Batching, RoutesDone, SocketsDone
<1>4. QED
  BY <1>0, <1>3, UnmovedInv

\* What the events of a batch are.
LEMMA ReadyEvents ==
    ASSUME NEW e \in Ready
    PROVE  /\ e.c \in Live /\ e.kind \in {"CLIENT", "UPSTREAM", "TIMEOUT"} /\ e.flags # {}
           /\ e.kind = "CLIENT" => e = Event(e.c, "CLIENT", Reported(conn[e.c], "client"))
           /\ e.kind = "UPSTREAM" => e.flags = Reported(conn[e.c], "upstream")
<1>1. \E c \in Live : \/ e = Event(c, "CLIENT", Reported(conn[c], "client"))
                      \/ e = Event(c, "UPSTREAM", Reported(conn[c], "upstream"))
                      \/ e = Event(c, "TIMEOUT", IF conn[c].fired THEN {"IN"} ELSE {})
  BY Zenon DEF Ready
<1>2. e.flags # {}
  BY Zenon DEF Ready
<1>3. PICK c \in Live : \/ e = Event(c, "CLIENT", Reported(conn[c], "client"))
                        \/ e = Event(c, "UPSTREAM", Reported(conn[c], "upstream"))
                        \/ e = Event(c, "TIMEOUT", IF conn[c].fired THEN {"IN"} ELSE {})
  BY <1>1, Zenon
<1> DEFINE seen(d) == Reported(conn[d], "client")
           heard(d) == Reported(conn[d], "upstream")
           due(d) == IF conn[d].fired THEN {"IN"} ELSE {}
           x == Event(c, "CLIENT", seen(c))
           y == Event(c, "UPSTREAM", heard(c))
           z == Event(c, "TIMEOUT", due(c))
<1>4. e = x \/ e = y \/ e = z
  BY <1>3, Zenon
<1> HIDE DEF seen, heard, due
<1>5. /\ x.c = c /\ x.kind = "CLIENT"
      /\ y.c = c /\ y.kind = "UPSTREAM" /\ y.flags = heard(c)
      /\ z.c = c /\ z.kind = "TIMEOUT"
  BY Zenon DEF Event
<1> HIDE DEF x, y, z
<1>6. e.c = c
  BY <1>4, <1>5, Zenon
<1>7. \/ e.kind = "CLIENT" /\ e = x
      \/ e.kind = "UPSTREAM" /\ e.flags = heard(c)
      \/ e.kind = "TIMEOUT"
  BY <1>4, <1>5, Zenon
<1>8. /\ e.kind \in {"CLIENT", "UPSTREAM", "TIMEOUT"}
      /\ e.kind = "CLIENT" => e = x
      /\ e.kind = "UPSTREAM" => e.flags = heard(c)
  BY <1>7, Zenon
<1>9. QED
  BY <1>2, <1>6, <1>8, Zenon DEF x, seen, heard

\* A batch begins: clients that have left are marked, and kept off the routes
\* looked at, before anything is served (the loop's first pass).
LEMMA WakeInv ==
    ASSUME LoopInv, Wake
    PROVE  LoopInv'
<1> DEFINE gone == {c \in Live : Cancelled(c, Ready)}
           routes == IF resolver_ready THEN {c \in Live \ gone : conn[c].state = "ROUTE_WAITING"} ELSE {}
           m(c) == [conn[c] EXCEPT !.closing = @ \/ c \in gone]
<1>0. Lives /\ Children /\ Queue /\ Batch /\ pc = "wait" /\ \A c \in Live : ~conn[c].closing
  BY DEF LoopInv, Wake, Batch
<1>1. /\ conn' = [c \in Conns |-> m(c)]
      /\ requests' = [ready |-> Ready, routes |-> routes, accept |-> backlog # <<>>,
                      child |-> "CHLD" \in signals, stop |-> "TERM" \in signals]
      /\ pc' = IF signals # {} \/ shutting_down THEN "signals" ELSE IF routes # {} THEN "route" ELSE "sockets"
      /\ backlog' = backlog /\ child' = child
  BY Zenon DEF Wake
<1>2. gone \subseteq Live
  OBVIOUS
<1>3. ASSUME NEW c \in Conns
      PROVE  /\ Formed(m(c)) /\ m(c).place = conn[c].place /\ m(c).forked = conn[c].forked
             /\ m(c).closing <=> (conn[c].closing \/ c \in gone)
             /\ m(c).state = conn[c].state /\ m(c).waiter = conn[c].waiter /\ m(c).timer = conn[c].timer
             /\ m(c).metrics = conn[c].metrics /\ m(c).route_metrics = conn[c].route_metrics
             /\ Idle(conn[c]) => Idle(m(c))
  <2>1. Formed(conn[c])
    BY <1>0, AllFormed
  <2> HIDE DEF gone
  <2> QED  BY <2>1, Zenon DEF Formed, Idle, Fields
<1> HIDE DEF m, gone, routes
<1>4. DOMAIN conn' = Conns /\ \A c \in Conns : conn'[c] = m(c)
  BY <1>1
<1>5. Live' = Live
  BY <1>3, <1>4 DEF Live
<1>6. Lives'
  <2>1. ASSUME NEW c \in Conns
        PROVE  IF conn'[c].place = "gone" THEN Finished(conn'[c]) ELSE Alive(conn'[c])
    <3>1. CASE conn[c].place = "gone"
      <4>1. Finished(conn[c]) /\ c \notin gone
        BY <1>0, <1>2, <3>1, Zenon DEF Lives, Live
      <4> QED  BY <1>3, <1>4, <3>1, <4>1, SMTT(30) DEF Finished
    <3>2. CASE conn[c].place # "gone"
      <4>1. Alive(conn[c]) /\ (c \in gone => conn[c].place = "live")
        BY <1>0, <1>2, <3>2, SMTT(30) DEF Lives, Live
      <4>2. Counted(m(c))
        BY <1>3, <4>1, ZenonT(40) DEF Alive, Sound, Counted
      <4>3. Alive(m(c))
        BY <1>3, <4>1, <4>2, ZenonT(40) DEF Alive, Sound, Held, Calm, Waits, Early
      <4> QED  BY <1>3, <1>4, <3>2, <4>3
    <3> QED  BY <3>1, <3>2, Zenon
  <2> QED  BY <1>4, <2>1, Zenon DEF Lives
<1>7. Children'
  BY <1>0, <1>1, <1>3, <1>4, SMTT(30) DEF Children
<1>8. Queue'
  <2>1. \A i \in 1..Len(backlog) : backlog[i] \in Conns /\ conn'[backlog[i]].place = "backlog"
    BY <1>0, <1>3, <1>4, SMTT(30) DEF Queue
  <2> QED  BY <1>0, <1>1, <2>1, ZenonT(40) DEF Queue
<1>9. /\ requests'.ready = Ready /\ requests'.routes = routes
      /\ DOMAIN requests' = {"ready", "routes", "child", "stop", "accept"}
  BY <1>1, Zenon
<1>10. \A c \in routes : c \in Live /\ c \notin gone /\ conn[c].state = "ROUTE_WAITING"
  BY Zenon DEF routes
<1>11. Routes'
  <2>1. \A c \in Live : c \in Conns
    BY Zenon DEF Live
  <2> QED  BY <1>0, <1>3, <1>4, <1>5, <1>9, <1>10, <2>1, SMTT(30) DEF Routes
<1>12. Events'
  <2>1. ASSUME NEW e \in Ready
        PROVE  /\ e.c \in Live /\ e.kind \in {"CLIENT", "UPSTREAM", "TIMEOUT"}
               /\ e.kind = "UPSTREAM" => ~Early(conn'[e.c])
               /\ Leaves(e) => /\ e.c \notin routes
                               /\ conn'[e.c].state = "ROUTE_WAITING" => conn'[e.c].closing /\ ~conn'[e.c].forked
               /\ \A f \in Ready : e.kind = "CLIENT" /\ f.kind = "CLIENT" /\ e.c = f.c => e = f
    <3>1. e.c \in Live /\ e.c \in Conns /\ e.kind \in {"CLIENT", "UPSTREAM", "TIMEOUT"} /\ Alive(conn[e.c])
      <4>1. e.c \in Live /\ e.kind \in {"CLIENT", "UPSTREAM", "TIMEOUT"}
        BY ReadyEvents, Zenon
      <4> QED  BY <1>0, <4>1, LivesAlive, Zenon
    <3>2. e.kind = "UPSTREAM" => ~Early(conn'[e.c])
      <4>1. e.kind = "UPSTREAM" => conn[e.c].sock["upstream"].flags # {}
        BY ReadyEvents, Zenon DEF Reported
      <4>2. Early(conn[e.c]) => conn[e.c].sock["upstream"].flags = {}
        BY <3>1, Zenon DEF Alive, Sound, Calm, Idle
      <4>3. Early(conn'[e.c]) => Early(conn[e.c])
        BY <1>3, <1>4, <3>1, Zenon DEF Early
      <4> QED  BY <4>1, <4>2, <4>3, Zenon
    <3>3. Leaves(e) /\ conn[e.c].state = "ROUTE_WAITING" => e.c \in gone
      BY <3>1, Zenon DEF Leaves, gone, Cancelled, listener_connection_route_cancelled
    <3>4. ~conn[e.c].forked
      BY <1>0, <3>1 DEF Alive
    <3>5. \A f \in Ready : e.kind = "CLIENT" /\ f.kind = "CLIENT" /\ e.c = f.c => e = f
      BY ReadyEvents, Zenon
    <3> QED  BY <1>3, <1>4, <1>10, <3>1, <3>2, <3>3, <3>4, <3>5, SMTT(30)
  <2> QED  BY <1>5, <1>9, <2>1, ZenonT(40) DEF Events, Leaves, Early
<1>13. Batch'
  BY <1>1, <1>9, <1>11, <1>12, SMTT(30) DEF Batch, Batching
<1>14. QED
  BY <1>6, <1>7, <1>8, <1>13, SMTT(30) DEF LoopInv

\* Every live connection is destroyed, each as it is or as the handler that
\* failed left it.
LEMMA AllDestroyed ==
    ASSUME Lives, Queue, NEW g, DOMAIN g = Conns, \A c \in Live : Formed(g[c]) /\ Counted(g[c]),
           conn' = [c \in Conns |-> IF c \in Live THEN listener_connection_destroy(g[c]) ELSE conn[c]],
           backlog' = backlog
    PROVE  /\ Lives' /\ Queue' /\ Live' = {}
           /\ \A c \in Conns : conn'[c].place # "gone" => conn'[c] = conn[c]
<1>1. \A c \in Conns : c \in Live => Finished(conn'[c]) /\ conn'[c].place = "gone"
  BY DestroyFinishes, Zenon DEF Finished
<1>2. \A c \in Conns : c \notin Live => conn'[c] = conn[c] /\ conn[c].place # "live"
  BY DEF Live
<1>3. DOMAIN conn' = Conns
  BY Zenon
<1>4. Lives'
  BY <1>1, <1>2, <1>3, Zenon DEF Lives
<1>5. Live' = {}
  BY <1>1, <1>2, Zenon DEF Live
<1>6. Queue'
  <2>1. \A i \in 1..Len(backlog) : backlog[i] \in Conns /\ backlog[i] \notin Live
    BY SMTT(30) DEF Queue, Live
  <2> QED  BY <1>2, <2>1, Zenon DEF Queue
<1>7. QED
  BY <1>1, <1>2, <1>4, <1>5, <1>6, ZenonT(40)

\* The counters of every live connection agree with its flags.
LEMMA LiveCounted ==
    ASSUME Lives
    PROVE  DOMAIN conn = Conns /\ \A c \in Live : Formed(conn[c]) /\ Counted(conn[c])
BY LivesAlive, ZenonT(40) DEF Lives, Alive, Sound

\* Dead workers are waited for, and a stop destroys every connection.
LEMMA SignalsInv ==
    ASSUME LoopInv, Signals
    PROVE  LoopInv'
<1>0. Lives /\ Children /\ Queue /\ Batch /\ backlog' = backlog /\ pc = "signals"
  BY Zenon DEF LoopInv, Signals
<1>1. DOMAIN child' = Conns /\ \A c \in Conns : child[c] = "none" => child'[c] = "none"
  BY DEF Signals
<1>2. ASSUME requests.stop \/ shutting_down, DestroyAll, requests' = NoRequests, pc' \in {"wait", "exited"}
      PROVE  LoopInv'
  <2>1. /\ Lives' /\ Queue' /\ Live' = {}
        /\ \A c \in Conns : conn'[c].place # "gone" => conn'[c] = conn[c]
    BY <1>0, <1>2, LiveCounted, AllDestroyed, ZenonT(40) DEF DestroyAll
  <2>2. Children'
    BY <1>0, <1>1, <2>1, ZenonT(40) DEF Children
  <2>3. Batch'
    BY <1>2, <2>1, Zenon DEF Batch, Batching, NoRequests
  <2> QED  BY <2>1, <2>2, <2>3, ZenonT(40) DEF LoopInv
<1>3. ASSUME pc' = IF requests.routes # {} THEN "route" ELSE "sockets", UNCHANGED <<requests, conn>>
      PROVE  LoopInv'
  <2>1. Lives' /\ Live' = Live /\ Queue'
    BY <1>0, <1>3, LivesUnmoved, QueueUnmoved, ZenonT(40)
  <2>2. Children'
    BY <1>0, <1>1, <1>3, Zenon DEF Children
  <2>3. (Events => Events') /\ (Routes => Routes')
    BY <1>3, <2>1, Zenon DEF Events, Routes, Leaves, Early
  <2>4. Batch'
    BY <1>0, <1>3, <2>3, Zenon DEF Batch, Batching
  <2> QED  BY <2>1, <2>2, <2>4 DEF LoopInv
<1>4. QED
  BY <1>2, <1>3, Zenon DEF Signals

\* The marked connections are destroyed at the end of the batch
\* (listener_connections_destroy_closed).
LEMMA DestroyClosedInv ==
    ASSUME LoopInv, DestroyClosed
    PROVE  LoopInv'
<1> DEFINE closed == {c \in Live : conn[c].closing}
           m(c) == [conn[c] EXCEPT !.rearmed = FALSE]
<1>0. Lives /\ Children /\ Queue /\ Batch /\ backlog' = backlog /\ child' = child /\ requests' = NoRequests
  BY Zenon DEF LoopInv, DestroyClosed
<1>1. ASSUME conn' = [c \in Conns |-> IF c \in closed THEN listener_connection_destroy(conn[c]) ELSE m(c)],
             pc' = IF requests.accept THEN "accept" ELSE "wait"
      PROVE  LoopInv'
  <2>1. ASSUME NEW c \in Conns PROVE Same(conn[c], m(c))
    BY <1>0, AllFormed, Zenon DEF Same, Formed, Idle, Fields
  <2> HIDE DEF m
  <2>2. \A c \in closed : c \in Conns /\ conn[c].place = "live" /\ Finished(conn'[c]) /\ conn'[c].place = "gone"
    <3>1. \A c \in closed : c \in Live /\ c \in Conns /\ conn[c].place = "live"
      BY Zenon DEF Live
    <3>2. \A c \in closed : Finished(listener_connection_destroy(conn[c]))
      BY <1>0, <3>1, LiveCounted, DestroyFinishes, ZenonT(40)
    <3> QED  BY <1>1, <3>1, <3>2, ZenonT(40) DEF Finished
  <2>3. \A c \in Conns : c \notin closed => conn'[c] = m(c) /\ Same(conn[c], conn'[c])
    BY <1>1, <2>1, Zenon
  <2>4. \A c \in Conns : c \in Live /\ c \notin closed => ~conn[c].closing
    OBVIOUS
  <2> HIDE DEF closed
  <2>5. DOMAIN conn' = Conns
    BY <1>1, Zenon
  <2>6. Lives'
    <3>1. ASSUME NEW c \in Conns
          PROVE  IF conn'[c].place = "gone" THEN Finished(conn'[c]) ELSE Alive(conn'[c])
      <4>1. CASE c \in closed
        BY <2>2, <4>1, ZenonT(40)
      <4>2. CASE c \notin closed
        <5>1. Same(conn[c], conn'[c]) /\ conn'[c].place = conn[c].place
          BY <2>3, <4>2, ZenonT(40) DEF Same
        <5> QED  BY <1>0, <5>1, SameAlive, SameFinished, ZenonT(40) DEF Lives
      <4> QED  BY <4>1, <4>2
    <3> QED  BY <2>5, <3>1 DEF Lives
  <2>7. Children'
    BY <1>0, <2>2, <2>3, ZenonT(40) DEF Children, Same
  <2>8. Queue'
    <3>1. \A i \in 1..Len(backlog) : backlog[i] \in Conns /\ conn[backlog[i]].place = "backlog"
      BY <1>0, SMTT(30) DEF Queue
    <3>2. \A i \in 1..Len(backlog) : conn'[backlog[i]].place = "backlog"
      BY <2>2, <2>3, <3>1, ZenonT(40) DEF Same
    <3> QED  BY <1>0, <3>1, <3>2, ZenonT(40) DEF Queue
  <2>9. \A c \in Live' : ~conn'[c].closing
    <3> SUFFICES ASSUME NEW c \in Conns, conn'[c].place = "live" PROVE ~conn'[c].closing
      BY DEF Live
    <3>1. c \notin closed
      BY <2>2, SMTT(30)
    <3> QED  BY <2>3, <2>4, <3>1, SMTT(30) DEF Same, Live
  <2>10. Batch'
    BY <1>0, <1>1, <2>9, ZenonT(40) DEF Batch, Batching, NoRequests
  <2> QED  BY <2>6, <2>7, <2>8, <2>10 DEF LoopInv
<1>2. ASSUME DestroyAll, pc' = "exited"
      PROVE  LoopInv'
  <2>1. /\ Lives' /\ Queue' /\ Live' = {}
        /\ \A c \in Conns : conn'[c].place # "gone" => conn'[c] = conn[c]
    BY <1>0, <1>2, LiveCounted, AllDestroyed, ZenonT(40) DEF DestroyAll
  <2>2. Children'
    BY <1>0, <2>1, ZenonT(40) DEF Children
  <2>3. Batch'
    BY <1>0, <1>2, <2>1, SMTT(30) DEF Batch, Batching, NoRequests
  <2> QED  BY <2>1, <2>2, <2>3 DEF LoopInv
<1>3. QED
  BY <1>1, <1>2, Zenon DEF DestroyClosed

\* A handler's outcome is taken over, or ends the listener with every
\* connection destroyed.
LEMMA CommitInv ==
    ASSUME Lives, Children, Queue, NEW c \in Live, ~conn[c].closing,
           NEW k, Left(conn[c], k), Commit(c, k), backlog' = backlog
    PROVE  /\ Lives' /\ Children' /\ Queue'
           /\ \/ pc' = "exited" /\ Live' = {}
              \/ /\ pc' = pc /\ Live' = Live
                 /\ \A d \in Conns \ {c} : conn'[d] = conn[d]
                 /\ Early(conn'[c]) => Early(conn[c])
<1>0. c \in Conns /\ conn[c].place = "live" /\ Formed(k) /\ Counted(k) /\ DOMAIN conn = Conns /\ DOMAIN child = Conns
  BY LivesAlive, ZenonT(40) DEF Left, Sound, Lives, Children
<1>1. CASE k.progress = "FATAL"
  <2> DEFINE g == [d \in Conns |-> IF d = c THEN k ELSE conn[d]]
  <2>1. /\ conn' = [d \in Conns |-> IF d \in Live THEN listener_connection_destroy(IF d = c THEN k ELSE conn[d]) ELSE conn[d]]
        /\ pc' = "exited" /\ child' = child
    BY <1>1, ZenonT(40) DEF Commit
  <2>2. DOMAIN g = Conns /\ \A d \in Live : d \in Conns /\ g[d] = (IF d = c THEN k ELSE conn[d])
    BY ZenonT(40) DEF Live
  <2> HIDE DEF g
  <2>3. \A d \in Live : Formed(g[d]) /\ Counted(g[d])
    BY <1>0, <2>2, LiveCounted, SMTT(30)
  <2>4. conn' = [d \in Conns |-> IF d \in Live THEN listener_connection_destroy(g[d]) ELSE conn[d]]
    BY <2>1, <2>2, SMTT(30)
  <2>5. /\ Lives' /\ Queue' /\ Live' = {}
        /\ \A d \in Conns : conn'[d].place # "gone" => conn'[d] = conn[d]
    BY <2>2, <2>3, <2>4, AllDestroyed, ZenonT(40)
  <2>6. Children'
    BY <2>1, <2>5 DEF Children
  <2> QED  BY <2>1, <2>5, <2>6, ZenonT(40)
<1>2. CASE k.progress # "FATAL"
  <2> DEFINE j == [k EXCEPT !.closing = @ \/ k.progress \in {"ABORT", "CLOSED"}, !.progress = "none"]
  <2>1. /\ conn' = [conn EXCEPT ![c] = j] /\ pc' = pc
        /\ child' = IF k.forked THEN [child EXCEPT ![c] = "running"] ELSE child
    BY <1>2, Zenon DEF Commit
  <2>2. /\ Formed(j) /\ j.place = k.place /\ j.forked = k.forked
        /\ j.closing <=> (k.closing \/ k.progress \in {"ABORT", "CLOSED"})
        /\ j.state = k.state /\ j.waiter = k.waiter /\ j.timer = k.timer
        /\ j.metrics = k.metrics /\ j.route_metrics = k.route_metrics
        /\ Idle(k) => Idle(j)
    BY <1>0, ZenonT(40) DEF Formed, Idle, Fields
  <2> HIDE DEF j
  <2>3. DOMAIN conn' = Conns /\ conn'[c] = j /\ \A d \in Conns \ {c} : conn'[d] = conn[d]
    BY <1>0, <2>1, SMTT(30)
  <2>4. Alive(j) /\ j.place = "live" /\ (Early(j) => Early(conn[c]))
    <3>1. Counted(j)
      BY <1>0, <2>2, ZenonT(40) DEF Counted
    <3>2. j.state = "ROUTE_WAITING" /\ ~j.closing => Waits(j)
      BY <1>2, <2>2, ZenonT(40) DEF Left, Waits, Ending
    <3>3. Sound(j)
      BY <2>2, <3>1, ZenonT(40) DEF Left, Sound, Held, Calm, Waits, Early
    <3> QED  BY <1>0, <2>2, <3>2, <3>3, ZenonT(40) DEF Alive, Left, Early
  <2>5. Lives'
    BY <2>3, <2>4, ZenonT(40) DEF Lives
  <2>6. Live' = Live
    BY <1>0, <2>3, <2>4, ZenonT(40) DEF Live
  <2>7. Children'
    <3>1. DOMAIN child' = Conns /\ \A d \in Conns \ {c} : child'[d] = child[d]
      BY <1>0, <2>1, ZenonT(40)
    <3>2. ~j.forked => child'[c] = "none"
      <4>1. ~conn[c].forked
        BY LivesAlive, ZenonT(40) DEF Alive
      <4> QED  BY <1>0, <2>1, <2>2, <4>1, SMTT(30) DEF Children
    <3> QED  BY <2>3, <3>1, <3>2, ZenonT(40) DEF Children
  <2>8. Queue'
    <3>1. \A i \in 1..Len(backlog) : backlog[i] \in Conns /\ backlog[i] # c
      BY <1>0 DEF Queue
    <3> QED  BY <2>3, <3>1, ZenonT(40) DEF Queue
  <2> QED  BY <2>1, <2>3, <2>4, <2>5, <2>6, <2>7, <2>8, SMTT(30)
<1>3. QED
  BY <1>1, <1>2, ZenonT(40)

\* The batch after one of its connections was served: what is left of it does
\* not ask for a client that has left to be served.
LEMMA ServedBatch ==
    ASSUME Batch, pc \in Batching, NEW c \in Live, NEW ready, NEW routes,
           DOMAIN requests' = DOMAIN requests, requests'.ready = ready, requests'.routes = routes,
           ready \subseteq requests.ready, routes \subseteq requests.routes, c \notin routes,
           pc' = pc, Live' = Live, \A d \in Conns \ {c} : conn'[d] = conn[d],
           Early(conn'[c]) => Early(conn[c]),
           \A e \in ready : e.c = c /\ Leaves(e) => ~Early(conn[c])
    PROVE  Batch'
<1>1. Events /\ Routes
  BY Zenon DEF Batch
<1>2. \A d \in Live : d \in Conns
  BY Zenon DEF Live
<1>3. Routes'
  BY <1>1, <1>2, Zenon DEF Routes
<1>4. Events'
  <2>1. ASSUME NEW e \in ready
        PROVE  /\ e.c \in Live /\ e.kind \in {"CLIENT", "UPSTREAM", "TIMEOUT"}
               /\ e.kind = "UPSTREAM" => ~Early(conn'[e.c])
               /\ Leaves(e) => /\ e.c \notin routes
                               /\ conn'[e.c].state = "ROUTE_WAITING" => conn'[e.c].closing /\ ~conn'[e.c].forked
               /\ \A f \in ready : e.kind = "CLIENT" /\ f.kind = "CLIENT" /\ e.c = f.c => e = f
    <3>1. /\ e \in requests.ready /\ e.c \in Live /\ e.c \in Conns
          /\ e.kind \in {"CLIENT", "UPSTREAM", "TIMEOUT"}
          /\ e.kind = "UPSTREAM" => ~Early(conn[e.c])
          /\ Leaves(e) => /\ e.c \notin requests.routes
                          /\ conn[e.c].state = "ROUTE_WAITING" => conn[e.c].closing /\ ~conn[e.c].forked
          /\ \A f \in requests.ready : e.kind = "CLIENT" /\ f.kind = "CLIENT" /\ e.c = f.c => e = f
      BY <1>1, <1>2, ZenonT(40) DEF Events
    <3>2. CASE e.c = c
      <4>1. Leaves(e) => conn'[c].state # "ROUTE_WAITING"
        BY <3>2, Zenon DEF Early
      <4> QED  BY <3>1, <3>2, <4>1, ZenonT(40)
    <3>3. CASE e.c # c
      <4>1. conn'[e.c] = conn[e.c]
        BY <3>1, <3>3, ZenonT(40)
      <4> QED  BY <3>1, <4>1, ZenonT(40)
    <3> QED  BY <3>2, <3>3, ZenonT(40)
  <2> QED  BY <2>1, ZenonT(40) DEF Events, Leaves, Early
<1>5. QED
  BY <1>3, <1>4, Zenon DEF Batch, Batching

\* A listener that has exited serves no batch.
LEMMA ExitedBatch ==
    ASSUME Batch, pc' = "exited", Live' = {}, DOMAIN requests' = DOMAIN requests
    PROVE  Batch'
BY Zenon DEF Batch, Batching

\* A waiter is asked for its verdict (listener_connections_route_progress).
LEMMA RouteProgressInv ==
    ASSUME LoopInv, RouteProgress
    PROVE  LoopInv'
<1>0. Lives /\ Children /\ Queue /\ Batch /\ pc = "route" /\ backlog' = backlog
  BY DEF LoopInv, RouteProgress
<1>1. PICK c \in requests.routes :
          /\ requests' = [requests EXCEPT !.routes = @ \ {c}]
          /\ \E i \in LET j == listener_connection_route_progress(conn[c], lag)
                      IN  IF j.progress = "READY" THEN listener_connection_ready(j, who[c], lag, Len(pids)) ELSE {j} :
                Commit(c, i)
  BY Zenon DEF RouteProgress
<1>2. PICK i \in LET j == listener_connection_route_progress(conn[c], lag)
                 IN  IF j.progress = "READY" THEN listener_connection_ready(j, who[c], lag, Len(pids)) ELSE {j} :
             Commit(c, i)
  BY <1>1, Zenon
<1>3. Events /\ Routes
  BY <1>0, Zenon DEF Batch, Batching
<1>4. c \in Live /\ ~conn[c].closing /\ conn[c].state = "ROUTE_WAITING" /\ Alive(conn[c])
  BY <1>0, <1>3, LivesAlive, ZenonT(40) DEF Routes
<1>5. Sound(conn[c]) /\ Waits(conn[c]) /\ ~conn[c].forked
  BY <1>4, ZenonT(40) DEF Alive
<1>6. Left(conn[c], i)
  <2> DEFINE k == conn[c]
             w == who[c]
  <2>1. /\ Sound(k) /\ k.state = "ROUTE_WAITING" /\ Waits(k) /\ ~k.forked
        /\ i \in LET j == listener_connection_route_progress(k, lag)
                 IN  IF j.progress = "READY" THEN listener_connection_ready(j, w, lag, Len(pids)) ELSE {j}
    BY <1>2, <1>4, <1>5, ZenonT(40)
  <2> HIDE DEF k, w
  <2>2. Left(k, i)
    BY <2>1, VerdictLeft, ZenonT(40)
  <2> QED  BY <2>2, Zenon DEF k
<1>7. /\ Lives' /\ Children' /\ Queue'
      /\ \/ pc' = "exited" /\ Live' = {}
         \/ /\ pc' = pc /\ Live' = Live
            /\ \A d \in Conns \ {c} : conn'[d] = conn[d]
            /\ Early(conn'[c]) => Early(conn[c])
  BY <1>0, <1>2, <1>4, <1>6, CommitInv, ZenonT(40)
<1>8. /\ DOMAIN requests' = DOMAIN requests /\ requests'.ready = requests.ready
      /\ requests'.routes = requests.routes \ {c}
  BY <1>0, <1>1 DEF Batch
<1>9. \A e \in requests.ready : e.c = c /\ Leaves(e) => ~Early(conn[c])
  BY <1>1, <1>3, ZenonT(40) DEF Events
<1>10. Batch'
  <2>1. CASE pc' = "exited" /\ Live' = {}
    BY <1>0, <1>8, <2>1, ExitedBatch, ZenonT(40)
  <2>2. CASE /\ pc' = pc /\ Live' = Live
             /\ \A d \in Conns \ {c} : conn'[d] = conn[d]
             /\ Early(conn'[c]) => Early(conn[c])
    <3> DEFINE ready == requests.ready
               routes == requests.routes \ {c}
    <3>1. ready \subseteq requests.ready /\ routes \subseteq requests.routes /\ c \notin routes
          /\ requests'.ready = ready /\ requests'.routes = routes /\ pc \in Batching
          /\ \A e \in ready : e.c = c /\ Leaves(e) => ~Early(conn[c])
      BY <1>0, <1>8, <1>9, ZenonT(40) DEF Batching
    <3> HIDE DEF ready, routes
    <3> QED  BY <1>0, <1>4, <1>8, <2>2, <3>1, ServedBatch, ZenonT(40)
  <2> QED  BY <1>7, <2>1, <2>2, ZenonT(40)
<1>11. QED
  BY <1>7, <1>10, Zenon DEF LoopInv

\* An event of the batch is served, or skipped since its connection is
\* closing.
LEMMA ServeInv ==
    ASSUME LoopInv, pc \in {"sockets", "timers"}, NEW e \in requests.ready, ServeEvent(e),
           pc = "sockets" => e.kind # "TIMEOUT"
    PROVE  LoopInv'
<1>0. Lives /\ Children /\ Queue /\ Batch /\ backlog' = backlog /\ Events /\ Routes /\ requests.routes = {}
  BY Zenon DEF LoopInv, ServeEvent, Batch, Batching
<1>1. e.c \in Live /\ Alive(conn[e.c])
  BY <1>0, LivesAlive, ZenonT(40) DEF Events
<1>2. /\ DOMAIN requests' = DOMAIN requests /\ requests'.ready = requests.ready \ {e}
      /\ requests'.routes = {}
  BY <1>0, Zenon DEF Batch, ServeEvent
<1> DEFINE c == e.c
           ready == requests.ready \ {e}
           routes == {}
<1>3. /\ ready \subseteq requests.ready /\ routes \subseteq requests.routes /\ c \notin routes
      /\ requests'.ready = ready /\ requests'.routes = routes /\ pc \in Batching
  BY <1>0, <1>2, ZenonT(40) DEF Batching
<1>4. \A f \in ready : f.c = c /\ Leaves(f) => ~Early(conn[c])
  <2> SUFFICES ASSUME NEW f \in requests.ready, f # e, f.c = e.c, f.kind = "CLIENT" PROVE ~Early(conn[e.c])
    BY SMTT(30) DEF Leaves
  <2>1. pc = "sockets"
    BY <1>0, ZenonT(40) DEF Batch
  <2>2. e.kind # "CLIENT"
    BY <1>0, ZenonT(40) DEF Events
  <2> QED  BY <1>0, <2>1, <2>2, ZenonT(40) DEF Events
<1>5. CASE conn[c].closing
  <2>1. UNCHANGED <<pc, conn, pids, child>>
    BY <1>5, Zenon DEF ServeEvent
  <2>2. Live' = Live
    BY <2>1, ZenonT(40) DEF Live
  <2>3. Batch'
    <3>1. Routes' /\ Events'
      BY <1>0, <1>2, <2>1, <2>2, ZenonT(40) DEF Events, Routes, Leaves, Early
    <3> QED  BY <1>0, <1>2, <2>1, <3>1, ZenonT(40) DEF Batch, Batching
  <2> QED  BY <1>0, <2>1, <2>3, UnmovedInv, ZenonT(40) DEF LoopInv
<1>6. CASE ~conn[c].closing
  <2>1. PICK j \in Routing(Handled(conn[c], who[c], e), who[c]) :
            \E i \in Decided(Uncancelled(j, e), who[c]) : Commit(c, i)
    BY <1>6, ZenonT(40) DEF ServeEvent
  <2>2. PICK i \in Decided(Uncancelled(j, e), who[c]) : Commit(c, i)
    BY <2>1
  <2>3. Sound(conn[c]) /\ (conn[c].state = "ROUTE_WAITING" => Waits(conn[c])) /\ ~conn[c].forked
    BY <1>1, <1>6, ZenonT(40) DEF Alive
  <2>4. Left(conn[c], i)
    <3> DEFINE k == conn[c]
               w == who[c]
    <3>1. /\ Sound(k) /\ (k.state = "ROUTE_WAITING" => Waits(k)) /\ ~k.forked
          /\ j \in Routing(Handled(k, w, e), w) /\ i \in Decided(Uncancelled(j, e), w)
      BY <2>1, <2>2, <2>3, ZenonT(40)
    <3> HIDE DEF k, w
    <3>2. Left(k, i)
      BY <3>1, EventLeft, ZenonT(40)
    <3> QED  BY <3>2 DEF k
  <2> HIDE DEF c, ready, routes
  <2>5. c \in Live
    BY <1>1, ZenonT(40) DEF c
  <2>6. /\ Lives' /\ Children' /\ Queue'
        /\ \/ pc' = "exited" /\ Live' = {}
           \/ /\ pc' = pc /\ Live' = Live
              /\ \A d \in Conns \ {c} : conn'[d] = conn[d]
              /\ Early(conn'[c]) => Early(conn[c])
    BY <1>0, <1>6, <2>2, <2>4, <2>5, CommitInv, ZenonT(40)
  <2>7. Batch'
    <3>1. CASE pc' = "exited" /\ Live' = {}
      BY <1>0, <1>2, <3>1, ExitedBatch, ZenonT(40)
    <3>2. CASE /\ pc' = pc /\ Live' = Live
               /\ \A d \in Conns \ {c} : conn'[d] = conn[d]
               /\ Early(conn'[c]) => Early(conn[c])
      BY <1>0, <1>2, <1>3, <1>4, <2>5, <3>2, ServedBatch, ZenonT(40)
    <3> QED  BY <2>6, <3>1, <3>2, ZenonT(40)
  <2> QED  BY <2>6, <2>7 DEF LoopInv
<1>7. QED
  BY <1>5, <1>6

----------------------------------------------------------------------------
(* New connections.                                                        *)

\* A client taken from the kernel's queue starts with its first packet to come.
LEMMA CreateAlive ==
    ASSUME NEW k, Alive(k), k.place = "backlog"
    PROVE  LET j == listener_connection_create(k)
           IN  Alive(j) /\ j.place = "live" /\ ~j.closing /\ ~j.forked
<1> DEFINE b == [k EXCEPT !.life = LISTENER_SHORT_LIFETIME_TIMEOUT_SEC]
           t == listener_connection_timer_arm(b, "ASSEMBLY")
           j == [t EXCEPT !.place = "live", !.rearmed = FALSE, !.sock["client"].flags = {"IN", "RDHUP"}]
<1>1. Formed(k) /\ k.state = "INITIAL" /\ ~k.closing /\ ~k.forked /\ Idle(k) /\ ~k.route_metrics.pending /\ Counted(k)
  BY DEF Alive, Sound, Held, Calm, Early
<1>2. Still(k, b) /\ Formed(b)
  BY <1>1 DEF Still, Carried, Kept, Formed, Idle, Fields
<1> HIDE DEF b
<1>3. Still(b, t)
  BY <1>2, TimerArm, ZenonT(40)
<1>4. Still(k, t) /\ Formed(t)
  BY <1>2, <1>3, StillOn, ZenonT(40) DEF Still, Carried, Kept
<1> HIDE DEF t
<1>5. Formed(j) /\ Idle(j)
  BY <1>1, <1>4 DEF Still, Formed, Idle, Fields, End
<1>6. /\ j.place = "live" /\ j.closing = k.closing /\ j.forked = k.forked /\ j.state = k.state
      /\ j.metrics = k.metrics /\ j.route_metrics = k.route_metrics
  BY <1>4 DEF Still, Carried, Kept, Formed, Fields
<1>7. j = listener_connection_create(k)
  BY ZenonT(40) DEF listener_connection_create, j, t, b
<1> HIDE DEF j
<1>8. Counted(j)
  BY <1>1, <1>6, ZenonT(40) DEF Counted
<1>9. QED
  BY <1>1, <1>5, <1>6, <1>7, <1>8, ZenonT(40) DEF Alive, Sound, Held, Calm

\* A client the accept loop has not reached is still in the queue: the loop
\* stops at the end of it (the accept loop of listener_run).
LEMMA WithinQueue ==
    ASSUME NEW L \in Nat, NEW B \in Nat, NEW n \in 0..Least(L, B)
    PROVE  n \in Nat /\ n <= L /\ (n # Least(L, B) => n + 1 <= L)
BY DEF Least

\* What the accept loop does: the first of the queue are taken in or turned
\* away.
LEMMA AcceptTakes ==
    ASSUME Queue, Accept
    PROVE  \E m \in 0..Len(backlog) :
               /\ backlog' = SubSeq(backlog, m + 1, Len(backlog)) /\ DOMAIN conn' = Conns
               /\ \A c \in Conns : \/ conn'[c] = conn[c]
                                   \/ /\ \E i \in 1..m : c = backlog[i]
                                      /\ conn'[c] \in {listener_connection_create(conn[c]), Gone(conn[c])}
<1>1. PICK n \in 0..Least(Len(backlog), LISTENER_ACCEPT_BATCH) :
          LET served == {backlog[i] : i \in 1..n}
              admitted == {i \in 1..n : ~Full(connection_count + i - 1)}
              taken == {backlog[i] : i \in admitted}
              room == connection_count + Cardinality(admitted)
              over == n = Least(Len(backlog), LISTENER_ACCEPT_BATCH)
          IN  \E lost \in {{}} \cup (IF over \/ Full(room) \/ "track" \notin Faults THEN {} ELSE {{backlog[n + 1]}}) :
                  /\ conn' = [c \in Conns |-> IF c \in taken THEN listener_connection_create(conn[c])
                                              ELSE IF c \in served \cup lost THEN Gone(conn[c])
                                              ELSE conn[c]]
                  /\ backlog' = From(backlog, n + Cardinality(lost) + 1)
  BY Zenon DEF Accept
<1> DEFINE served == {backlog[i] : i \in 1..n}
           admitted == {i \in 1..n : ~Full(connection_count + i - 1)}
           taken == {backlog[i] : i \in admitted}
           room == connection_count + Cardinality(admitted)
           over == n = Least(Len(backlog), LISTENER_ACCEPT_BATCH)
<1>2. PICK lost \in {{}} \cup (IF over \/ Full(room) \/ "track" \notin Faults THEN {} ELSE {{backlog[n + 1]}}) :
          /\ conn' = [c \in Conns |-> IF c \in taken THEN listener_connection_create(conn[c])
                                      ELSE IF c \in served \cup lost THEN Gone(conn[c])
                                      ELSE conn[c]]
          /\ backlog' = From(backlog, n + Cardinality(lost) + 1)
  BY <1>1, ZenonT(40)
<1>3. Len(backlog) \in Nat /\ n \in Nat /\ n <= Len(backlog) /\ (~over => n + 1 <= Len(backlog))
  <2>1. Len(backlog) \in Nat /\ LISTENER_ACCEPT_BATCH \in Nat
    BY AcceptBatch DEF Queue
  <2> QED  BY <2>1, WithinQueue, Zenon
<1>4. lost = {} \/ (~over /\ lost = {backlog[n + 1]})
  BY <1>2, Zenon
<1>5. \A c \in Conns : c \in taken \/ c \in served => \E i \in 1..n : c = backlog[i]
  BY Zenon
<1> HIDE DEF taken, served, over, room, admitted
<1>6. /\ DOMAIN conn' = Conns
      /\ \A c \in Conns : \/ conn'[c] = conn[c]
                          \/ /\ c \in taken \/ c \in served \/ c \in lost
                             /\ conn'[c] \in {listener_connection_create(conn[c]), Gone(conn[c])}
  BY <1>2, Zenon
<1>7. CASE lost = {}
  <2>1. Cardinality(lost) = 0
    BY <1>7, FS_EmptySet, Zenon
  <2>2. backlog' = SubSeq(backlog, n + 1, Len(backlog))
    BY <1>2, <1>3, <2>1, SMTT(30) DEF From
  <2> QED  BY <1>3, <1>5, <1>6, <1>7, <2>2, SMTT(30)
<1>8. CASE ~over /\ lost = {backlog[n + 1]}
  <2>1. Cardinality(lost) = 1
    BY <1>8, FS_Singleton, ZenonT(40)
  <2> DEFINE m == n + 1
  <2>2. backlog' = SubSeq(backlog, m + 1, Len(backlog)) /\ m \in 0..Len(backlog)
    <3>1. m \in 0..Len(backlog) /\ n + Cardinality(lost) + 1 = m + 1
      BY <1>3, <1>8, <2>1, SMTT(30)
    <3> QED  BY <1>2, <3>1, Zenon DEF From
  <2>3. \A c \in Conns : c \in taken \/ c \in served \/ c \in lost => \E i \in 1..m : c = backlog[i]
    BY <1>3, <1>5, <1>8, SMTT(30)
  <2> HIDE DEF m
  <2> QED  BY <1>6, <2>2, <2>3, Zenon
<1>9. QED
  BY <1>4, <1>7, <1>8, Zenon

\* The accept loop keeps the invariant.
LEMMA AcceptInv ==
    ASSUME LoopInv, Accept
    PROVE  LoopInv'
<1>0. Lives /\ Children /\ Queue /\ Batch /\ pc = "accept" /\ pc' = "wait" /\ requests' = requests /\ child' = child
  BY Zenon DEF LoopInv, Accept
<1>1. PICK m \in 0..Len(backlog) :
          /\ backlog' = SubSeq(backlog, m + 1, Len(backlog)) /\ DOMAIN conn' = Conns
          /\ \A c \in Conns : \/ conn'[c] = conn[c]
                              \/ /\ \E i \in 1..m : c = backlog[i]
                                 /\ conn'[c] \in {listener_connection_create(conn[c]), Gone(conn[c])}
  BY <1>0, AcceptTakes, Zenon
<1>2. backlog \in Seq(Conns) /\ Len(backlog) \in Nat /\ m \in Nat /\ m <= Len(backlog)
  BY <1>0, SMTT(30) DEF Queue
<1>3. ASSUME NEW c \in Conns
      PROVE  \/ conn'[c] = conn[c]
             \/ /\ conn[c].place = "backlog" /\ Alive(conn[c])
                /\ \/ Finished(conn'[c])
                   \/ Alive(conn'[c]) /\ conn'[c].place = "live" /\ ~conn'[c].closing /\ ~conn'[c].forked
  <2>1. CASE conn'[c] # conn[c]
    <3>1. PICK i \in 1..m : c = backlog[i]
      BY <1>1, <2>1, Zenon
    <3>2. conn[c].place = "backlog"
      BY <1>0, <1>2, <3>1, SMTT(30) DEF Queue
    <3>3. Alive(conn[c])
      BY <1>0, <3>2, Zenon DEF Lives
    <3>4. conn'[c] \in {listener_connection_create(conn[c]), Gone(conn[c])}
      BY <1>1, <2>1, Zenon
    <3> QED  BY <3>2, <3>3, <3>4, CreateAlive, GoneIsFinished, Zenon
  <2> QED  BY <2>1, Zenon
<1>4. Lives'
  BY <1>0, <1>1, <1>3, ZenonT(40) DEF Lives, Finished
<1>5. Children'
  BY <1>0, <1>3, ZenonT(40) DEF Children, Alive, Finished
<1>6. Queue'
  <2>1. /\ backlog' \in Seq(Conns) /\ Len(backlog') = Len(backlog) - m
        /\ \A i \in 1..Len(backlog') : backlog'[i] = backlog[m + i] /\ m + i \in 1..Len(backlog)
    BY <1>1, <1>2
  <2>2. ASSUME NEW i \in 1..Len(backlog') PROVE conn'[backlog'[i]].place = "backlog"
    <3>1. backlog'[i] = backlog[m + i] /\ m + i \in 1..Len(backlog) /\ i > 0
      BY <1>2, <2>1, SMTT(30)
    <3>2. backlog[m + i] \in Conns /\ conn[backlog[m + i]].place = "backlog"
      BY <1>0, <1>2, <3>1, SMTT(30) DEF Queue
    <3>3. \A l \in 1..m : backlog[l] # backlog[m + i]
      BY <1>0, <1>2, <3>1 DEF Queue
    <3> QED  BY <1>1, <3>1, <3>2, <3>3, Zenon
  <2>3. \A i, l \in 1..Len(backlog') : backlog'[i] = backlog'[l] => i = l
    <3>1. \A i, l \in 1..Len(backlog) : backlog[i] = backlog[l] => i = l
      BY <1>0 DEF Queue
    <3>2. ASSUME NEW i \in 1..Len(backlog'), NEW l \in 1..Len(backlog'), backlog'[i] = backlog'[l]
          PROVE  m + i = m + l
      BY <2>1, <3>1, <3>2, Zenon
    <3>3. \A i, l \in Nat : m + i = m + l => i = l
      BY <1>2
    <3>4. 1..Len(backlog') \subseteq Nat
      BY SMTT(30)
    <3> QED  BY <3>2, <3>3, <3>4, ZenonT(40)
  <2> QED  BY <2>1, <2>2, <2>3, ZenonT(40) DEF Queue
<1>7. \A c \in Live' : ~conn'[c].closing
  BY <1>0, <1>3, ZenonT(40) DEF Live, Finished, Batch
<1>8. Batch'
  BY <1>0, <1>7, ZenonT(40) DEF Batch, Batching
<1>9. QED
  BY <1>4, <1>5, <1>6, <1>8, ZenonT(40) DEF LoopInv

----------------------------------------------------------------------------
(* The loop.                                                               *)

\* Before the first client there is nothing to be wrong.
LEMMA InitInv == Init => LoopInv
<1> SUFFICES ASSUME Init PROVE LoopInv
  BY Zenon
<1>1. DOMAIN conn = Conns /\ \A c \in Conns : conn[c] = NoConnection
  BY Zenon DEF Init
<1>2. Alive(NoConnection) /\ NoConnection.place = "away"
  BY NothingFormed, Zenon DEF Alive, Sound, Held, Calm
<1>3. Lives /\ Live = {}
  BY <1>1, <1>2, SMTT(30) DEF Lives, Live
<1>4. Children /\ Queue
  BY SMTT(30) DEF Children, Queue, Init
<1>5. Batch
  BY <1>3, Zenon DEF Batch, Batching, Init, NoRequests
<1>6. QED
  BY <1>3, <1>4, <1>5, ZenonT(40) DEF LoopInv

\* Every phase of the loop, and whatever clients, upstreams, workers, the
\* resolver and the clock do meanwhile, keeps the invariant.
LEMMA NextInv == LoopInv /\ [Next]_vars => LoopInv'
<1> SUFFICES ASSUME LoopInv, [Next]_vars PROVE LoopInv'
  BY Zenon
<1>1. CASE SocketPass \/ TimerPass
  BY <1>1, ServeInv DEF SocketPass, TimerPass
<1>2. CASE Wake \/ Signals \/ RouteProgress \/ RoutesDone \/ SocketsDone \/ DestroyClosed \/ Accept
  BY <1>2, WakeInv, SignalsInv, RouteProgressInv, PassInv, DestroyClosedInv, AcceptInv, ZenonT(40)
<1>3. CASE Terminate \/ UNCHANGED vars \/ Tick
  BY <1>3, TerminateInv, TickInv, SMTT(30)
<1>4. ASSUME NEW c \in Conns, Arrive(c) \/ Dial(c) \/ Resolve(c) \/ WorkerExits(c) PROVE LoopInv'
  BY <1>4, ArriveInv, DialInv, ResolveInv, ExitsInv, ZenonT(40)
<1>5. ASSUME NEW c \in Conns, NEW s \in End, Speak(c, s) \/ Hear(c, s) PROVE LoopInv'
  BY <1>5, SpeakInv, HearInv, ZenonT(40)
<1>6. QED
  BY <1>1, <1>2, <1>3, <1>4, <1>5, Zenon DEF Next, Loop

\* The inductive invariant of the loop.
THEOREM LoopKeepsInvariant == Spec => []LoopInv
BY InitInv, NextInv, PTL DEF Spec

\* Every route request is settled exactly once by the time its connection is
\* gone, and counted as pending only while it waits, for any number of
\* connections, any packets and any faults (listener_metrics_route_*,
\* listener_connection_destroy).
THEOREM RoutesSettledOnce == Spec => []SettledOnce
<1>1. LoopInv => SettledOnce
  <2> SUFFICES ASSUME LoopInv, NEW c \in Conns
               PROVE  LET k == conn[c]
                          m == k.metrics
                      IN  /\ m.started <= 1 /\ m.outcomes <= m.started /\ m.resolutions <= m.started
                          /\ k.place = "gone" => m.outcomes = m.started /\ m.pending_current = 0
                          /\ m.pending_current = (IF k.route_metrics.pending THEN 1 ELSE 0)
                          /\ k.route_metrics.pending => k.state = "ROUTE_WAITING" /\ k.waiter
    BY ZenonT(40) DEF SettledOnce
  <2> DEFINE s == conn[c].metrics.started
             o == conn[c].metrics.outcomes
             r == conn[c].metrics.resolutions
             p == conn[c].metrics.pending_current
             waits == conn[c].route_metrics.pending
  <2>1. CASE conn[c].place = "gone"
    <3>1. Finished(conn[c])
      BY <2>1, Zenon DEF LoopInv, Lives
    <3>2. ~waits
      BY <3>1 DEF Finished, NoRequest
    <3>3. s \in {0, 1} /\ o = s /\ r <= s /\ p = 0
      BY <3>1, ZenonT(40) DEF Finished
    <3> HIDE DEF s, o, r, p, waits
    <3>4. s <= 1 /\ o <= s
      BY <3>3
    <3> QED  BY <3>2, <3>3, <3>4, Zenon DEF s, o, r, p, waits
  <2>2. CASE conn[c].place # "gone"
    <3> DEFINE begun == conn[c].route_metrics.started
               ended == conn[c].route_metrics.settled
               noted == conn[c].route_metrics.recorded
    <3>1. Counted(conn[c]) /\ Held(conn[c])
      BY <2>2, ZenonT(40) DEF LoopInv, Lives, Alive, Sound
    <3>2. /\ s = (IF begun THEN 1 ELSE 0) /\ o = (IF ended THEN 1 ELSE 0) /\ r = (IF noted THEN 1 ELSE 0)
          /\ p = (IF waits THEN 1 ELSE 0) /\ (ended => begun) /\ (noted => begun)
      BY <3>1, ZenonT(40) DEF Counted
    <3>3. waits => conn[c].state = "ROUTE_WAITING" /\ conn[c].waiter
      BY <3>1, ZenonT(40) DEF Held, Waits
    <3> HIDE DEF s, o, r, p, waits, begun, ended, noted
    <3>4. s <= 1 /\ o <= s /\ r <= s
      BY <3>2
    <3> QED  BY <2>2, <3>2, <3>3, <3>4, Zenon DEF s, o, r, p, waits
  <2>3. QED
    BY <2>1, <2>2, ZenonT(40)
<1>2. QED
  BY <1>1, LoopKeepsInvariant, PTL

----------------------------------------------------------------------------
(* A client that has left.                                                 *)

\* A client whose route was awaited when it left, while the batch that told
\* of it is served.
Doomed(c) ==
    /\ c \in Live /\ conn[c].closing /\ conn[c].state = "ROUTE_WAITING"
    /\ c \notin requests.routes /\ requests.ready # {}

\* The first pass marks it, and takes it off the routes to look at.
LEMMA CancelledDoomed ==
    ASSUME LoopInv, NEW c \in Live, NEW e \in requests.ready, e.c = c,
           listener_connection_route_cancelled(conn[c], e.kind, e.flags)
    PROVE  Doomed(c) /\ conn[c].dial = "none" /\ child[c] = "none" /\ pc \in Batching
<1>1. Leaves(e) /\ conn[c].state = "ROUTE_WAITING" /\ c \in Conns /\ Alive(conn[c]) /\ conn[c].place = "live"
  BY LivesAlive, ZenonT(40) DEF LoopInv, Leaves, listener_connection_route_cancelled
<1>2. pc \in Batching /\ Events
  BY SMTT(30) DEF LoopInv, Batch
<1>3. Doomed(c) /\ ~conn[c].forked
  BY <1>1, <1>2, ZenonT(40) DEF Events, Doomed
<1>4. conn[c].dial = "none"
  BY <1>1, ZenonT(40) DEF Alive, Sound, Calm, Early, Idle
<1>5. child[c] = "none"
  BY <1>1, <1>3, Zenon DEF LoopInv, Children
<1>6. QED
  BY <1>2, <1>3, <1>4, <1>5, ZenonT(40)

\* The handler of another connection ends this one with the listener or
\* leaves it alone.
LEMMA CommitBeside ==
    ASSUME LoopInv, NEW c \in Live, NEW d, d # c, NEW k, Commit(d, k)
    PROVE  child'[c] = child[c] /\ conn'[c] \in {conn[c], listener_connection_destroy(conn[c])}
<1>0. c \in Conns /\ DOMAIN conn = Conns /\ DOMAIN child = Conns
  BY LivesAlive, ZenonT(40) DEF LoopInv, Lives, Children
<1>1. CASE k.progress = "FATAL"
  <2>1. /\ conn' = [f \in Conns |-> IF f \in Live THEN listener_connection_destroy(IF f = d THEN k ELSE conn[f]) ELSE conn[f]]
        /\ child' = child
    BY <1>1, ZenonT(40) DEF Commit
  <2> QED  BY <1>0, <2>1
<1>2. CASE k.progress # "FATAL"
  <2> DEFINE j == [k EXCEPT !.closing = @ \/ k.progress \in {"ABORT", "CLOSED"}, !.progress = "none"]
  <2>1. conn' = [conn EXCEPT ![d] = j] /\ child' = IF k.forked THEN [child EXCEPT ![d] = "running"] ELSE child
    BY <1>2, ZenonT(40) DEF Commit
  <2> HIDE DEF j
  <2> QED  BY <1>0, <2>1, SMTT(30)
<1>3. QED
  BY <1>1, <1>2, ZenonT(40)

\* While the rest of the batch is served it gets no worker, and its upstream
\* is not dialled: it stays as it is or is destroyed.
LEMMA DoomedStays ==
    ASSUME LoopInv, NEW c, Doomed(c), pc \in Batching, child[c] = "none", conn[c].dial = "none", Next
    PROVE  child'[c] = child[c] /\ (conn'[c].dial = conn[c].dial \/ conn'[c] = listener_connection_destroy(conn[c]))
<1>0. c \in Conns /\ c \in Live /\ conn[c].closing /\ c \notin requests.routes /\ requests.ready # {}
      /\ Formed(conn[c]) /\ DOMAIN conn = Conns /\ DOMAIN child = Conns
  BY LivesAlive, Zenon DEF Doomed, LoopInv, Lives, Children
<1>1. CASE Wake \/ Accept \/ Terminate \/ DestroyClosed
  BY <1>0, <1>1, ZenonT(40) DEF Wake, Accept, Terminate, DestroyClosed, Batching
<1>2. CASE Signals
  BY <1>0, <1>2, ZenonT(40) DEF Signals, DestroyAll
<1>3. CASE RouteProgress
  <2>1. PICK d \in requests.routes : \E k : Commit(d, k)
    BY <1>3, ZenonT(40) DEF RouteProgress
  <2> QED  BY <1>0, <2>1, CommitBeside, ZenonT(40)
<1>4. CASE RoutesDone \/ SocketsDone
  BY <1>4, SMTT(30) DEF RoutesDone, SocketsDone
<1>5. CASE SocketPass \/ TimerPass
  <2>1. PICK e : ServeEvent(e)
    BY <1>5 DEF SocketPass, TimerPass
  <2>2. CASE conn[e.c].closing
    BY <2>1, <2>2, SMTT(30) DEF ServeEvent
  <2>3. CASE ~conn[e.c].closing
    <3>1. PICK k : Commit(e.c, k)
      BY <2>1, <2>3, ZenonT(40) DEF ServeEvent
    <3> QED  BY <1>0, <2>3, <3>1, CommitBeside, ZenonT(40)
  <2> QED  BY <2>2, <2>3, ZenonT(40)
<1>6. CASE Tick
  <2>1. conn'[c].dial = conn[c].dial
    BY <1>0, <1>6, Zenon DEF Tick, Formed, Fields
  <2> QED  BY <1>6, <2>1, ZenonT(40) DEF Tick
<1>7. ASSUME NEW d \in Conns, Arrive(d) \/ Dial(d) \/ Resolve(d) \/ WorkerExits(d)
      PROVE  child'[c] = child[c] /\ conn'[c].dial = conn[c].dial
  BY <1>0, <1>7, SMTT(30) DEF Arrive, Dial, Resolve, WorkerExits, Formed, Fields
<1>8. ASSUME NEW d \in Conns, NEW s \in End, Speak(d, s) \/ Hear(d, s)
      PROVE  child'[c] = child[c] /\ conn'[c].dial = conn[c].dial
  <2> DEFINE k == conn[d]
             q == k.sock[s]
             a == [k EXCEPT !.sock[s].said = @ + 1, !.sock[s].unread = @ \o Chunks(d, s)[q.said + 1]]
             b == [k EXCEPT !.sock[s].fin = TRUE]
             r == [k EXCEPT !.sock[s].rst = TRUE]
             h == [k EXCEPT !.sock[s].out = 0]
  <2>1. Formed(k)
    BY AllFormed, Zenon DEF LoopInv
  <2>2. a.dial = k.dial /\ b.dial = k.dial /\ r.dial = k.dial /\ h.dial = k.dial
    BY <2>1 DEF Formed, Fields
  <2>3. child' = child /\ \E j \in {a, b, r, h} : conn' = [conn EXCEPT ![d] = j]
    BY <1>8, ZenonT(40) DEF Speak, Hear
  <2> HIDE DEF a, b, r, h
  <2> QED  BY <1>0, <2>2, <2>3, ZenonT(40)
<1>9. QED
  BY <1>1, <1>2, <1>3, <1>4, <1>5, <1>6, <1>7, <1>8, ZenonT(40) DEF Next, Loop

\* A client seen to have left while its route was awaited is given neither a
\* worker nor an upstream, for any number of connections and any order of the
\* batch (listener_connections_route_cancel_mark, and the loop's passes).
THEOREM ClientCancellationWins == Spec => CancellationWins
<1>1. LoopInv /\ LoopInv' /\ [Next]_vars =>
          [\A c \in Live :
              (\E e \in requests.ready : e.c = c /\ listener_connection_route_cancelled(conn[c], e.kind, e.flags))
              => conn'[c].dial = conn[c].dial /\ child'[c] = child[c]]_vars
  <2> SUFFICES ASSUME LoopInv, LoopInv', Next, NEW c \in Live, NEW e \in requests.ready, e.c = c,
                      listener_connection_route_cancelled(conn[c], e.kind, e.flags)
               PROVE  conn'[c].dial = conn[c].dial /\ child'[c] = child[c]
    BY ZenonT(40)
  <2>1. Doomed(c) /\ conn[c].dial = "none" /\ child[c] = "none" /\ pc \in Batching
    BY CancelledDoomed, SMTT(30)
  <2>2. child'[c] = child[c] /\ (conn'[c].dial = conn[c].dial \/ conn'[c] = listener_connection_destroy(conn[c]))
    BY <2>1, DoomedStays, ZenonT(40)
  <2>3. listener_connection_destroy(conn[c]).dial = "none"
    BY LiveCounted, DestroyFinishes, Zenon DEF LoopInv, Finished, Idle
  <2>4. QED
    BY <2>1, <2>2, <2>3
<1>2. QED
  BY <1>1, LoopKeepsInvariant, PTL DEF Spec, CancellationWins

=============================================================================
