----------------------------- MODULE ListenerHandlers -----------------------
(***************************************************************************)
(* What the handlers of Listener.tla leave of the connection they are      *)
(* given, for any packets, routes, verdicts and faults: lemmas about       *)
(* functions on one connection, from the timers up to the handling of a    *)
(* whole event.                                                            *)
(***************************************************************************)
EXTENDS Listener, FiniteSetTheorems, TLAPS

\* The fields of a connection.
Fields ==
    {"place", "progress", "state", "closing", "forked", "inbound", "dispatch", "waiter", "answer", "waiter_status",
     "timer", "left", "life", "fired", "rearmed", "since", "dial", "request", "buffer", "sock", "route_metrics", "metrics"}

\* A well-formed one.
Formed(k) == DOMAIN k = Fields /\ DOMAIN k.sock = End /\ "flags" \in DOMAIN k.sock["upstream"]

\* Neither answered nor handed on yet.
Early(k) == k.state \in {"INITIAL", "ROUTE_WAITING"}

\* What nearly every handler leaves alone.
Kept(k, j) ==
    /\ Formed(j)
    /\ j.place = k.place /\ j.closing = k.closing /\ j.forked = k.forked
    /\ j.metrics = k.metrics /\ j.route_metrics = k.route_metrics

\* And what those do that only arm, answer or register.
Idle(k) == k.dial = "none" /\ k.sock["upstream"].flags = {}
Carried(k, j) == Kept(k, j) /\ j.state = k.state
Still(k, j) == Carried(k, j) /\ j.waiter = k.waiter /\ (Idle(k) => Idle(j))

----------------------------------------------------------------------------

\* A handler's answer changes nothing but the answer.
LEMMA Answers ==
    ASSUME NEW k, Formed(k), NEW p
    PROVE  Still(k, Answer(k, p)) /\ Answer(k, p).progress = p /\ Answer(k, p).timer = k.timer
BY DEF Formed, Kept, Carried, Still, Idle, Answer, Fields

\* Setting the timer sets the timer only, at the latest to the lifetime's end
\* (listener_connection_timer_set).
LEMMA TimerSet ==
    ASSUME NEW k, Formed(k), NEW timer, NEW left
    PROVE  LET j == listener_connection_timer_set(k, timer, left)
           IN  Still(k, j) /\ j.progress = k.progress /\ (j.timer = timer \/ j.timer = "SHORT_LIFETIME")
BY DEF Formed, Kept, Carried, Still, Idle, listener_connection_timer_set, Fields

\* Arming a timer leaves the rest alone (listener_connection_timer_arm).
LEMMA TimerArm ==
    ASSUME NEW k, Formed(k), NEW timer
    PROVE  Still(k, listener_connection_timer_arm(k, timer))
BY TimerSet, Zenon DEF listener_connection_timer_arm

\* So does arming one of the exchange's
\* (listener_connection_timer_arm_short).
LEMMA TimerArmShort ==
    ASSUME NEW k, Formed(k), NEW timer, NEW now, NEW seconds
    PROVE  Still(k, listener_connection_timer_arm_short(k, timer, now, seconds))
BY TimerSet, Zenon DEF listener_connection_timer_arm_short

\* Registering events leaves the rest alone, and an upstream not dialled
\* unregistered (listener_connection_interests_update).
LEMMA Interests ==
    ASSUME NEW k, Formed(k)
    PROVE  LET j == listener_connection_interests_update(k)
           IN  Still(k, j) /\ j.progress = "PENDING" /\ j.timer = k.timer
BY SMTT(30) DEF Formed, Kept, Carried, Still, Idle, listener_connection_interests_update, Fields, End, Connected

\* Reading into a buffer touches neither the connection's state nor its
\* counters (listener_connection_buffer_receive).
LEMMA BufferReceive ==
    ASSUME NEW k, Formed(k), NEW s \in End, NEW capacity
    PROVE  Carried(k, listener_connection_buffer_receive(k, s, capacity))
BY ZenonT(40) DEF Formed, Kept, Carried, listener_connection_buffer_receive, Fields, End

\* Nor does sending.
LEMMA SendKeeps ==
    ASSUME NEW k, Formed(k), NEW s \in End, NEW data
    PROVE  Carried(k, Send(k, s, data))
<1>1. Carried(k, k)
  BY DEF Kept, Carried
<1>2. Carried(k, Answer(k, "ERROR"))
  BY Answers DEF Still
<1> DEFINE n == Least(Len(data), SOCKET_BYTES[s] - k.sock[s].out)
           sent == [k EXCEPT !.sock[s].out = @ + n, !.sock[s].got = @ \o SubSeq(data, 1, n),
                             !.since = IF n > 0 THEN 0 ELSE @, !.progress = IF n > 0 THEN "MOVED" ELSE @]
<1>3. Carried(k, sent)
  <2> HIDE DEF n
  <2> QED  BY DEF Formed, Kept, Carried, Fields, End
<1>4. QED
  BY <1>1, <1>2, <1>3, Zenon DEF Send

\* What two steps leave alone, both together do.
LEMMA CarriedOn ==
    ASSUME NEW k, NEW j, NEW i, Carried(k, j), Carried(j, i)
    PROVE  Carried(k, i)
BY DEF Carried, Kept

\* Nothing done is a step that leaves all alone.
LEMMA CarriedAlone ==
    ASSUME NEW k, Formed(k)
    PROVE  Carried(k, k)
BY DEF Carried, Kept

\* A step that keeps state and counters leaves a connection well formed.
LEMMA CarriedFormed ==
    ASSUME NEW k, NEW j, Carried(k, j)
    PROVE  Formed(j)
BY DEF Carried, Kept

\* The three small steps every handler is made of keep state and counters.
LEMMA Steady ==
    ASSUME NEW k, Formed(k)
    PROVE  /\ \A p : Carried(k, Answer(k, p))
           /\ \A timer, now, seconds : Carried(k, listener_connection_timer_arm_short(k, timer, now, seconds))
           /\ Carried(k, listener_connection_interests_update(k))
BY Answers, TimerArmShort, Interests DEF Still

\* Storing what is left of the request keeps state and counters.
LEMMA RequestSet ==
    ASSUME NEW k, Formed(k), NEW v
    PROVE  Carried(k, [k EXCEPT !.request = v])
BY DEF Formed, Kept, Carried, Fields

\* So does storing a buffer.
LEMMA BufferSet ==
    ASSUME NEW k, Formed(k), NEW s, NEW v
    PROVE  Carried(k, [k EXCEPT !.buffer[s] = v])
BY DEF Formed, Kept, Carried, Fields

\* Sending the request on keeps state and counters
\* (listener_connection_data_send).
LEMMA DataSend ==
    ASSUME NEW k, Formed(k)
    PROVE  Carried(k, listener_connection_data_send(k))
<1> DEFINE m == Send(k, "upstream", k.request)
           j == [m EXCEPT !.request = IF k.sock["upstream"].rst THEN @ ELSE Unsent(k, "upstream", @)]
<1>1. Carried(k, m)
  BY SendKeeps DEF End
<1>2. Carried(m, j)
  <2> HIDE DEF m
  <2> QED  BY <1>1, RequestSet, CarriedFormed, SMTT(30)
<1>3. QED
  BY <1>1, <1>2, CarriedOn DEF listener_connection_data_send

\* Sending a buffer on keeps state and counters
\* (listener_connection_buffer_send).
LEMMA BufferSend ==
    ASSUME NEW k, Formed(k), NEW s \in End
    PROVE  Carried(k, listener_connection_buffer_send(k, s))
<1> DEFINE b == k.buffer[s]
           rest == Unsent(k, Other(s), b.data)
           m == Send(k, Other(s), b.data)
           j == [m EXCEPT !.buffer[s] = IF k.sock[Other(s)].rst THEN @
                          ELSE [data |-> rest, offset |-> IF rest = <<>> THEN 0 ELSE @.offset + Len(b.data) - Len(rest)]]
<1>1. Carried(k, m)
  BY SendKeeps DEF End, Other
<1>2. Carried(m, j)
  <2> HIDE DEF m, rest, b
  <2> QED  BY <1>1, BufferSet, CarriedFormed, Zenon
<1>3. QED
  BY <1>1, <1>2, CarriedOn, Zenon DEF listener_connection_buffer_send

\* Closing the upstream keeps state and counters
\* (listener_connection_upstream_close).
LEMMA UpstreamClose ==
    ASSUME NEW k, Formed(k)
    PROVE  Carried(k, listener_connection_upstream_close(k))
BY DEF Formed, Kept, Carried, Fields, End, listener_connection_upstream_close

\* After part of the listener's own answer has gone out, its timer and events
\* are renewed and nothing else (short_drive, responding).
LEMMA RespondedKeeps ==
    ASSUME NEW k, Formed(k), NEW now
    PROVE  Carried(k, Responded(k, now))
<1> DEFINE m == listener_connection_timer_arm_short(k, "SHORT_IDLE", now, LISTENER_SHORT_RELAY_IDLE_TIMEOUT_SEC)
<1>1. Carried(k, m)
  BY Steady
<1>2. Carried(k, listener_connection_interests_update(m))
  BY <1>1, CarriedFormed, CarriedOn, Steady
<1>3. QED
  BY <1>2, Steady, Zenon DEF Responded

\* Sending the listener's own answer keeps state and counters (short_drive,
\* responding).
LEMMA RespondingKeeps ==
    ASSUME NEW k, Formed(k), NEW now, NEW active
    PROVE  Carried(k, Responding(k, now, active))
<1> DEFINE p == IF active THEN "MOVED" ELSE "none"
           m == Answer(k, p)
           i == listener_connection_buffer_send(m, "upstream")
<1>1. Carried(k, m)
  BY Steady
<1>2. Carried(k, i)
  BY <1>1, CarriedFormed, CarriedOn, BufferSend DEF End
<1>3. Carried(k, Responded(i, now))
  <2> HIDE DEF i
  <2> QED  BY <1>2, CarriedFormed, CarriedOn, RespondedKeeps
<1>4. QED
  BY <1>3, Zenon DEF Responding

\* Sending towards either end keeps state and counters.
LEMMA SentKeeps ==
    ASSUME NEW k, Formed(k)
    PROVE  Carried(k, SentUp(k)) /\ Carried(k, SentDown(k))
BY BufferSend, CarriedAlone DEF SentUp, SentDown, End

\* Passing an end of file on keeps state and counters (short_drive).
LEMMA ClosesKeep ==
    ASSUME NEW k, Formed(k)
    PROVE  Carried(k, ClosesPassed(k))
<1>1. Carried(k, Answer(k, "CLOSED"))
  BY Steady, SMTT(30)
<1> DEFINE drained(s) == k.buffer[s].data = <<>> /\ (s = "client" => k.request = <<>>)
           shut(s) == k.sock[s].read_closed /\ ~k.sock[Other(s)].write_closed /\ drained(s)
           passed == [k EXCEPT
                !.sock = [s \in End |-> [@[s] EXCEPT
                    !.read_paused = @ /\ k.buffer[s].data # <<>>,
                    !.write_closed = @ \/ shut(Other(s))]],
                !.progress = IF \A s \in End : k.sock[s].read_closed /\ drained(s) THEN "CLOSED" ELSE @]
<1>2. Carried(k, passed)
  <2> HIDE DEF drained, shut
  <2> QED  BY DEF Formed, Kept, Carried, Fields, End
<1>3. QED
  BY <1>1, <1>2, Zenon DEF ClosesPassed

\* A round of sending both ways keeps state and counters (short_drive).
LEMMA RelayedKeeps ==
    ASSUME NEW k, Formed(k), NEW active
    PROVE  Carried(k, Relayed(k, active))
<1> DEFINE p == IF active THEN "MOVED" ELSE "none"
           m == Answer(k, p)
           d == listener_connection_data_send(m)
           u == SentUp(d)
           e == SentDown(u)
<1>1. Carried(k, m)
  BY Steady
<1>2. Carried(k, d)
  BY <1>1, CarriedFormed, CarriedOn, DataSend
<1>3. Carried(k, u)
  <2> HIDE DEF d
  <2> QED  BY <1>2, CarriedFormed, CarriedOn, SentKeeps
<1>4. Carried(k, e)
  <2> HIDE DEF u
  <2> QED  BY <1>3, CarriedFormed, CarriedOn, SentKeeps
<1>5. Carried(k, ClosesPassed(e))
  <2> HIDE DEF e
  <2> QED  BY <1>4, CarriedFormed, CarriedOn, ClosesKeep
<1>6. QED
  BY <1>5, Zenon DEF Relayed

\* So does what follows a round that moved bytes (short_drive).
LEMMA RelayedOnKeeps ==
    ASSUME NEW k, Formed(k), NEW now
    PROVE  Carried(k, RelayedOn(k, now))
<1> DEFINE m == listener_connection_timer_arm_short(k, "SHORT_IDLE", now, LISTENER_SHORT_RELAY_IDLE_TIMEOUT_SEC)
<1>1. Carried(k, m)
  BY Steady
<1>2. Carried(k, listener_connection_interests_update(m))
  BY <1>1, CarriedFormed, CarriedOn, Steady
<1>3. QED
  BY <1>2, Steady, CarriedAlone, Zenon DEF RelayedOn

\* The whole of listener_connection_short_drive keeps state and counters.
LEMMA DriveKeeps ==
    ASSUME NEW k, Formed(k), NEW now, NEW active
    PROVE  Carried(k, listener_connection_short_drive(k, now, active))
<1> DEFINE m == Relayed(k, active)
<1>1. Carried(k, m)
  BY RelayedKeeps, Zenon
<1>2. Carried(k, RelayedOn(m, now))
  <2> HIDE DEF m
  <2> QED  BY <1>1, CarriedFormed, CarriedOn, RelayedOnKeeps
<1>3. QED
  BY <1>2, Steady, RespondingKeeps, Zenon DEF listener_connection_short_drive

\* Entering a state of the exchange changes the state and nothing else that
\* matters here.
LEMMA EnterKeeps ==
    ASSUME NEW k, Formed(k), NEW state, NEW now
    PROVE  Kept(k, Enter(k, state, now)) /\ Enter(k, state, now).state = state
<1> DEFINE m == [k EXCEPT !.state = state, !.since = 0]
<1>1. Kept(k, m) /\ m.state = state
  BY DEF Formed, Kept, Fields
<1>2. Carried(m, Enter(k, state, now))
  <2>1. Formed(m)
    BY <1>1 DEF Kept
  <2> QED  BY <2>1, Steady, Zenon DEF Enter
<1>3. QED
  BY <1>1, <1>2 DEF Carried, Kept

\* What a step of the exchange may do: it leaves the connection as it was for
\* the rest, or in a state of the exchange.
Ending == {"ABORT", "CLOSED", "FATAL"}
Exchanged(k, j) == Kept(k, j) /\ (Early(j) => j.state = k.state /\ (Idle(k) => Idle(j)) /\ j.progress \in Ending)

\* A failed upstream turns the exchange into the listener's own answer, or
\* ends the connection (listener_connection_short_failure).
LEMMA FailureKeeps ==
    ASSUME NEW k, Formed(k), NEW now
    PROVE  Exchanged(k, listener_connection_short_failure(k, now))
<1> DEFINE m == listener_connection_upstream_close(k)
           e == Enter(m, "SHORT_RESPONDING", now)
           d == listener_connection_short_drive(e, now, FALSE)
<1>1. Kept(k, m) /\ Formed(m)
  BY UpstreamClose DEF Carried, Kept
<1>2. Kept(m, e) /\ Formed(e) /\ e.state = "SHORT_RESPONDING"
  <2> HIDE DEF m
  <2> QED  BY <1>1, EnterKeeps DEF Kept
<1>3. Carried(e, d)
  <2> HIDE DEF e
  <2> QED  BY <1>2, DriveKeeps, Zenon
<1>4. Exchanged(k, d)
  <2> HIDE DEF m, e, d
  <2> QED  BY <1>1, <1>2, <1>3 DEF Exchanged, Carried, Kept, Early
<1>5. Exchanged(k, Answer(k, "CLOSED"))
  BY Answers DEF Exchanged, Still, Carried, Ending
<1>6. QED
  BY <1>4, <1>5, Zenon DEF listener_connection_short_failure


\* A dial that came through begins the exchange, or fails it
\* (listener_connection_short_connect_complete).
LEMMA ConnectKeeps ==
    ASSUME NEW k, Formed(k), NEW now
    PROVE  Exchanged(k, listener_connection_short_connect_complete(k, now))
<1> DEFINE m == [k EXCEPT !.buffer["upstream"] = NoBuffer]
           e == Enter(m, "SHORT_RELAYING", now)
<1>1. Kept(k, m) /\ Formed(m)
  BY BufferSet DEF Carried, Kept
<1>2. Kept(m, e) /\ Formed(e) /\ e.state = "SHORT_RELAYING"
  <2> HIDE DEF m
  <2> QED  BY <1>1, EnterKeeps DEF Kept
<1>3. Carried(e, Answer(e, "PENDING"))
  <2> HIDE DEF e
  <2> QED  BY <1>2, Steady, Zenon
<1>4. Exchanged(k, Answer(e, "PENDING"))
  <2> HIDE DEF m, e
  <2> QED  BY <1>1, <1>2, <1>3, Zenon DEF Exchanged, Carried, Kept, Early
<1>5. Exchanged(k, Answer(k, "CLOSED"))
  BY Answers DEF Exchanged, Still, Carried, Ending
<1>6. QED
  BY <1>4, <1>5, FailureKeeps, Zenon DEF listener_connection_short_connect_complete

----------------------------------------------------------------------------

\* Pausing an end's reads keeps state and counters.
LEMMA PausedSet ==
    ASSUME NEW k, Formed(k), NEW s \in End, NEW v
    PROVE  Carried(k, [k EXCEPT !.sock[s].read_paused = v])
BY DEF Formed, Kept, Carried, Fields, End

\* Receiving from an end keeps state and counters
\* (listener_connection_short_event).
LEMMA ReceivedKeeps ==
    ASSUME NEW k, Formed(k), NEW s \in End, NEW flags
    PROVE  Carried(k, Received(k, s, flags))
<1> DEFINE m == Answer(k, "none")
<1>1. Carried(k, m)
  BY Steady
<1>2. Carried(k, listener_connection_buffer_receive(m, s, Capacity(s)))
  <2> HIDE DEF m
  <2> QED  BY <1>1, BufferReceive, CarriedFormed, CarriedOn
<1>3. QED
  BY <1>1, <1>2, Zenon DEF Received

\* So does driving what was received.
LEMMA DriveReceivedKeeps ==
    ASSUME NEW k, Formed(k), NEW s \in End, NEW now
    PROVE  Carried(k, DriveReceived(k, s, now))
<1> DEFINE full == Len(k.buffer[s].data) = Capacity(s)
           m == [k EXCEPT !.sock[s].read_paused = @ \/ full]
           moved == k.progress = "MOVED"
<1>1. Carried(k, m)
  <2> HIDE DEF full
  <2> QED  BY PausedSet
<1>2. Carried(k, listener_connection_short_drive(m, now, moved))
  <2> HIDE DEF m, moved
  <2> QED  BY <1>1, DriveKeeps, CarriedFormed, CarriedOn, Zenon
<1>3. Carried(k, Answer(k, "CLOSED"))
  BY Steady
<1>4. QED
  BY <1>2, <1>3, Zenon DEF DriveReceived

\* A client's event in the exchange keeps state and counters.
LEMMA ClientEventKeeps ==
    ASSUME NEW k, Formed(k), NEW flags, NEW now
    PROVE  Carried(k, ClientEvent(k, flags, now))
<1> DEFINE m == Received(k, "client", flags)
<1>1. Carried(k, m)
  BY ReceivedKeeps DEF End
<1>2. Carried(k, DriveReceived(m, "client", now))
  <2> HIDE DEF m
  <2> QED  BY <1>1, DriveReceivedKeeps, CarriedFormed, CarriedOn DEF End
<1>3. QED
  BY <1>2, Steady, DriveKeeps, Zenon DEF ClientEvent

\* So does an upstream's.
LEMMA UpstreamEventKeeps ==
    ASSUME NEW k, Formed(k), NEW flags, NEW now
    PROVE  Carried(k, UpstreamEvent(k, flags, now))
<1> DEFINE m == Received(k, "upstream", flags)
<1>1. Carried(k, m)
  BY ReceivedKeeps DEF End
<1>2. Carried(k, DriveReceived(m, "upstream", now))
  <2> HIDE DEF m
  <2> QED  BY <1>1, DriveReceivedKeeps, CarriedFormed, CarriedOn, Zenon DEF End
<1>3. QED
  BY <1>2, Steady, DriveKeeps, CarriedAlone, Zenon DEF UpstreamEvent

\* An event of the exchange leaves it an exchange, with the counters as they
\* were (listener_connection_short_event).
LEMMA ShortEventKeeps ==
    ASSUME NEW k, Formed(k), ~Early(k), NEW kind, NEW flags, NEW now
    PROVE  Kept(k, listener_connection_short_event(k, kind, flags, now))
           /\ ~Early(listener_connection_short_event(k, kind, flags, now))
<1>1. ASSUME NEW j, Carried(k, j)
      PROVE  Kept(k, j) /\ ~Early(j)
  BY <1>1, Zenon DEF Carried, Early
<1> DEFINE m == IF k.state = "SHORT_CONNECTING" THEN listener_connection_short_connect_complete(k, now)
                ELSE Answer(k, "PENDING")
<1>2. Kept(k, m) /\ ~Early(m)
  BY <1>1, Steady, ConnectKeeps, Zenon DEF Exchanged, Early
<1>3. Kept(k, UpstreamEvent(m, flags, now)) /\ ~Early(UpstreamEvent(m, flags, now))
  <2> HIDE DEF m
  <2>1. Carried(m, UpstreamEvent(m, flags, now))
    BY <1>2, UpstreamEventKeeps DEF Kept
  <2> QED  BY <1>2, <2>1, Zenon DEF Carried, Kept, Early
<1>4. Kept(k, ClientEvent(k, flags, now)) /\ ~Early(ClientEvent(k, flags, now))
  BY <1>1, ClientEventKeeps, Zenon
<1>5. Kept(k, Answer(k, "PENDING")) /\ ~Early(Answer(k, "PENDING"))
  BY <1>1, Steady, Zenon
<1>6. QED
  BY <1>3, <1>4, <1>5, Zenon DEF listener_connection_short_event

----------------------------------------------------------------------------

\* Two steps that only arm, answer or register are together such a step.
LEMMA StillOn ==
    ASSUME NEW k, NEW j, NEW i, Still(k, j), Still(j, i)
    PROVE  Still(k, i)
BY DEF Still, Carried, Kept

\* A step that only arms, answers or registers leaves a connection well
\* formed.
LEMMA StillFormed ==
    ASSUME NEW k, NEW j, Still(k, j)
    PROVE  Formed(j)
BY DEF Still, Carried, Kept

\* Looking at the bytes assembled so far arms and answers, no more
\* (listener_connection_receive).
LEMMA AssembledKeeps ==
    ASSUME NEW k, Formed(k), NEW n, NEW packet, NEW identified, NEW flags
    PROVE  Still(k, Assembled(k, n, packet, identified, flags))
<1> DEFINE armed == IF n = 0 THEN k
                    ELSE listener_connection_timer_arm(k, IF packet.status = "AMBIGUOUS" THEN "GRACE" ELSE "ASSEMBLY")
<1>1. Still(k, armed)
  BY TimerArm DEF Still, Carried, Kept, Idle
<1>2. ASSUME NEW p
      PROVE  Still(k, Answer(k, p)) /\ Still(k, Answer(armed, p))
  <2> HIDE DEF armed
  <2>1. Still(k, Answer(k, p)) /\ Still(armed, Answer(armed, p))
    BY <1>1, Answers, StillFormed
  <2> QED  BY <1>1, <2>1, StillOn
<1>3. QED
  BY <1>2, Zenon DEF Assembled

\* Assembling the first packet starts no request and dials nothing
\* (listener_connection_receive).
LEMMA ReceiveKeeps ==
    ASSUME NEW k, Formed(k), NEW w, NEW flags
    PROVE  Still(k, listener_connection_receive(k, w, flags))
<1> DEFINE q == k.sock["client"]
           n == Least(Len(q.unread), BUFSIZ - Len(k.inbound))
           inbound == k.inbound \o SubSeq(q.unread, 1, n)
           m == [k EXCEPT !.inbound = inbound, !.sock["client"].unread = From(@, n + 1)]
<1>1. Still(k, m)
  <2> HIDE DEF n, inbound
  <2> QED  BY Zenon DEF Formed, Kept, Carried, Still, Idle, Fields, End
<1>2. Still(m, Assembled(m, n, Framing[w][inbound], Identity[w][inbound].version # "UNIDENT", flags))
  <2> HIDE DEF m, n, inbound
  <2> QED  BY <1>1, StillFormed, AssembledKeeps, Zenon
<1>3. QED
  BY <1>1, <1>2, StillOn, Zenon DEF listener_connection_receive

----------------------------------------------------------------------------

\* The counters of a request say what its flags say.
Counted(k) ==
    LET r == k.route_metrics
        m == k.metrics
    IN  /\ DOMAIN r = {"started", "pending", "recorded", "settled"}
        /\ DOMAIN m = {"started", "outcomes", "resolutions", "pending_current"}
        /\ m.started = (IF r.started THEN 1 ELSE 0)
        /\ m.outcomes = (IF r.settled THEN 1 ELSE 0)
        /\ m.resolutions = (IF r.recorded THEN 1 ELSE 0)
        /\ m.pending_current = (IF r.pending THEN 1 ELSE 0)
        /\ r.settled => r.started
        /\ r.recorded => r.started
        /\ r.pending => r.started /\ ~r.settled

\* What counting leaves alone.
Beside(k, j) ==
    /\ Formed(j)
    /\ j.place = k.place /\ j.closing = k.closing /\ j.forked = k.forked
    /\ j.state = k.state /\ j.waiter = k.waiter /\ j.timer = k.timer
    /\ Idle(k) => Idle(j)

\* Two steps that only count are together such a step.
LEMMA BesideOn ==
    ASSUME NEW k, NEW j, NEW i, Beside(k, j), Beside(j, i)
    PROVE  Beside(k, i)
BY Zenon DEF Beside

\* The counters still agree with the flags where neither changed.
LEMMA CountedKept ==
    ASSUME NEW k, NEW j, Counted(k), Kept(k, j)
    PROVE  Counted(j)
BY DEF Counted, Kept

\* A request is counted as started once (listener_metrics_route_start).
LEMMA StartCounts ==
    ASSUME NEW k, Formed(k), Counted(k)
    PROVE  LET j == listener_metrics_route_start(k)
           IN  Beside(k, j) /\ Counted(j) /\ j.route_metrics.pending = k.route_metrics.pending
<1>1. Beside(k, listener_metrics_route_start(k))
  BY DEF Formed, Beside, Idle, Fields, listener_metrics_route_start
<1>2. Counted(listener_metrics_route_start(k)) /\ listener_metrics_route_start(k).route_metrics.pending = k.route_metrics.pending
  BY DEF Formed, Counted, Fields, listener_metrics_route_start
<1>3. QED
  BY <1>1, <1>2

\* A request is counted as pending once (listener_metrics_route_pending).
LEMMA PendingCounts ==
    ASSUME NEW k, Formed(k), Counted(k)
    PROVE  LET j == listener_metrics_route_pending(k)
           IN  Beside(k, j) /\ Counted(j)
<1>1. Beside(k, listener_metrics_route_pending(k))
  BY DEF Formed, Beside, Idle, Fields, listener_metrics_route_pending
<1>2. Counted(listener_metrics_route_pending(k))
  BY DEF Formed, Counted, Counting, Fields, listener_metrics_route_pending
<1>3. QED
  BY <1>1, <1>2, Zenon

\* Its resolution is counted once (listener_metrics_route_resolution_record).
LEMMA RecordCounts ==
    ASSUME NEW k, Formed(k), Counted(k)
    PROVE  LET j == listener_metrics_route_resolution_record(k)
           IN  Beside(k, j) /\ Counted(j) /\ j.route_metrics.pending = k.route_metrics.pending
<1>1. Beside(k, listener_metrics_route_resolution_record(k))
  BY DEF Formed, Beside, Idle, Fields, listener_metrics_route_resolution_record
<1>2. Counted(listener_metrics_route_resolution_record(k))
  BY DEF Formed, Counted, Counting, Fields, listener_metrics_route_resolution_record
<1>3. listener_metrics_route_resolution_record(k).route_metrics.pending = k.route_metrics.pending
  BY DEF Formed, Counted, Counting, Fields, listener_metrics_route_resolution_record
<1>4. QED
  BY <1>1, <1>2, <1>3

\* Settling leaves a started request settled and none pending, however often
\* it is called (listener_metrics_route_settle).
LEMMA SettleCounts ==
    ASSUME NEW k, Formed(k), Counted(k)
    PROVE  LET j == listener_metrics_route_settle(k)
           IN  Beside(k, j) /\ Counted(j) /\ ~j.route_metrics.pending /\ (j.route_metrics.started => j.route_metrics.settled)
<1>1. Beside(k, listener_metrics_route_settle(k))
  BY DEF Formed, Beside, Idle, Fields, listener_metrics_route_settle
<1>2. Counted(listener_metrics_route_settle(k))
  BY DEF Formed, Counted, Counting, Fields, listener_metrics_route_settle
<1>3. /\ ~listener_metrics_route_settle(k).route_metrics.pending
      /\ listener_metrics_route_settle(k).route_metrics.started => listener_metrics_route_settle(k).route_metrics.settled
  BY DEF Formed, Counted, Counting, Fields, listener_metrics_route_settle
<1>4. QED
  BY <1>1, <1>2, <1>3, Zenon

\* A destroyed connection has settled what it started.
Finished(j) ==
    /\ Formed(j) /\ j.place = "gone" /\ j.state = "INITIAL" /\ ~j.closing /\ ~j.forked /\ Idle(j)
    /\ j.route_metrics = NoRequest
    /\ j.metrics.started \in {0, 1} /\ j.metrics.outcomes = j.metrics.started
    /\ j.metrics.resolutions \in {0, 1} /\ j.metrics.resolutions <= j.metrics.started
    /\ j.metrics.pending_current = 0

\* A connection nobody has made yet.
LEMMA NothingFormed ==
    Formed(NoConnection) /\ Counted(NoConnection) /\ Idle(NoConnection) /\ NoConnection.state = "INITIAL"
    /\ ~NoConnection.closing /\ ~NoConnection.forked /\ NoConnection.place = "away" /\ ~NoConnection.route_metrics.pending
BY Zenon DEF NoConnection, Formed, Counted, Idle, Fields, NoRequest, NoMetrics, NoSocket, End

\* A client turned away at the door leaves no request behind.
LEMMA GoneIsFinished ==
    ASSUME NEW k
    PROVE  Finished(Gone(k))
BY DEF Gone, NoConnection, Finished, Formed, Idle, Fields, NoRequest, NoMetrics, NoSocket, End

\* Destroying a connection settles whatever request it had
\* (listener_connection_destroy).
LEMMA DestroyFinishes ==
    ASSUME NEW k, Formed(k), Counted(k)
    PROVE  Finished(listener_connection_destroy(k))
<1> DEFINE m == IF k.route_metrics.pending THEN listener_metrics_route_resolution_record(k) ELSE k
           j == listener_metrics_route_settle(m)
<1>1. Formed(m) /\ Counted(m)
  BY RecordCounts DEF Beside
<1>2. Counted(j) /\ ~j.route_metrics.pending /\ (j.route_metrics.started => j.route_metrics.settled)
  <2> HIDE DEF m
  <2> QED  BY <1>1, SettleCounts
<1>3. /\ j.metrics.started \in {0, 1} /\ j.metrics.outcomes = j.metrics.started
      /\ j.metrics.resolutions \in {0, 1} /\ j.metrics.resolutions <= j.metrics.started
      /\ j.metrics.pending_current = 0
  <2> HIDE DEF j
  <2> QED  BY <1>2 DEF Counted
<1>4. ASSUME NEW metrics,
             metrics.started \in {0, 1} /\ metrics.outcomes = metrics.started,
             metrics.resolutions \in {0, 1} /\ metrics.resolutions <= metrics.started,
             metrics.pending_current = 0
      PROVE  Finished([NoConnection EXCEPT !.place = "gone", !.metrics = metrics])
  BY <1>4 DEF NoConnection, Finished, Formed, Idle, Fields, NoRequest, NoSocket, End
<1>5. QED
  <2> DEFINE metrics == j.metrics
  <2>1. Finished([NoConnection EXCEPT !.place = "gone", !.metrics = metrics])
    <3> HIDE DEF metrics
    <3>1. metrics = j.metrics  BY DEF metrics
    <3> HIDE DEF j
    <3> QED  BY <1>3, <1>4, <3>1, Zenon
  <2> QED  BY <2>1, ZenonT(40) DEF listener_connection_destroy

----------------------------------------------------------------------------

\* It waits for a verdict, with a deadline.
Waits(k) == k.waiter /\ k.timer \in {"ROUTE", "SHORT_LIFETIME"}

\* Storing the waiter's verdict changes nothing else.
LEMMA WaiterSet ==
    ASSUME NEW k, Formed(k), NEW v
    PROVE  LET j == [k EXCEPT !.waiter_status = v]
           IN  Beside(k, j) /\ Kept(k, j)
BY DEF Formed, Beside, Kept, Idle, Fields

\* A handler's answer touches no counter.
LEMMA AnswerBeside ==
    ASSUME NEW k, Formed(k), NEW p
    PROVE  /\ Beside(k, Answer(k, p)) /\ Kept(k, Answer(k, p))
           /\ Answer(k, p).progress = p /\ Answer(k, p).route_metrics = k.route_metrics
BY Answers DEF Beside, Still, Carried, Kept

\* Asking for the verdict again leaves the connection waiting, or its request
\* settled.
LEMMA ProgressCounts ==
    ASSUME NEW k, Formed(k), Counted(k), NEW now
    PROVE  LET j == listener_connection_route_progress(k, now)
           IN  /\ Beside(k, j) /\ Counted(j)
               /\ j.progress \in {"PENDING", "READY", "FATAL"}
               /\ j.progress # "PENDING" => ~j.route_metrics.pending
<1> DEFINE status == route_waiter_progress(k, now)
           set == [k EXCEPT !.waiter_status = status]
           a == listener_metrics_route_pending(set)
           b == listener_metrics_route_resolution_record(set)
           d == listener_metrics_route_settle(b)
           p == IF status = "IO" THEN "FATAL" ELSE "READY"
<1> HIDE DEF status
<1>1. Beside(k, set) /\ Counted(set) /\ Formed(set)
  BY WaiterSet, CountedKept DEF Beside
<1> HIDE DEF set
<1>2. Beside(set, a) /\ Counted(a) /\ Formed(a)
  BY <1>1, PendingCounts DEF Beside
<1>3. Beside(set, b) /\ Counted(b) /\ Formed(b)
  BY <1>1, RecordCounts DEF Beside
<1> HIDE DEF a, b
<1>4. Beside(b, d) /\ Counted(d) /\ Formed(d) /\ ~d.route_metrics.pending
  BY <1>3, SettleCounts DEF Beside
<1> HIDE DEF d
<1>5. /\ Beside(k, Answer(a, "PENDING")) /\ Counted(Answer(a, "PENDING"))
      /\ Answer(a, "PENDING").progress = "PENDING"
  BY <1>1, <1>2, AnswerBeside, BesideOn, CountedKept, SMTT(30)
<1>6. /\ Beside(k, Answer(d, p)) /\ Counted(Answer(d, p))
      /\ Answer(d, p).progress \in {"READY", "FATAL"} /\ ~Answer(d, p).route_metrics.pending
  <2>1. p \in {"READY", "FATAL"}
    OBVIOUS
  <2> HIDE DEF p
  <2> QED  BY <1>1, <1>3, <1>4, <2>1, AnswerBeside, BesideOn, CountedKept, SMTT(30)
<1>7. listener_connection_route_progress(k, now) = IF status = "PENDING" THEN Answer(a, "PENDING") ELSE Answer(d, p)
  BY Zenon DEF listener_connection_route_progress, status, set, a, b, d
<1> HIDE DEF p
<1>8. QED
  BY <1>5, <1>6, <1>7

\* A connection that begins to wait.
LEMMA WaitingCounts ==
    ASSUME NEW k, Formed(k), Counted(k), k.waiter, k.state = "ROUTE_WAITING", NEW now
    PROVE  LET j == Waiting(k, now)
           IN  /\ Formed(j) /\ Counted(j)
               /\ j.place = k.place /\ j.closing = k.closing /\ j.forked = k.forked
               /\ j.state = k.state /\ (Idle(k) => Idle(j))
               /\ j.progress \in {"PENDING", "READY", "FATAL"}
               /\ j.progress = "PENDING" => Waits(j)
               /\ j.progress # "PENDING" => ~j.route_metrics.pending
<1> DEFINE m == listener_connection_route_progress(k, now)
           t == listener_connection_timer_set(m, "ROUTE", LISTENER_ROUTE_WAIT_TIMEOUT_SEC - now)
           j == listener_connection_interests_update(t)
<1>1. /\ Beside(k, m) /\ Counted(m) /\ Formed(m)
      /\ m.progress \in {"PENDING", "READY", "FATAL"}
      /\ m.progress # "PENDING" => ~m.route_metrics.pending
  BY ProgressCounts, Zenon DEF Beside
<1> HIDE DEF m
<1>2. Still(m, t) /\ Formed(t) /\ t.timer \in {"ROUTE", "SHORT_LIFETIME"}
  BY <1>1, TimerSet, StillFormed
<1> HIDE DEF t
<1>3. Still(m, j) /\ j.timer = t.timer /\ j.progress = "PENDING"
  BY <1>2, Interests, StillOn
<1>4. Counted(j)
  BY <1>1, <1>3, CountedKept DEF Still, Carried
<1> HIDE DEF j
<1>5. Waiting(k, now) = IF m.progress # "PENDING" THEN m ELSE j
  BY Zenon DEF Waiting, Watched, m, t, j
<1>6. QED
  BY <1>1, <1>2, <1>3, <1>4, <1>5, ZenonT(40) DEF Still, Carried, Kept, Beside, Waits

\* What is true of a connection between two handlers, and of the one a
\* handler leaves: progress says whether it is to be destroyed.
Held(k) == k.route_metrics.pending => k.state = "ROUTE_WAITING" /\ Waits(k)
Calm(k) == Early(k) => Idle(k)
Sound(k) == Formed(k) /\ Counted(k) /\ Held(k) /\ Calm(k)

\* What a handler leaves up to the decision on a settled route.
Led(k, j) ==
    /\ Sound(j) /\ j.place = k.place /\ j.closing = k.closing /\ j.forked = k.forked
    /\ Early(j) => Early(k)
    /\ j.progress = "READY" => ~j.route_metrics.pending
    /\ j.state = "ROUTE_WAITING" => Waits(j) \/ j.progress = "READY" \/ j.progress \in Ending

\* A connection that starts to wait is sound.
LEMMA WaitingLed ==
    ASSUME NEW k, Formed(k), Counted(k), k.waiter, k.state = "ROUTE_WAITING", Idle(k), NEW now
    PROVE  Led(k, Waiting(k, now))
BY WaitingCounts DEF Led, Sound, Held, Calm, Early, Ending

\* A connection that no request holds, for which nothing has been dialled.
Fresh(k) == Formed(k) /\ Counted(k) /\ ~k.route_metrics.pending /\ Early(k) /\ Idle(k)

\* A connection with no request pending may be answered at once.
LEMMA FreshAnswered ==
    ASSUME NEW k, NEW j, Early(k), Fresh(j), j.place = k.place, j.closing = k.closing, j.forked = k.forked,
           NEW p \in Ending \cup {"READY"}
    PROVE  Led(k, Answer(j, p))
<1>1. /\ Beside(j, Answer(j, p)) /\ Kept(j, Answer(j, p))
      /\ Answer(j, p).progress = p /\ Answer(j, p).route_metrics = j.route_metrics
  BY AnswerBeside DEF Fresh
<1>2. Counted(Answer(j, p))
  BY <1>1, CountedKept DEF Fresh
<1> DEFINE i == Answer(j, p)
<1> HIDE DEF i
<1>3. QED
  BY <1>1, <1>2 DEF Led, Sound, Held, Calm, Beside, Fresh, i

\* Asking the route service leaves the connection waiting with its timer
\* armed, or its request settled (listener_connection_route_start).
LEMMA WaitsLed ==
    ASSUME NEW k, Fresh(k), NEW w, NEW now, NEW j \in RouteWaits(k, w, now)
    PROVE  Led(k, j)
<1> DEFINE waiting == [k EXCEPT !.state = "ROUTE_WAITING", !.waiter = TRUE]
           refused == [waiting EXCEPT !.waiter = FALSE, !.waiter_status = "LIMIT"]
           s == listener_metrics_route_settle(refused)
           t == listener_metrics_route_settle(k)
<1>1. /\ Kept(k, waiting) /\ Formed(waiting) /\ Idle(waiting)
      /\ waiting.state = "ROUTE_WAITING" /\ waiting.waiter
  BY DEF Fresh, Formed, Kept, Idle, Fields
<1>2. Counted(waiting)
  BY <1>1, CountedKept DEF Fresh
<1> HIDE DEF waiting
<1>3. ASSUME NEW v
      PROVE  Led(k, Waiting([waiting EXCEPT !.answer = v], now))
  <2> DEFINE b == [waiting EXCEPT !.answer = v]
  <2>1. Kept(waiting, b) /\ Formed(b) /\ Idle(b) /\ b.state = "ROUTE_WAITING" /\ b.waiter
    BY <1>1 DEF Formed, Kept, Idle, Fields
  <2>2. Counted(b)
    BY <1>2, <2>1, CountedKept
  <2> HIDE DEF b
  <2>3. Led(b, Waiting(b, now))
    BY <2>1, <2>2, WaitingLed
  <2>4. Led(k, Waiting(b, now))
    BY <1>1, <2>1, <2>3 DEF Led, Kept, Fresh
  <2> QED  BY <2>4 DEF b
<1>4. /\ Kept(waiting, refused) /\ Formed(refused) /\ Idle(refused) /\ refused.state = "ROUTE_WAITING"
  BY <1>1 DEF Formed, Kept, Idle, Fields
<1>5. Counted(refused)
  BY <1>2, <1>4, CountedKept
<1> HIDE DEF refused
<1>6. Beside(refused, s) /\ Counted(s) /\ ~s.route_metrics.pending
  BY <1>4, <1>5, SettleCounts
<1>7. Beside(k, t) /\ Counted(t) /\ ~t.route_metrics.pending
  BY SettleCounts DEF Fresh
<1> HIDE DEF s, t
<1>8. Fresh(s) /\ s.place = k.place /\ s.closing = k.closing /\ s.forked = k.forked
  BY <1>1, <1>4, <1>6 DEF Fresh, Beside, Kept, Early
<1>9. Fresh(t) /\ t.place = k.place /\ t.closing = k.closing /\ t.forked = k.forked
  BY <1>7 DEF Fresh, Beside, Early
<1>10. Led(k, Answer(s, "READY")) /\ Led(k, Answer(t, "ABORT"))
  BY <1>8, <1>9, FreshAnswered DEF Fresh, Ending
<1>11. QED
  <2>1. \/ \E v : j = Waiting([waiting EXCEPT !.answer = v], now)
        \/ j = Answer(s, "READY") \/ j = Answer(t, "ABORT")
    BY Zenon DEF RouteWaits, waiting, refused, s, t
  <2> QED  BY <1>3, <1>10, <2>1, Zenon

\* So does the whole of listener_connection_route_start.
LEMMA StartLed ==
    ASSUME NEW k, Fresh(k), NEW w, NEW now, NEW j \in listener_connection_route_start(k, w, now)
    PROVE  Led(k, j)
<1> DEFINE d == [k EXCEPT !.dispatch = Parsed[w][k.inbound]]
           m == listener_metrics_route_start(d)
           r == listener_metrics_route_resolution_record(m)
           s == listener_metrics_route_settle(r)
<1>1. Kept(k, d) /\ Beside(k, d) /\ Fresh(d)
  <2>1. Kept(k, d) /\ Beside(k, d)
    BY DEF Fresh, Formed, Kept, Beside, Idle, Fields
  <2> HIDE DEF d
  <2> QED  BY <2>1, CountedKept DEF Fresh, Kept, Beside, Early
<1> HIDE DEF d
<1>2. Beside(d, m) /\ Fresh(m)
  <2>1. Beside(d, m) /\ Counted(m) /\ m.route_metrics.pending = d.route_metrics.pending
    BY <1>1, StartCounts, Zenon DEF Fresh
  <2> HIDE DEF m
  <2> QED  BY <1>1, <2>1 DEF Fresh, Beside, Early
<1> HIDE DEF m
<1>3. Beside(m, r) /\ Counted(r)
  BY <1>2, RecordCounts DEF Fresh
<1> HIDE DEF r
<1>4. Beside(r, s) /\ Counted(s) /\ ~s.route_metrics.pending
  BY <1>3, SettleCounts, Zenon DEF Beside
<1> HIDE DEF s
<1>5. Fresh(s) /\ s.place = k.place /\ s.closing = k.closing /\ s.forked = k.forked
  BY <1>1, <1>2, <1>3, <1>4, ZenonT(40) DEF Fresh, Beside, Early
<1>6. Led(k, Answer(d, "ABORT")) /\ Led(k, Answer(s, "READY"))
  BY <1>1, <1>5, FreshAnswered, Zenon DEF Fresh, Ending, Kept
<1>7. ASSUME j \in RouteWaits(m, w, now)
      PROVE  Led(k, j)
  <2>1. Led(m, j)
    BY <1>2, <1>7, WaitsLed
  <2> QED  BY <1>1, <1>2, <2>1 DEF Led, Beside, Fresh
<1>8. QED
  <2>1. j \in {Answer(d, "ABORT")} \/ j \in {Answer(s, "READY")} \/ j \in RouteWaits(m, w, now)
    BY Zenon DEF listener_connection_route_start, RouteStart, d, m, r, s
  <2> QED  BY <1>6, <1>7, <2>1

----------------------------------------------------------------------------

\* What becomes of a client whose request is settled: it is in a state of the
\* exchange, or it is to be destroyed.
Ended(k, j) ==
    /\ Formed(j) /\ j.place = k.place /\ j.metrics = k.metrics /\ j.route_metrics = k.route_metrics
    /\ Early(j) => j.state = k.state /\ (Idle(k) => Idle(j)) /\ (j.closing \/ j.progress \in Ending)
    /\ j.forked => j.closing

\* A step of the exchange is an end of the wait.
LEMMA ExchangedEnds ==
    ASSUME NEW k, ~k.forked, NEW j, Exchanged(k, j)
    PROVE  Ended(k, j)
BY DEF Exchanged, Kept, Ended

\* Giving the route back undoes nothing of it
\* (listener_connection_route_release).
LEMMA ReleaseEnds ==
    ASSUME NEW k, NEW outcomes, \A j \in outcomes : Ended(k, j),
           NEW i \in listener_connection_route_release(outcomes)
    PROVE  Ended(k, i)
<1> DEFINE r(j) == [j EXCEPT !.waiter = FALSE, !.answer = "PENDING"]
<1>1. ASSUME NEW j \in outcomes
      PROVE  Ended(k, r(j)) /\ Ended(k, Answer(r(j), "FATAL"))
  <2> DEFINE m == r(j)
  <2>1. Ended(k, j)
    BY <1>1, Zenon
  <2>2. Kept(j, m) /\ j.state = m.state /\ (Idle(j) => Idle(m)) /\ m.progress = j.progress
    BY <2>1, Zenon DEF Ended, Formed, Kept, Idle, Fields
  <2> HIDE DEF m
  <2>3. Still(m, Answer(m, "FATAL")) /\ Answer(m, "FATAL").progress = "FATAL"
    BY <2>2, Answers, Zenon DEF Kept
  <2>4. Ended(k, m)
    BY <2>1, <2>2, Zenon DEF Ended, Kept, Early
  <2>5. Ended(k, Answer(m, "FATAL"))
    BY <2>3, <2>4 DEF Ended, Still, Carried, Kept, Early, Ending
  <2> QED  BY <2>4, <2>5, Zenon DEF m
<1>2. \E j \in outcomes : i = r(j) \/ i = Answer(r(j), "FATAL")
  BY Zenon DEF listener_connection_route_release
<1> HIDE DEF r
<1>3. QED
  BY <1>1, <1>2

\* Dialling the upstream begins the exchange or ends the connection
\* (listener_connection_short_start).
LEMMA ShortConnectEnds ==
    ASSUME NEW k, Formed(k), NEW now, NEW j \in ShortConnect(k, now)
    PROVE  Exchanged(k, j)
<1> DEFINE up == [k EXCEPT !.dial = "up", !.buffer["upstream"] = NoBuffer]
           a == Enter(up, "SHORT_RELAYING", now)
           trying == [k EXCEPT !.dial = "trying", !.state = "SHORT_CONNECTING", !.since = 0]
           b == listener_connection_timer_arm_short(trying, "SHORT_CONNECT", now, LISTENER_SHORT_CONNECT_TIMEOUT_SEC)
<1>1. Kept(k, up) /\ Kept(k, trying) /\ trying.state = "SHORT_CONNECTING"
  BY Zenon DEF Formed, Kept, Fields
<1> HIDE DEF up, trying
<1>2. Kept(k, a) /\ a.state = "SHORT_RELAYING"
  BY <1>1, EnterKeeps DEF Kept
<1>3. Kept(k, b) /\ b.state = "SHORT_CONNECTING"
  BY <1>1, Steady DEF Carried, Kept
<1> HIDE DEF a, b
<1>4. ASSUME NEW m, Kept(k, m), ~Early(m)
      PROVE  Exchanged(k, listener_connection_short_drive(m, now, FALSE))
  <2> DEFINE i == listener_connection_short_drive(m, now, FALSE)
  <2>1. Carried(m, i)
    BY <1>4, DriveKeeps, Zenon DEF Kept
  <2> HIDE DEF i
  <2>2. Exchanged(k, i)
    BY <1>4, <2>1 DEF Exchanged, Carried, Kept, Early
  <2> QED  BY <2>2, Zenon DEF i
<1>5. \/ j = listener_connection_short_failure(k, now)
      \/ j = listener_connection_short_drive(a, now, FALSE)
      \/ j = listener_connection_short_drive(b, now, FALSE)
  BY Zenon DEF ShortConnect, a, b, up, trying
<1>6. QED
  BY <1>2, <1>3, <1>4, <1>5, FailureKeeps, Zenon DEF Early

\* So does the whole of listener_connection_short_start.
LEMMA ShortStartEnds ==
    ASSUME NEW k, Formed(k), NEW plan, NEW now, NEW j \in ShortStart(k, plan, now)
    PROVE  Exchanged(k, j)
<1> DEFINE prepared == [k EXCEPT !.buffer["upstream"] = Text(plan.response), !.buffer["client"] = NoBuffer,
                                 !.inbound = <<>>, !.request = plan.request]
           e == Enter(prepared, "SHORT_RESPONDING", now)
           d == listener_connection_short_drive(e, now, FALSE)
<1>1. Kept(k, prepared) /\ prepared.state = k.state /\ (Idle(k) => Idle(prepared))
  BY Zenon DEF Formed, Kept, Idle, Fields
<1> HIDE DEF prepared
<1>2. Kept(k, e) /\ e.state = "SHORT_RESPONDING"
  BY <1>1, EnterKeeps DEF Kept
<1> HIDE DEF e
<1>3. Carried(e, d)
  BY <1>2, DriveKeeps, Zenon DEF Kept
<1> HIDE DEF d
<1>4. Exchanged(k, d)
  BY <1>2, <1>3, Zenon DEF Exchanged, Carried, Kept, Early
<1>5. Exchanged(k, Answer(k, "ABORT"))
  BY Answers, Zenon DEF Exchanged, Still, Carried, Ending
<1>6. ASSUME j \in ShortConnect(prepared, now)
      PROVE  Exchanged(k, j)
  <2>1. Exchanged(prepared, j)
    BY <1>1, <1>6, ShortConnectEnds, Zenon DEF Kept
  <2> QED  BY <1>1, <2>1, Zenon DEF Exchanged, Kept
<1>7. j \in {Answer(k, "ABORT")} \/ j \in {d} \/ j \in ShortConnect(prepared, now)
  BY Zenon DEF ShortStart, prepared, e, d
<1>8. QED
  BY <1>4, <1>5, <1>6, <1>7, Zenon

\* A client no worker is free for is refused or dropped
\* (listener_connection_refusal_start).
LEMMA RefusalEnds ==
    ASSUME NEW k, Formed(k), ~k.forked, NEW w, NEW now, NEW j \in listener_connection_refusal_start(k, w, now)
    PROVE  Ended(k, j)
<1> DEFINE refused == [k EXCEPT !.state = "WORKER_REFUSING", !.inbound = <<>>, !.buffer["upstream"] = Text(<<"full">>)]
           t == listener_connection_timer_arm_short(refused, "WORKER_REFUSAL", now, LISTENER_WORKER_REFUSAL_TIMEOUT_SEC)
           d == listener_connection_short_drive(t, now, FALSE)
<1>1. Kept(k, refused) /\ refused.state = "WORKER_REFUSING"
  BY DEF Formed, Kept, Fields
<1> HIDE DEF refused
<1>2. Carried(refused, t)
  BY <1>1, Steady DEF Kept
<1> HIDE DEF t
<1>3. Carried(t, d)
  BY <1>2, CarriedFormed, DriveKeeps, Zenon
<1> HIDE DEF d
<1>4. Ended(k, d)
  BY <1>1, <1>2, <1>3, Zenon DEF Ended, Carried, Kept, Early
<1>5. Ended(k, Answer(k, "CLOSED"))
  BY Answers DEF Ended, Still, Carried, Kept, Ending
<1>6. \A i \in listener_connection_route_release({d}) : Ended(k, i)
  BY <1>4, ReleaseEnds
<1>7. j \in {Answer(k, "CLOSED")} \/ j \in listener_connection_route_release({d})
  BY Zenon DEF listener_connection_refusal_start, refused, t, d
<1>8. QED
  BY <1>5, <1>6, <1>7, Zenon

\* Once its route is settled a client has a worker, an exchange, an answer,
\* or is to be destroyed (listener_connection_ready).
LEMMA ReadyEnds ==
    ASSUME NEW k, Formed(k), ~k.forked, NEW w, NEW now, NEW workers, NEW j \in listener_connection_ready(k, w, now, workers)
    PROVE  Ended(k, j)
<1> DEFINE S == ShortStart(k, Short[w][k.inbound][RouteStatus(k)], now)
           forked == [k EXCEPT !.closing = TRUE, !.forked = TRUE]
           failed == [k EXCEPT !.closing = TRUE]
           D == {Answer(forked, "PENDING")} \cup {Answer(failed, "PENDING") : x \in Faults \cap {"fork"}}
<1>1. \A i \in S : Ended(k, i)
  BY ShortStartEnds, ExchangedEnds
<1>2. Ended(k, forked) /\ Ended(k, failed) /\ forked.closing /\ failed.closing
  BY Zenon DEF Ended, Formed, Idle, Fields
<1> HIDE DEF forked, failed
<1>3. ASSUME NEW m, Ended(k, m), m.closing
      PROVE  Ended(k, Answer(m, "PENDING"))
  BY <1>3, Answers DEF Ended, Still, Carried, Kept, Early
<1>4. \A i \in D : Ended(k, i)
  BY <1>2, <1>3
<1> HIDE DEF S, D
<1>5. \/ j \in listener_connection_route_release(S)
      \/ j \in listener_connection_refusal_start(k, w, now)
      \/ j \in listener_connection_route_release(D)
  BY Zenon DEF listener_connection_ready, listener_connection_short_start, listener_connection_dispatch, S, D, forked, failed
<1>6. QED
  BY <1>1, <1>4, <1>5, ReleaseEnds, RefusalEnds

----------------------------------------------------------------------------

\* A waiter whose own deadline has passed has its answer.
LEMMA ProgressTimed ==
    ASSUME NEW k, Formed(k), Counted(k), NEW now, k.timer = "ROUTE", Past(k.left, now)
    PROVE  LET j == listener_connection_route_progress(k, now)
           IN  j.progress \in {"READY", "FATAL"} /\ ~j.route_metrics.pending
<1> DEFINE status == route_waiter_progress(k, now)
           m == listener_metrics_route_settle(listener_metrics_route_resolution_record([k EXCEPT !.waiter_status = status]))
           p == IF status = "IO" THEN "FATAL" ELSE "READY"
<1>1. status # "PENDING"
  BY Zenon DEF route_waiter_progress
<1>2. Formed(m)
  BY WaiterSet, CountedKept, RecordCounts, SettleCounts, Zenon DEF Beside
<1>3. listener_connection_route_progress(k, now) = Answer(m, p)
  BY <1>1, Zenon DEF listener_connection_route_progress
<1>4. p \in {"READY", "FATAL"}
  OBVIOUS
<1> HIDE DEF m, p
<1>5. listener_connection_route_progress(k, now).progress = p
  BY <1>2, <1>3, Answers
<1>6. QED
  BY <1>4, <1>5, ProgressCounts, Zenon

\* A timer that fires, and a request that is held only while its own timer or
\* the lifetime's is armed.
LEMMA TimeoutLed ==
    ASSUME NEW k, Sound(k), k.state = "ROUTE_WAITING" => Waits(k), NEW w, NEW now
    PROVE  Led(k, listener_connection_timeout(k, w, now))
<1> DEFINE current == IF k.rearmed THEN 0 ELSE now
           read == [k EXCEPT !.fired = FALSE]
           r == listener_connection_route_progress(read, current)
           f == listener_connection_short_failure(read, current)
           p == IF k.timer = "GRACE" /\ Identity[w][k.inbound].version # "UNIDENT" THEN "READY" ELSE "ABORT"
<1> HIDE DEF current
<1>0. Formed(k) /\ Counted(k)
  BY DEF Sound
<1>1. Kept(k, read) /\ Beside(k, read)
  BY <1>0 DEF Formed, Kept, Beside, Idle, Fields
<1> HIDE DEF read
<1>2. Counted(read) /\ Formed(read)
  BY <1>0, <1>1, CountedKept DEF Kept
<1>3. ASSUME NEW j, NEW q, Beside(k, j), Kept(k, j),
             q \in {"PENDING", "CLOSED", "ABORT"} \/ ~k.route_metrics.pending
      PROVE  Led(k, Answer(j, q))
  <2> DEFINE i == Answer(j, q)
  <2>1. Beside(j, i) /\ Kept(j, i) /\ i.progress = q
    BY <1>3, AnswerBeside DEF Kept
  <2> HIDE DEF i
  <2>2. Counted(i)
    BY <1>0, <1>3, <2>1, CountedKept, Zenon
  <2>3. Led(k, i)
    BY <1>3, <2>1, <2>2 DEF Led, Sound, Held, Calm, Waits, Beside, Kept, Early
  <2> QED  BY <2>3 DEF i
<1>4. Led(k, Answer(k, "PENDING")) /\ Led(k, Answer(read, "PENDING")) /\ Led(k, Answer(read, "CLOSED"))
  <2>1. Beside(k, k) /\ Kept(k, k)
    BY <1>0, Zenon DEF Beside, Kept
  <2> QED  BY <1>1, <1>3, <2>1, Zenon
<1>5. k.timer = "ROUTE" /\ Past(k.left, current) => Led(k, r)
  <2>1. Beside(read, r) /\ Counted(r)
    BY <1>2, ProgressCounts, Zenon
  <2>2. ASSUME k.timer = "ROUTE", Past(k.left, current)
        PROVE  r.progress \in {"READY", "FATAL"} /\ ~r.route_metrics.pending
    <3>1. read.timer = "ROUTE" /\ read.left = k.left
      BY <1>0, <2>2, Zenon DEF read, Formed, Fields
    <3> QED  BY <1>2, <2>2, <3>1, ProgressTimed
  <2> HIDE DEF r
  <2> QED  BY <1>1, <2>1, <2>2, Zenon DEF Led, Sound, Held, Calm, Waits, Beside, Early, Ending
<1>6. ~k.route_metrics.pending => Led(k, f)
  <2>1. Exchanged(read, f)
    BY <1>2, FailureKeeps
  <2> HIDE DEF f
  <2>2. Counted(f)
    BY <1>2, <2>1, CountedKept, Zenon DEF Exchanged
  <2> QED  BY <1>1, <2>1, <2>2 DEF Led, Sound, Held, Calm, Exchanged, Beside, Kept, Early, Ending
<1>7. k.timer \notin {"ROUTE", "SHORT_LIFETIME"} => Led(k, Answer(read, p))
  <2>1. ASSUME k.timer \notin {"ROUTE", "SHORT_LIFETIME"} PROVE ~k.route_metrics.pending
    BY <2>1 DEF Sound, Held, Waits
  <2> QED  BY <1>1, <1>3, <2>1
<1>8. k.timer = "SHORT_CONNECT" => ~k.route_metrics.pending
  BY DEF Sound, Held, Waits
<1> HIDE DEF r, f, p
<1>9. listener_connection_timeout(k, w, now) =
        IF ~k.fired THEN Answer(k, "PENDING")
        ELSE IF ~Past(k.left, current) THEN Answer(read, "PENDING")
        ELSE CASE k.timer = "ROUTE" -> r
               [] k.timer = "SHORT_CONNECT" -> f
               [] k.timer \in {"SHORT_IDLE", "SHORT_LIFETIME", "WORKER_REFUSAL"} -> Answer(read, "CLOSED")
               [] OTHER -> Answer(read, p)
  BY Zenon DEF listener_connection_timeout, current, read, r, f, p
<1>10. QED
  BY <1>4, <1>5, <1>6, <1>7, <1>8, <1>9, Zenon

\* Two sound steps of a handler are together a sound one.
LEMMA LedOn ==
    ASSUME NEW k, NEW j, NEW i, Led(k, j), Led(j, i)
    PROVE  Led(k, i)
BY DEF Led

\* A handler may end with an answer that ends the connection, or that it
\* pends while it still waits.
LEMMA AnswerLed ==
    ASSUME NEW k, NEW j, Led(k, j), NEW p, p \in Ending \/ (p = "PENDING" /\ (j.state = "ROUTE_WAITING" => Waits(j)))
    PROVE  Led(k, Answer(j, p))
<1>1. Beside(j, Answer(j, p)) /\ Kept(j, Answer(j, p)) /\ Answer(j, p).progress = p
  BY AnswerBeside, ZenonT(40) DEF Led, Sound
<1>2. Counted(Answer(j, p))
  BY <1>1, CountedKept, Zenon DEF Led, Sound
<1> DEFINE i == Answer(j, p)
<1>3. Led(k, i)
  <2> HIDE DEF i
  <2> QED  BY <1>1, <1>2, Zenon DEF i, Led, Sound, Held, Calm, Waits, Beside, Kept, Early, Ending
<1>4. QED
  BY <1>3, Zenon

\* The handler of any event leaves the connection sound: whatever waits has
\* its timer, whatever is pending waits (the loop's dispatch on the event and
\* the state).
LEMMA HandledLed ==
    ASSUME NEW k, Sound(k), k.state = "ROUTE_WAITING" => Waits(k), NEW w, NEW e
    PROVE  Led(k, Handled(k, w, e))
<1>0. Formed(k) /\ Counted(k)
  BY DEF Sound
<1>1. Led(k, listener_connection_timeout(k, w, lag))
  BY TimeoutLed, Zenon
<1> DEFINE r == listener_connection_receive(k, w, e.flags)
           s == listener_connection_short_event(k, e.kind, e.flags, lag)
<1>2. k.state = "INITIAL" => Led(k, r)
  <2>1. Still(k, r)
    BY <1>0, ReceiveKeeps
  <2> HIDE DEF r
  <2>2. Counted(r)
    BY <1>0, <2>1, CountedKept, Zenon DEF Still, Carried
  <2> QED  BY <2>1, <2>2 DEF Led, Sound, Held, Calm, Still, Carried, Kept, Early
<1>3. k.state = "ROUTE_WAITING" => Led(k, Answer(k, "PENDING"))
  <2>1. Beside(k, Answer(k, "PENDING")) /\ Kept(k, Answer(k, "PENDING")) /\ Answer(k, "PENDING").progress = "PENDING"
    BY <1>0, AnswerBeside
  <2>2. Counted(Answer(k, "PENDING"))
    BY <1>0, <2>1, CountedKept, ZenonT(40)
  <2> DEFINE i == Answer(k, "PENDING")
  <2>3. k.state = "ROUTE_WAITING" => Led(k, i)
    <3> HIDE DEF i
    <3> QED  BY <2>1, <2>2, Zenon DEF i, Led, Sound, Held, Calm, Waits, Beside, Kept, Early, Ending
  <2> QED  BY <2>3, Zenon
<1>4. ~Early(k) => Led(k, s)
  <2>1. ASSUME ~Early(k) PROVE Kept(k, s) /\ ~Early(s)
    BY <1>0, <2>1, ShortEventKeeps, ZenonT(40)
  <2> HIDE DEF s
  <2>2. ASSUME ~Early(k) PROVE Counted(s)
    BY <1>0, <2>1, <2>2, CountedKept, ZenonT(40)
  <2> QED  BY <2>1, <2>2, ZenonT(40) DEF Led, Sound, Held, Calm, Kept, Early
<1>5. k.state # "INITIAL" /\ k.state # "ROUTE_WAITING" => ~Early(k)
  BY Zenon DEF Early
<1>6. QED
  BY <1>1, <1>2, <1>3, <1>4, <1>5, Zenon DEF Handled

\* So does asking for a route where the packet is complete.
LEMMA RoutingLed ==
    ASSUME NEW k, NEW m, Led(k, m), NEW w, NEW j \in Routing(m, w)
    PROVE  Led(k, j)
<1>1. ASSUME m.progress = "READY", m.state = "INITIAL", j \in listener_connection_route_start(m, w, lag)
      PROVE  Led(k, j)
  <2>1. Fresh(m)
    BY <1>1, ZenonT(40) DEF Led, Sound, Calm, Fresh, Early
  <2> QED  BY <1>1, <2>1, StartLed, LedOn, Zenon
<1>2. QED
  BY <1>1, Zenon DEF Routing

\* And closing a client that left while it was served.
LEMMA UncancelledLed ==
    ASSUME NEW k, NEW j, Led(k, j), NEW e
    PROVE  Led(k, Uncancelled(j, e))
BY AnswerLed, Zenon DEF Uncancelled, Ending

\* What a handler leaves to be committed.
Left(k, j) ==
    /\ Sound(j) /\ j.place = k.place /\ (Early(j) => Early(k)) /\ (j.forked => j.closing)
    /\ j.state = "ROUTE_WAITING" => Waits(j) \/ j.closing \/ j.progress \in Ending

\* Acting on a settled route leaves a sound connection, or one to be
\* destroyed.
LEMMA DecidedLeft ==
    ASSUME NEW k, ~k.forked, NEW j, Led(k, j), NEW w, NEW workers,
           NEW i \in IF j.progress = "READY" THEN listener_connection_ready(j, w, lag, workers) ELSE {j}
    PROVE  Left(k, i)
<1>1. ASSUME j.progress = "READY", i \in listener_connection_ready(j, w, lag, workers)
      PROVE  Left(k, i)
  <2>1. Ended(j, i)
    BY <1>1, ReadyEnds DEF Led, Sound
  <2>2. Counted(i)
    BY <2>1, Zenon DEF Ended, Counted, Led, Sound
  <2> QED  BY <1>1, <2>1, <2>2, ZenonT(40) DEF Left, Led, Ended, Sound, Held, Calm, Early
<1>2. ASSUME j.progress # "READY"
      PROVE  Left(k, j)
  BY <1>2 DEF Left, Led
<1>3. QED
  BY <1>1, <1>2

\* What the whole of an event's handling leaves.
LEMMA EventLeft ==
    ASSUME NEW k, Sound(k), k.state = "ROUTE_WAITING" => Waits(k), ~k.forked, NEW w, NEW e,
           NEW j \in Routing(Handled(k, w, e), w), NEW i \in Decided(Uncancelled(j, e), w)
    PROVE  Left(k, i)
<1> DEFINE h == Handled(k, w, e)
           u == Uncancelled(j, e)
<1>1. Led(k, h)
  BY HandledLed, Zenon
<1> HIDE DEF h
<1>2. Led(k, j)
  BY <1>1, RoutingLed, Zenon DEF h
<1>3. Led(k, u)
  BY <1>2, UncancelledLed, Zenon
<1>4. i \in IF u.progress = "READY" THEN listener_connection_ready(u, w, lag, Len(pids)) ELSE {u}
  BY Zenon DEF Decided
<1> HIDE DEF u
<1>5. QED
  BY <1>3, <1>4, DecidedLeft

\* What asking a waiter for its verdict leaves
\* (listener_connections_route_progress).
LEMMA VerdictLeft ==
    ASSUME NEW k, Sound(k), k.state = "ROUTE_WAITING", Waits(k), ~k.forked, NEW w,
           NEW i \in LET j == listener_connection_route_progress(k, lag)
                     IN  IF j.progress = "READY" THEN listener_connection_ready(j, w, lag, Len(pids)) ELSE {j}
    PROVE  Left(k, i)
<1> DEFINE j == listener_connection_route_progress(k, lag)
<1>1. Beside(k, j) /\ Counted(j) /\ j.progress \in {"PENDING", "READY", "FATAL"}
      /\ (j.progress # "PENDING" => ~j.route_metrics.pending)
  BY ProgressCounts, Zenon DEF Sound
<1>2. i \in IF j.progress = "READY" THEN listener_connection_ready(j, w, lag, Len(pids)) ELSE {j}
  BY Zenon
<1> HIDE DEF j
<1>3. Led(k, j)
  BY <1>1 DEF Led, Sound, Held, Calm, Waits, Beside, Early, Ending
<1>4. QED
  BY <1>2, <1>3, DecidedLeft, Zenon

=============================================================================
