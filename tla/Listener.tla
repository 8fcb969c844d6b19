------------------------------ MODULE Listener ------------------------------
(***************************************************************************)
(* The listener's event loop and the life of a client connection in it     *)
(* (listener.c): accept, assemble the first packet, wait for its route,    *)
(* then hand the client to a worker process, answer it, refuse it, or      *)
(* carry a short exchange with the upstream.                               *)
(*                                                                         *)
(* One iteration of the loop is the phases of pc: Wake takes a batch of    *)
(* events, and the batch is then served while clients, upstreams, workers  *)
(* and the clock go on.  Handlers are functions from a connection to the   *)
(* connection they leave, or to the set of those they may leave, with what *)
(* they return in its field progress.  The route itself is resolved by     *)
(* other modules: here it is a verdict that comes at once, later or never. *)
(*                                                                         *)
(* Deadlines are kept as the ticks left until them.  lag is how many ticks *)
(* have passed since the loop sampled its clock, so a deadline has passed  *)
(* for a handler that uses the sample when left + lag <= 0.                *)
(*                                                                         *)
(* Left out: the order of the connection list and of a batch (any order),  *)
(* reloads, the retained generation and the start of the route runtime     *)
(* (RouteService), failing timer, epoll and memory calls.                  *)
(***************************************************************************)
EXTENDS ConnectionSetup, Integers, FiniteSets, FiniteSetsExt

CONSTANTS
    Conns,              \* the connections clients make
    Casts,              \* which client makes which of them
    Script,             \* what each client sends, its route, what should come of it
    Faults,             \* what may go wrong: "reset", "fork", "track", "descriptors",
                        \* "release", "route", "peer"; and "stop", the signal
    SOCKET_BYTES,       \* what each end's socket accepts before its peer reads
    RESPONSE_BYTES,     \* the length of an answer the listener makes itself
    LISTENER_SHORT_RELAY_BUFFER_BYTES,
    LISTENER_ACCEPT_BATCH,
    LISTENER_WORKER_LIMIT,
    connection_limit,
    LISTENER_INITIAL_TIMEOUT_SEC,
    LISTENER_LEGACY_PING_GRACE_MS,
    LISTENER_ROUTE_WAIT_TIMEOUT_SEC,
    LISTENER_SHORT_CONNECT_TIMEOUT_SEC,
    LISTENER_SHORT_RELAY_IDLE_TIMEOUT_SEC,
    LISTENER_SHORT_LIFETIME_TIMEOUT_SEC,
    LISTENER_WORKER_REFUSAL_TIMEOUT_SEC,
    LATENESS            \* the most the loop falls behind its clock sample

ASSUME AcceptBatch == LISTENER_ACCEPT_BATCH \in Nat
ASSUME Limits == connection_limit \in Nat /\ LISTENER_WORKER_LIMIT \in Nat

VARIABLES
    pc,                 \* the loop's phase
    requests,           \* what is left of the batch
    lag,                \* ticks since the clock was sampled
    who,                \* the client behind each connection
    conn,               \* the connections
    backlog,            \* clients the kernel has not handed over
    pids,               \* context->workers, in order
    child,              \* the worker processes
    signals,            \* what the signal descriptor holds
    connection_count,
    resolver_ready,     \* the resolver's descriptor has something to say
    shutting_down

vars == <<pc, requests, lag, who, conn, backlog, pids, child, signals, connection_count, resolver_ready, shutting_down>>

End == {"client", "upstream"}
Other(s) == IF s = "client" THEN "upstream" ELSE "client"
Least(a, b) == IF a < b THEN a ELSE b

NoBuffer == [data |-> <<>>, offset |-> 0]
NoSocket == [said |-> 0, unread |-> <<>>, fin |-> FALSE, rst |-> FALSE, flags |-> {}, out |-> 0, got |-> <<>>,
             read_closed |-> FALSE, read_paused |-> FALSE, write_closed |-> FALSE]
NoMetrics == [started |-> 0, outcomes |-> 0, resolutions |-> 0, pending_current |-> 0]
NoRequest == [started |-> FALSE, pending |-> FALSE, recorded |-> FALSE, settled |-> FALSE]

\* A connection and the two sockets it is between.  metrics holds what this
\* connection has added to the listener's counters; since is the time since a
\* byte of its exchange moved.
NoConnection ==
    [place |-> "away", progress |-> "none", state |-> "INITIAL", closing |-> FALSE, forked |-> FALSE,
     inbound |-> <<>>, dispatch |-> "none", waiter |-> FALSE, answer |-> "PENDING", waiter_status |-> "PENDING",
     timer |-> "none", left |-> 0, life |-> 0, fired |-> FALSE, rearmed |-> FALSE, since |-> 0,
     dial |-> "none", request |-> <<>>, buffer |-> [s \in End |-> NoBuffer], sock |-> [s \in End |-> NoSocket],
     route_metrics |-> NoRequest, metrics |-> NoMetrics]

NoRequests == [ready |-> {}, routes |-> {}, child |-> FALSE, stop |-> FALSE, accept |-> FALSE]

Init ==
    /\ pc = "wait" /\ requests = NoRequests /\ lag = 0
    /\ who \in Casts
    /\ conn = [c \in Conns |-> NoConnection]
    /\ backlog = <<>> /\ pids = <<>>
    /\ child = [c \in Conns |-> "none"]
    /\ signals = {} /\ connection_count = 0 /\ resolver_ready = FALSE /\ shutting_down = FALSE

Live == {c \in Conns : conn[c].place = "live"}
Answer(k, progress) == [k EXCEPT !.progress = progress]

----------------------------------------------------------------------------
(* What the packets mean, for every prefix a client may have sent by then. *)

Said(w) == FlattenSeq(Script[w].chunks)
Prefix(w) == {SubSeq(Said(w), 1, n) : n \in 0..Least(Len(Said(w)), BUFSIZ)}

Framing == [w \in DOMAIN Script |-> [s \in Prefix(w) |-> protocol_packet_length(s)]]
Identity == [w \in DOMAIN Script |-> [s \in Prefix(w) |-> protocol_identify(s)]]

Route(route, source) == IF source # <<>> /\ Len(source) < ROUTE_ENDPOINT_TEXT_SIZE THEN route ELSE "INVALID"

listener_connection_route_parse(s) ==
    LET seen == protocol_identify(s)
        modern == packet_read(s)
    IN  CASE seen.version \in {"LEGACYL2", "LEGACYL4"} ->
                Route("WORKER_WAIT", packet_read_legacy_login(s, seen.version).address)
          [] seen.version = "LEGACYM3" -> Route("SHORT_WAIT", packet_read_legacy_motd(s).address)
          [] seen.version = "MODERN2" /\ modern.version # 0 /\ modern.nextstate \in {Status, Login, Transfer} ->
                Route(IF modern.nextstate = Status THEN "SHORT_WAIT" ELSE "WORKER_WAIT", modern.address)
          [] seen.version \in {"ORIGPRO", "LEGACYL1", "LEGACYL3"} -> "WORKER_BYPASS"
          [] seen.version \in {"LEGACYM1", "LEGACYM2"} -> "SHORT_LOCAL"
          [] seen.version = "MODERN1" -> IF seen.intent = Status THEN "SHORT_LOCAL" ELSE "WORKER_BYPASS"
          [] OTHER -> "INVALID"

Parsed == [w \in DOMAIN Script |-> [s \in Prefix(w) |-> listener_connection_route_parse(s)]]

Verdicts == {"READY", "NO_ROUTE", "UNAVAILABLE"}
Short == [w \in DOMAIN Script |-> [s \in Prefix(w) |-> [r \in Verdicts \cup {"BYPASS"} |->
            connection_setup_short_prepare([route_status |-> r, endpoint |-> Script[w].endpoint], s)]]]

----------------------------------------------------------------------------
(* Timers, sockets and interests.                                          *)

listener_connection_timer_set(k, timer, left) ==
    LET capped == k.life < left
        effective == IF capped THEN k.life ELSE left
    IN  [k EXCEPT !.timer = IF capped THEN "SHORT_LIFETIME" ELSE timer, !.left = effective,
                  !.fired = effective <= 0, !.rearmed = TRUE]

\* The assembly deadline lies a fixed time before the lifetime's.
AssemblyLeft(k) == k.life - (LISTENER_SHORT_LIFETIME_TIMEOUT_SEC - LISTENER_INITIAL_TIMEOUT_SEC)

listener_connection_timer_arm(k, timer) ==
    IF timer = "GRACE" /\ LISTENER_LEGACY_PING_GRACE_MS < AssemblyLeft(k)
    THEN listener_connection_timer_set(k, "GRACE", LISTENER_LEGACY_PING_GRACE_MS)
    ELSE listener_connection_timer_set(k, "ASSEMBLY", AssemblyLeft(k))

listener_connection_timer_arm_short(k, timer, now, seconds) == listener_connection_timer_set(k, timer, seconds - now)

\* A connect that is not answered yet: the socket is neither readable nor
\* writable, and only the timer ends the wait.
Unanswered(k, s) == s = "upstream" /\ k.dial = "trying"

\* What the kernel would report of a socket, and what it reports of one
\* registered with these flags: errors and hang-ups are never masked.
Raised(k, s) ==
    LET q == k.sock[s]
    IN  {e \in {"IN", "OUT", "RDHUP", "ERR", "HUP"} :
            /\ ~Unanswered(k, s)
            /\ \/ e = "IN" /\ (q.unread # <<>> \/ q.fin \/ q.rst)
               \/ e = "OUT" /\ (q.out < SOCKET_BYTES[s] \/ q.rst \/ q.write_closed)
               \/ e = "RDHUP" /\ (q.fin \/ q.rst)
               \/ e = "ERR" /\ q.rst
               \/ e = "HUP" /\ (q.rst \/ (q.fin /\ q.write_closed))}
Reported(k, s) == IF k.sock[s].flags = {} THEN {} ELSE Raised(k, s) \cap (k.sock[s].flags \cup {"ERR", "HUP"})

\* recv until the buffer is full, the peer closed, or nothing is left.
listener_connection_buffer_receive(k, s, capacity) ==
    LET b == k.buffer[s]
        q == k.sock[s]
        offset == IF b.offset + Len(b.data) = capacity THEN 0 ELSE b.offset
        room == capacity - offset - Len(b.data)
        n == Least(Len(q.unread), room)
    IN  [k EXCEPT !.buffer[s] = [data |-> b.data \o SubSeq(q.unread, 1, n), offset |-> offset],
                  !.sock[s].unread = From(q.unread, n + 1),
                  !.sock[s].read_closed = q.read_closed \/ (n < room /\ q.fin /\ ~q.rst),
                  !.since = IF n > 0 THEN 0 ELSE @,
                  !.progress = IF n < room /\ q.rst THEN "ERROR" ELSE IF n > 0 THEN "MOVED" ELSE @]

\* send of as much as the socket takes; the rest stays.
Send(k, s, data) ==
    LET n == Least(Len(data), SOCKET_BYTES[s] - k.sock[s].out)
    IN  CASE data = <<>> -> k
          [] k.sock[s].rst -> Answer(k, "ERROR")
          [] OTHER -> [k EXCEPT !.sock[s].out = @ + n, !.sock[s].got = @ \o SubSeq(data, 1, n),
                                !.since = IF n > 0 THEN 0 ELSE @,
                                !.progress = IF n > 0 THEN "MOVED" ELSE @]
Unsent(k, s, data) == From(data, Least(Len(data), SOCKET_BYTES[s] - k.sock[s].out) + 1)

listener_connection_data_send(k) ==
    [Send(k, "upstream", k.request) EXCEPT
        !.request = IF k.sock["upstream"].rst THEN @ ELSE Unsent(k, "upstream", @)]

\* What was read from an end goes to the other.
listener_connection_buffer_send(k, s) ==
    LET b == k.buffer[s]
        rest == Unsent(k, Other(s), b.data)
    IN  [Send(k, Other(s), b.data) EXCEPT
            !.buffer[s] = IF k.sock[Other(s)].rst THEN @
                          ELSE [data |-> rest, offset |-> IF rest = <<>> THEN 0 ELSE @.offset + Len(b.data) - Len(rest)]]

ClientFlags(k) ==
    LET q == k.sock["client"]
        pending == k.buffer["upstream"].data # <<>>
    IN  CASE k.state = "ROUTE_WAITING" -> {"RDHUP"}
          [] k.state \in {"SHORT_RESPONDING", "WORKER_REFUSING"} -> IF pending THEN {"OUT"} ELSE {}
          [] OTHER -> (IF ~q.read_closed /\ ~q.read_paused THEN {"IN", "RDHUP"} ELSE {})
                      \cup (IF k.state = "SHORT_RELAYING" /\ pending THEN {"OUT"} ELSE {})

UpstreamFlags(k) ==
    LET q == k.sock["upstream"]
    IN  CASE k.state = "SHORT_CONNECTING" -> {"OUT", "RDHUP"}
          [] k.state = "SHORT_RELAYING" ->
                (IF ~q.read_closed /\ ~q.read_paused THEN {"IN", "RDHUP"} ELSE {})
                \cup (IF k.request # <<>> \/ k.buffer["client"].data # <<>> THEN {"OUT"} ELSE {})
          [] OTHER -> {}

Connected(k) == k.dial \in {"trying", "up", "refused"}

\* Seeded fault: the rest of the request is not waited for.
interests_without_request(k) ==
    [k EXCEPT !.sock["client"].flags = ClientFlags(k),
              !.sock["upstream"].flags = IF Connected(k) THEN UpstreamFlags([k EXCEPT !.request = <<>>]) ELSE @,
              !.progress = "PENDING"]
listener_connection_interests_update(k) ==
    [k EXCEPT !.sock["client"].flags = ClientFlags(k),
              !.sock["upstream"].flags = IF Connected(k) THEN UpstreamFlags(k) ELSE @,
              !.progress = "PENDING"]

----------------------------------------------------------------------------
(* The counters of a route request (listener_metrics.c).                   *)

listener_metrics_route_start(k) ==
    IF k.route_metrics.started THEN k
    ELSE [k EXCEPT !.route_metrics.started = TRUE, !.metrics.started = @ + 1]

Counting(k) == k.route_metrics.started /\ ~k.route_metrics.settled

listener_metrics_route_pending(k) ==
    IF ~Counting(k) \/ k.route_metrics.pending THEN k
    ELSE [k EXCEPT !.route_metrics.pending = TRUE, !.metrics.pending_current = @ + 1]

listener_metrics_route_resolution_record(k) ==
    IF ~Counting(k) \/ k.route_metrics.recorded THEN k
    ELSE [k EXCEPT !.route_metrics.recorded = TRUE, !.metrics.resolutions = @ + 1]

\* Seeded fault: a settled request is settled again when its connection goes.
settle_again(k) ==
    IF ~k.route_metrics.started THEN k
    ELSE [k EXCEPT !.metrics.outcomes = @ + 1, !.route_metrics.settled = TRUE, !.route_metrics.pending = FALSE,
                   !.metrics.pending_current = IF k.route_metrics.pending THEN @ - 1 ELSE @]
listener_metrics_route_settle(k) ==
    IF ~Counting(k) THEN k
    ELSE [k EXCEPT !.metrics.outcomes = @ + 1, !.route_metrics.settled = TRUE, !.route_metrics.pending = FALSE,
                   !.metrics.pending_current = IF k.route_metrics.pending THEN @ - 1 ELSE @]

\* What remains of a connection is what it added to the counters.
listener_connection_destroy(k) ==
    LET recorded == IF k.route_metrics.pending THEN listener_metrics_route_resolution_record(k) ELSE k
    IN  [NoConnection EXCEPT !.place = "gone", !.metrics = listener_metrics_route_settle(recorded).metrics]

----------------------------------------------------------------------------
(* A short exchange.                                                       *)

\* The upstream's end is left in place once closed: its flags are gone.
listener_connection_upstream_close(k) ==
    IF Connected(k) THEN [k EXCEPT !.dial = "closed", !.sock["upstream"].flags = {}] ELSE k

Past(deadline, now) == deadline + now <= 0

Responded(sent, now) ==
    CASE sent.progress = "ERROR" \/ sent.buffer["upstream"].data = <<>> -> Answer(sent, "CLOSED")
      [] sent.progress = "MOVED" /\ sent.state = "SHORT_RESPONDING" ->
            listener_connection_interests_update(
                listener_connection_timer_arm_short(sent, "SHORT_IDLE", now, LISTENER_SHORT_RELAY_IDLE_TIMEOUT_SEC))
      [] OTHER -> listener_connection_interests_update(sent)
Responding(k, now, active) ==
    Responded(listener_connection_buffer_send(Answer(k, IF active THEN "MOVED" ELSE "none"), "upstream"), now)

\* Both directions are sent, the paused ends resumed, each close passed on.
SentUp(k) ==
    IF k.request = <<>> /\ k.progress # "ERROR" THEN listener_connection_buffer_send(k, "client") ELSE k
SentDown(k) == IF k.progress # "ERROR" THEN listener_connection_buffer_send(k, "upstream") ELSE k
ClosesPassed(k) ==
    LET drained(s) == k.buffer[s].data = <<>> /\ (s = "client" => k.request = <<>>)
        shut(s) == k.sock[s].read_closed /\ ~k.sock[Other(s)].write_closed /\ drained(s)
    IN  IF k.progress = "ERROR" \/ \E s \in End : shut(s) /\ k.sock[Other(s)].rst
        THEN Answer(k, "CLOSED")
        ELSE [k EXCEPT
                !.sock = [s \in End |-> [@[s] EXCEPT
                    !.read_paused = @ /\ k.buffer[s].data # <<>>,
                    !.write_closed = @ \/ shut(Other(s))]],
                !.progress = IF \A s \in End : k.sock[s].read_closed /\ drained(s) THEN "CLOSED" ELSE @]
Relayed(k, active) ==
    ClosesPassed(SentDown(SentUp(listener_connection_data_send(Answer(k, IF active THEN "MOVED" ELSE "none")))))

\* Seeded fault: a byte that moves does not put the idle deadline off.
relayed_without_rearm(k, now) ==
    IF k.progress = "CLOSED" THEN k ELSE listener_connection_interests_update(k)
RelayedOn(k, now) ==
    CASE k.progress = "CLOSED" -> k
      [] k.progress = "MOVED" ->
            listener_connection_interests_update(
                listener_connection_timer_arm_short(k, "SHORT_IDLE", now, LISTENER_SHORT_RELAY_IDLE_TIMEOUT_SEC))
      [] OTHER -> listener_connection_interests_update(k)

listener_connection_short_drive(k, now, active) ==
    CASE Past(k.life, now) -> Answer(k, "CLOSED")
      [] k.state \in {"SHORT_RESPONDING", "WORKER_REFUSING"} -> Responding(k, now, active)
      [] k.state = "SHORT_RELAYING" -> RelayedOn(Relayed(k, active), now)
      [] OTHER -> listener_connection_interests_update(k)

\* Entering a state of the exchange with the idle deadline armed.
Enter(k, state, now) ==
    listener_connection_timer_arm_short([k EXCEPT !.state = state, !.since = 0], "SHORT_IDLE", now,
                                        LISTENER_SHORT_RELAY_IDLE_TIMEOUT_SEC)

\* The answer prepared beforehand is still in the upstream's buffer.
listener_connection_short_failure(k, now) ==
    IF Past(k.life, now) THEN Answer(k, "CLOSED")
    ELSE listener_connection_short_drive(
            Enter(listener_connection_upstream_close(k), "SHORT_RESPONDING", now), now, FALSE)

\* Seeded fault: the prepared answer is not dropped once the upstream is there.
connect_complete_keeps_answer(k, now) ==
    CASE k.dial # "up" -> listener_connection_short_failure(k, now)
      [] Past(k.life, now) -> Answer(k, "CLOSED")
      [] OTHER -> Answer(Enter(k, "SHORT_RELAYING", now), "PENDING")
listener_connection_short_connect_complete(k, now) ==
    CASE k.dial # "up" -> listener_connection_short_failure(k, now)
      [] Past(k.life, now) -> Answer(k, "CLOSED")
      [] OTHER -> Answer(Enter([k EXCEPT !.buffer["upstream"] = NoBuffer], "SHORT_RELAYING", now), "PENDING")

Capacity(s) == IF s = "client" THEN BUFSIZ ELSE LISTENER_SHORT_RELAY_BUFFER_BYTES

\* Reading an end's bytes when its flags call for it, then driving both.
Received(k, s, flags) ==
    IF flags \cap {"IN", "HUP", "RDHUP"} # {}
    THEN listener_connection_buffer_receive(Answer(k, "none"), s, Capacity(s)) ELSE Answer(k, "none")
DriveReceived(k, s, now) ==
    LET full == Len(k.buffer[s].data) = Capacity(s)
    IN  IF k.progress = "ERROR" THEN Answer(k, "CLOSED")
        ELSE listener_connection_short_drive([k EXCEPT !.sock[s].read_paused = @ \/ full], now, k.progress = "MOVED")

ClientEvent(k, flags, now) ==
    CASE "ERR" \in flags -> Answer(k, "CLOSED")
      [] k.state \in {"SHORT_RESPONDING", "WORKER_REFUSING"} -> listener_connection_short_drive(k, now, FALSE)
      [] OTHER -> DriveReceived(Received(k, "client", flags), "client", now)
UpstreamEvent(k, flags, now) ==
    CASE k.progress # "PENDING" -> k
      [] k.state # "SHORT_RELAYING" -> listener_connection_short_drive(k, now, FALSE)
      [] "ERR" \in flags -> Answer(k, "CLOSED")
      [] OTHER -> DriveReceived(Received(k, "upstream", flags), "upstream", now)

listener_connection_short_event(k, kind, flags, now) ==
    CASE kind = "CLIENT" -> ClientEvent(k, flags, now)
      [] ~Connected(k) -> Answer(k, "PENDING")      \* a source of an earlier generation
      [] OTHER -> UpstreamEvent(IF k.state = "SHORT_CONNECTING" THEN listener_connection_short_connect_complete(k, now)
                                ELSE Answer(k, "PENDING"), flags, now)

----------------------------------------------------------------------------
(* From the first packet to a route.                                       *)

\* recv until the packet is whole or nothing is left.
Assembled(k, n, packet, identified, flags) ==
    LET armed == IF n = 0 THEN k
                 ELSE listener_connection_timer_arm(k, IF packet.status = "AMBIGUOUS" THEN "GRACE" ELSE "ASSEMBLY")
    IN  CASE n > 0 /\ packet.status = "COMPLETE" -> Answer(k, IF identified THEN "READY" ELSE "ABORT")
          [] n > 0 /\ (packet.status = "INVALID" \/ packet.size > BUFSIZ) -> Answer(k, "ABORT")
          [] Len(k.inbound) = BUFSIZ \/ k.sock["client"].rst -> Answer(armed, "ABORT")
          [] k.sock["client"].fin -> Answer(armed, IF packet.status = "AMBIGUOUS" /\ identified THEN "READY" ELSE "ABORT")
          [] OTHER -> Answer(armed, IF flags \cap {"ERR", "HUP", "RDHUP"} # {} THEN "ABORT" ELSE "PENDING")
listener_connection_receive(k, w, flags) ==
    LET q == k.sock["client"]
        n == Least(Len(q.unread), BUFSIZ - Len(k.inbound))
        inbound == k.inbound \o SubSeq(q.unread, 1, n)
    IN  Assembled([k EXCEPT !.inbound = inbound, !.sock["client"].unread = From(@, n + 1)], n,
                  Framing[w][inbound], Identity[w][inbound].version # "UNIDENT", flags)

listener_connection_route_cancelled(k, kind, flags) ==
    k.state = "ROUTE_WAITING" /\ kind = "CLIENT" /\ flags \cap {"ERR", "HUP", "RDHUP"} # {}

\* route_waiter_progress: the verdict once there is one, TIMEOUT past the
\* deadline its timer was set to.
route_waiter_progress(k, now) ==
    CASE k.answer # "PENDING" -> k.answer
      [] k.timer = "ROUTE" /\ Past(k.left, now) -> "TIMEOUT"
      [] OTHER -> "PENDING"

listener_connection_route_progress(k, now) ==
    LET status == route_waiter_progress(k, now)
        set == [k EXCEPT !.waiter_status = status]
    IN  IF status = "PENDING"
        THEN Answer(listener_metrics_route_pending(set), "PENDING")
        ELSE Answer(listener_metrics_route_settle(listener_metrics_route_resolution_record(set)),
                    IF status = "IO" THEN "FATAL" ELSE "READY")

\* Waiting for the verdict, unless it is there at once or cannot be had.
Watched(k, now) ==
    IF k.progress # "PENDING" THEN k
    ELSE listener_connection_interests_update(
            listener_connection_timer_set(k, "ROUTE", LISTENER_ROUTE_WAIT_TIMEOUT_SEC - now))
Waiting(k, now) == Watched(listener_connection_route_progress(k, now), now)

RouteWaits(counted, w, now) ==
    LET waiting == [counted EXCEPT !.state = "ROUTE_WAITING", !.waiter = TRUE]
        verdicts == Script[w].verdicts \cup (IF "route" \in Faults THEN {"IO"} ELSE {})
    IN  {Waiting([waiting EXCEPT !.answer = v], now) : v \in verdicts}
        \cup {Answer(listener_metrics_route_settle([waiting EXCEPT !.waiter = FALSE, !.waiter_status = "LIMIT"]), "READY") :
                x \in Faults \cap {"route"}}
        \cup {Answer(listener_metrics_route_settle(counted), "ABORT") : x \in Faults \cap {"peer"}}

RouteStart(k, w, now) ==
    CASE k.dispatch = "INVALID" -> {Answer(k, "ABORT")}
      [] k.dispatch \in {"SHORT_LOCAL", "WORKER_BYPASS"} ->
            {Answer(listener_metrics_route_settle(
                        listener_metrics_route_resolution_record(listener_metrics_route_start(k))), "READY")}
      [] OTHER -> RouteWaits(listener_metrics_route_start(k), w, now)
listener_connection_route_start(k, w, now) == RouteStart([k EXCEPT !.dispatch = Parsed[w][k.inbound]], w, now)

RouteStatus(k) ==
    CASE k.state = "INITIAL" -> "BYPASS"
      [] k.waiter_status \in {"READY", "NO_ROUTE"} -> k.waiter_status
      [] OTHER -> "UNAVAILABLE"

\* Giving the route's interests back; the listener does not go on when that
\* fails.
listener_connection_route_release(outcomes) ==
    LET released == {[k EXCEPT !.waiter = FALSE, !.answer = "PENDING"] : k \in outcomes}
    IN  released \cup {Answer(k, "FATAL") : k \in IF "release" \in Faults THEN released ELSE {}}

----------------------------------------------------------------------------
(* What becomes of a routed client.                                        *)

Text(response) == [data |-> [i \in 1..RESPONSE_BYTES |-> response[1]], offset |-> 0]

\* Connected at once, later, or not at all.
ShortConnect(k, now) ==
    {listener_connection_short_failure(k, now)}
    \cup {listener_connection_short_drive(j, now, FALSE) :
            j \in {Enter([k EXCEPT !.dial = "up", !.buffer["upstream"] = NoBuffer], "SHORT_RELAYING", now),
                   listener_connection_timer_arm_short(
                        [k EXCEPT !.dial = "trying", !.state = "SHORT_CONNECTING", !.since = 0],
                        "SHORT_CONNECT", now, LISTENER_SHORT_CONNECT_TIMEOUT_SEC)}}

ShortStart(k, plan, now) ==
    LET prepared == [k EXCEPT !.buffer["upstream"] = Text(plan.response), !.buffer["client"] = NoBuffer,
                              !.inbound = <<>>, !.request = plan.request]
    IN  CASE plan.action = "ABORT" \/ RESPONSE_BYTES > LISTENER_SHORT_RELAY_BUFFER_BYTES -> {Answer(k, "ABORT")}
          [] plan.action = "RESPOND" ->
                {listener_connection_short_drive(Enter(prepared, "SHORT_RESPONDING", now), now, FALSE)}
          [] OTHER -> ShortConnect(prepared, now)

listener_connection_short_start(k, w, now) ==
    listener_connection_route_release(ShortStart(k, Short[w][k.inbound][RouteStatus(k)], now))

listener_connection_refusal_start(k, w, now) ==
    LET refused == [k EXCEPT !.state = "WORKER_REFUSING", !.inbound = <<>>, !.buffer["upstream"] = Text(<<"full">>)]
    IN  IF Identity[w][k.inbound].version = "ORIGPRO" THEN {Answer(k, "CLOSED")}
        ELSE listener_connection_route_release(
                {listener_connection_short_drive(
                    listener_connection_timer_arm_short(refused, "WORKER_REFUSAL", now, LISTENER_WORKER_REFUSAL_TIMEOUT_SEC),
                    now, FALSE)})

\* fork: the parent's side of it.  The child is the Worker module's.
listener_connection_dispatch(k, w, now, workers) ==
    IF workers >= LISTENER_WORKER_LIMIT THEN listener_connection_refusal_start(k, w, now)
    ELSE listener_connection_route_release(
            {Answer([k EXCEPT !.closing = TRUE, !.forked = TRUE], "PENDING")}
            \cup {Answer([k EXCEPT !.closing = TRUE], "PENDING") : x \in Faults \cap {"fork"}})

listener_connection_ready(k, w, now, workers) ==
    IF k.dispatch \in {"SHORT_LOCAL", "SHORT_WAIT"}
    THEN listener_connection_short_start(k, w, now)
    ELSE listener_connection_dispatch(k, w, now, workers)

\* Seeded fault: the clock sample is used even for a timer armed after it.
timeout_by_sample(k, w, now) ==
    CASE ~k.fired -> Answer(k, "PENDING")
      [] ~Past(k.left, now) -> Answer([k EXCEPT !.fired = FALSE], "PENDING")
      [] k.timer = "ROUTE" -> listener_connection_route_progress([k EXCEPT !.fired = FALSE], now)
      [] k.timer = "SHORT_CONNECT" -> listener_connection_short_failure([k EXCEPT !.fired = FALSE], now)
      [] k.timer \in {"SHORT_IDLE", "SHORT_LIFETIME", "WORKER_REFUSAL"} -> Answer(k, "CLOSED")
      [] OTHER -> Answer(k, IF k.timer = "GRACE" /\ Identity[w][k.inbound].version # "UNIDENT" THEN "READY" ELSE "ABORT")
\* A timer armed again since the batch was taken is judged by a fresh clock.
listener_connection_timeout(k, w, now) ==
    LET current == IF k.rearmed THEN 0 ELSE now
        read == [k EXCEPT !.fired = FALSE]
    IN  IF ~k.fired THEN Answer(k, "PENDING")
        ELSE IF ~Past(k.left, current) THEN Answer(read, "PENDING")
        ELSE CASE k.timer = "ROUTE" -> listener_connection_route_progress(read, current)
               [] k.timer = "SHORT_CONNECT" -> listener_connection_short_failure(read, current)
               [] k.timer \in {"SHORT_IDLE", "SHORT_LIFETIME", "WORKER_REFUSAL"} -> Answer(read, "CLOSED")
               [] OTHER -> Answer(read, IF k.timer = "GRACE" /\ Identity[w][k.inbound].version # "UNIDENT" THEN "READY" ELSE "ABORT")

----------------------------------------------------------------------------
(* The loop.                                                               *)

Event(c, kind, flags) == [c |-> c, kind |-> kind, flags |-> flags]

Ready ==
    {e \in {Event(c, "CLIENT", Reported(conn[c], "client")) : c \in Live}
           \cup {Event(c, "UPSTREAM", Reported(conn[c], "upstream")) : c \in Live}
           \cup {Event(c, "TIMEOUT", IF conn[c].fired THEN {"IN"} ELSE {}) : c \in Live} : e.flags # {}}

Awake == Ready # {} \/ backlog # <<>> \/ signals # {} \/ resolver_ready \/ shutting_down

\* Seeded fault: a client that left is noticed only after the routes.
cancel_late(c, batch) == FALSE
Cancelled(c, batch) ==
    \E e \in batch : e.c = c /\ listener_connection_route_cancelled(conn[c], e.kind, e.flags)

\* listener_events_wait, and the cancellations that win over a verdict of the
\* same batch.  Phases with nothing to do are passed over.
Wake ==
    LET gone == {c \in Live : Cancelled(c, Ready)}
        routes == IF resolver_ready THEN {c \in Live \ gone : conn[c].state = "ROUTE_WAITING"} ELSE {}
    IN  /\ pc = "wait" /\ Awake
        /\ requests' = [ready |-> Ready, routes |-> routes, accept |-> backlog # <<>>,
                        child |-> "CHLD" \in signals, stop |-> "TERM" \in signals]
        /\ conn' = [c \in Conns |-> [conn[c] EXCEPT !.closing = @ \/ c \in gone]]
        /\ signals' = {} /\ resolver_ready' = FALSE
        /\ pc' = IF signals # {} \/ shutting_down THEN "signals" ELSE IF routes # {} THEN "route" ELSE "sockets"
        /\ UNCHANGED <<lag, who, backlog, pids, child, connection_count, shutting_down>>

\* waitpid for each worker; the last takes the place of one that is gone.
listener_workers_reap(list) ==
    LET reaped[n \in 0..Len(list)] ==
            IF n = 0 THEN [pids |-> list, index |-> 1]
            ELSE LET r == reaped[n - 1]
                 IN  IF child[r.pids[r.index]] = "zombie"
                     THEN [r EXCEPT !.pids = Front([@ EXCEPT ![r.index] = Last(r.pids)])]
                     ELSE [r EXCEPT !.index = @ + 1]
    IN  reaped[Len(list)].pids

DestroyAll == conn' = [c \in Conns |-> IF c \in Live THEN listener_connection_destroy(conn[c]) ELSE conn[c]]

\* Dead workers first.  SIGTERM then ends every connection at once, and the
\* loop only waits for the resolver to shut down.
Signals ==
    /\ pc = "signals"
    /\ pids' = IF requests.child THEN listener_workers_reap(pids) ELSE pids
    /\ child' = [c \in Conns |-> IF child[c] = "zombie" /\ c \in Range(pids) \ Range(pids') THEN "reaped" ELSE child[c]]
    /\ \/ /\ requests.stop \/ shutting_down
          /\ shutting_down' = TRUE /\ connection_count' = 0
          /\ DestroyAll
          /\ requests' = NoRequests
          /\ pc' \in {"wait", "exited"}
       \/ /\ ~requests.stop /\ ~shutting_down
          /\ pc' = IF requests.routes # {} THEN "route" ELSE "sockets"
          /\ UNCHANGED <<requests, conn, connection_count, shutting_down>>
    /\ UNCHANGED <<lag, who, backlog, signals, resolver_ready>>

\* A handler's outcome: the connection it leaves, or the end of the listener.
Commit(c, k) ==
    IF k.progress = "FATAL"
    THEN /\ conn' = [d \in Conns |-> IF d \in Live
                                     THEN listener_connection_destroy(IF d = c THEN k ELSE conn[d]) ELSE conn[d]]
         /\ pc' = "exited"
         /\ UNCHANGED <<pids, child>>
    ELSE /\ conn' = [conn EXCEPT ![c] = [k EXCEPT !.closing = @ \/ k.progress \in {"ABORT", "CLOSED"}, !.progress = "none"]]
         /\ pids' = IF k.forked THEN Append(pids, c) ELSE pids
         /\ child' = IF k.forked THEN [child EXCEPT ![c] = "running"] ELSE child
         /\ UNCHANGED pc

\* listener_connections_route_progress, one connection.
RouteProgress ==
    /\ pc = "route"
    /\ \E c \in requests.routes :
          LET k == listener_connection_route_progress(conn[c], lag)
          IN  /\ requests' = [requests EXCEPT !.routes = @ \ {c}]
              /\ \E j \in IF k.progress = "READY" THEN listener_connection_ready(k, who[c], lag, Len(pids)) ELSE {k} :
                    Commit(c, j)
    /\ UNCHANGED <<lag, who, backlog, signals, connection_count, resolver_ready, shutting_down>>

RoutesDone ==
    /\ pc = "route" /\ requests.routes = {}
    /\ pc' = "sockets" /\ lag' = 0
    /\ UNCHANGED <<requests, who, conn, backlog, pids, child, signals, connection_count, resolver_ready, shutting_down>>

\* The handler of one event, up to a route and past it.
Handled(k, w, e) ==
    CASE e.kind = "TIMEOUT" -> listener_connection_timeout(k, w, lag)
      [] k.state = "INITIAL" -> listener_connection_receive(k, w, e.flags)
      [] k.state = "ROUTE_WAITING" -> Answer(k, "PENDING")
      [] OTHER -> listener_connection_short_event(k, e.kind, e.flags, lag)
Routing(k, w) ==
    IF k.progress = "READY" /\ k.state = "INITIAL" THEN listener_connection_route_start(k, w, lag) ELSE {k}
Uncancelled(k, e) ==
    IF k.progress = "PENDING" /\ listener_connection_route_cancelled(k, e.kind, e.flags) THEN Answer(k, "CLOSED") ELSE k
Decided(k, w) ==
    IF k.progress = "READY" THEN listener_connection_ready(k, w, lag, Len(pids)) ELSE {k}

ServeEvent(e) ==
    /\ requests' = [requests EXCEPT !.ready = @ \ {e}]
    /\ IF conn[e.c].closing
       THEN UNCHANGED <<pc, conn, pids, child>>
       ELSE \E j \in Routing(Handled(conn[e.c], who[e.c], e), who[e.c]) :
               \E k \in Decided(Uncancelled(j, e), who[e.c]) : Commit(e.c, k)
    /\ UNCHANGED <<lag, who, backlog, signals, connection_count, resolver_ready, shutting_down>>

\* The two passes over the batch: sockets, then timers by a new clock sample.
SocketPass == pc = "sockets" /\ \E e \in requests.ready : e.kind # "TIMEOUT" /\ ServeEvent(e)

SocketsDone ==
    /\ pc = "sockets" /\ \A e \in requests.ready : e.kind = "TIMEOUT"
    /\ pc' = "timers" /\ lag' = 0
    /\ UNCHANGED <<requests, who, conn, backlog, pids, child, signals, connection_count, resolver_ready, shutting_down>>

TimerPass == pc = "timers" /\ \E e \in requests.ready : ServeEvent(e)

\* listener_connections_destroy_closed; a route that cannot be given back ends
\* the listener.
DestroyClosed ==
    LET closed == {c \in Live : conn[c].closing}
    IN  /\ pc = "timers" /\ requests.ready = {}
        /\ \/ /\ conn' = [c \in Conns |-> IF c \in closed THEN listener_connection_destroy(conn[c])
                                            ELSE [conn[c] EXCEPT !.rearmed = FALSE]]
              /\ connection_count' = connection_count - Cardinality(closed)
              /\ pc' = IF requests.accept THEN "accept" ELSE "wait"
           \/ /\ "release" \in Faults /\ \E c \in closed : conn[c].waiter
              /\ DestroyAll
              /\ pc' = "exited"
              /\ UNCHANGED connection_count
        /\ requests' = NoRequests /\ lag' = 0
        /\ UNCHANGED <<who, backlog, pids, child, signals, resolver_ready, shutting_down>>

\* Seeded fault: the workers' share of the limit is forgotten.
full_of_connections(count) == count >= connection_limit
Full(count) == count >= connection_limit \/ Len(pids) >= connection_limit - count

listener_connection_create(k) ==
    [listener_connection_timer_arm([k EXCEPT !.life = LISTENER_SHORT_LIFETIME_TIMEOUT_SEC], "ASSEMBLY") EXCEPT
        !.place = "live", !.rearmed = FALSE, !.sock["client"].flags = {"IN", "RDHUP"}]

Gone(k) == [NoConnection EXCEPT !.place = "gone"]

\* The first n clients of the backlog are taken in or turned away; then the
\* batch is over, or descriptors run out, or the next cannot be tracked.
\* Once full it stays full, so those taken in come first.
Accept ==
    \E n \in 0..Least(Len(backlog), LISTENER_ACCEPT_BATCH) :
        LET served == {backlog[i] : i \in 1..n}
            admitted == {i \in 1..n : ~Full(connection_count + i - 1)}
            taken == {backlog[i] : i \in admitted}
            room == connection_count + Cardinality(admitted)
            over == n = Least(Len(backlog), LISTENER_ACCEPT_BATCH)
        IN  \E lost \in {{}} \cup (IF over \/ Full(room) \/ "track" \notin Faults THEN {} ELSE {{backlog[n + 1]}}) :
                /\ pc = "accept"
                /\ over \/ lost # {} \/ "descriptors" \in Faults
                /\ conn' = [c \in Conns |-> IF c \in taken THEN listener_connection_create(conn[c])
                                            ELSE IF c \in served \cup lost THEN Gone(conn[c])
                                            ELSE conn[c]]
                /\ connection_count' = room
                /\ backlog' = From(backlog, n + Cardinality(lost) + 1)
                /\ pc' = "wait"
                /\ UNCHANGED <<requests, lag, who, pids, child, signals, resolver_ready, shutting_down>>

----------------------------------------------------------------------------
(* Clients, upstreams, workers, the resolver and the clock.                *)

loop == <<pc, requests, lag, who, pids, connection_count, shutting_down>>

Arrive(c) ==
    /\ conn[c].place = "away" /\ pc # "exited"
    /\ conn' = [conn EXCEPT ![c].place = "backlog"]
    /\ backlog' = Append(backlog, c)
    /\ UNCHANGED <<loop, child, signals, resolver_ready>>

Lines(w, s) == IF s = "client" THEN Script[w].chunks ELSE Script[w].replies
Chunks(c, s) == Lines(who[c], s)

Present(c, s) ==
    \/ s = "client" /\ conn[c].place \in {"backlog", "live"}
    \/ s = "upstream" /\ conn[c].dial = "up"

Speak(c, s) ==
    LET q == conn[c].sock[s]
    IN  /\ Present(c, s) /\ ~q.fin /\ ~q.rst
        /\ \/ /\ q.said < Len(Chunks(c, s))
              /\ conn' = [conn EXCEPT ![c].sock[s].said = @ + 1, ![c].sock[s].unread = @ \o Chunks(c, s)[q.said + 1]]
           \/ conn' = [conn EXCEPT ![c].sock[s].fin = TRUE]
           \/ "reset" \in Faults /\ conn' = [conn EXCEPT ![c].sock[s].rst = TRUE]
    /\ UNCHANGED <<loop, backlog, child, signals, resolver_ready>>

Hear(c, s) ==
    /\ conn[c].sock[s].out > 0
    /\ conn' = [conn EXCEPT ![c].sock[s].out = 0]
    /\ UNCHANGED <<loop, backlog, child, signals, resolver_ready>>

Dial(c) ==
    /\ conn[c].dial = "trying"
    /\ \/ conn' = [conn EXCEPT ![c].dial = "up"]
       \/ conn' = [conn EXCEPT ![c].dial = "refused", ![c].sock["upstream"].rst = TRUE]
    /\ UNCHANGED <<loop, backlog, child, signals, resolver_ready>>

\* The resolver's results are taken in at the start of an iteration.
Resolve(c) ==
    /\ pc = "wait" /\ conn[c].waiter /\ conn[c].answer = "PENDING"
    /\ \E v \in Verdicts : conn' = [conn EXCEPT ![c].answer = v]
    /\ resolver_ready' = TRUE
    /\ UNCHANGED <<loop, backlog, child, signals>>

WorkerExits(c) ==
    /\ child[c] = "running"
    /\ child' = [child EXCEPT ![c] = "zombie"]
    /\ signals' = signals \cup {"CHLD"}
    /\ UNCHANGED <<loop, conn, backlog, resolver_ready>>

\* The signal is read by the next wait, whenever it came.
Terminate ==
    /\ "stop" \in Faults /\ ~shutting_down /\ pc = "wait"
    /\ signals' = signals \cup {"TERM"}
    /\ UNCHANGED <<loop, conn, backlog, child, resolver_ready>>

Later(t) == IF t > -LATENESS THEN t - 1 ELSE t

Tick ==
    /\ Live # {} /\ pc \in {"wait", "route", "sockets", "timers"}
    /\ pc # "wait" => lag < LATENESS
    /\ lag' = IF pc = "wait" THEN 0 ELSE lag + 1
    /\ conn' = [c \in Conns |-> IF c \notin Live THEN conn[c]
                                ELSE [conn[c] EXCEPT !.left = Later(@), !.life = Later(@), !.fired = @ \/ conn[c].left = 1,
                                         !.since = IF conn[c].timer = "SHORT_IDLE" THEN Least(@ + 1, LISTENER_SHORT_RELAY_IDLE_TIMEOUT_SEC) ELSE @]]
    /\ UNCHANGED <<pc, requests, who, pids, connection_count, shutting_down, backlog, child, signals, resolver_ready>>

Loop ==
    \/ Wake \/ Signals
    \/ RouteProgress \/ RoutesDone
    \/ SocketPass \/ SocketsDone \/ TimerPass \/ DestroyClosed
    \/ Accept

Next ==
    \/ Loop \/ Terminate \/ Tick
    \/ \E c \in Conns :
        \/ Arrive(c) \/ Dial(c) \/ Resolve(c) \/ WorkerExits(c)
        \/ \E s \in End : Speak(c, s) \/ Hear(c, s)

Spec == Init /\ [][Next]_vars

\* The process runs: weak fairness of Loop, written with the states in which it
\* is not enabled and the variables only it changes.
LoopRuns ==
    \/ []<>(pc = "exited" \/ (pc = "wait" /\ ~Awake))
    \/ []<><<TRUE>>_<<pc, requests>>

\* And the clock advances; nothing is assumed of anyone else.
FairSpec == Spec /\ LoopRuns /\ WF_vars(Tick)

----------------------------------------------------------------------------

\* What the upstream should have been told of all the client has said, and the
\* client of all the upstream has.
Spoken(w, s, n) == FlattenSeq(SubSeq(Lines(w, s), 1, n))
Speech == [w \in DOMAIN Script |-> [s \in End |-> [n \in 0..Len(Lines(w, s)) |-> Spoken(w, s, n)]]]
Telling == [w \in DOMAIN Script |-> [n \in 0..Len(Script[w].chunks) |->
               LET unsaid == Len(Said(w)) - Len(Spoken(w, "client", n))
               IN  SubSeq(Script[w].expect, 1, Len(Script[w].expect) - unsaid)]]
SaidBy(c, s) == Speech[who[c]][s][conn[c].sock[s].said]
Told(c) == Telling[who[c]][conn[c].sock["client"].said]

\* A short exchange is carried whole or not at all: the upstream hears the
\* client's request, readdressed if the route says so, and then the client's
\* later bytes; the client hears either the upstream or one answer of the
\* listener's own, never parts of both; and an end told of the other's close
\* has heard everything that came before it (short_start, short_drive,
\* short_failure, short_connect_complete).
ExchangeIntact ==
    \A c \in Live :
        LET up == conn[c].sock["upstream"]
            down == conn[c].sock["client"]
        IN  /\ IsPrefix(up.got, Told(c))
            /\ up.write_closed => up.got = Told(c)
            /\ \/ IsPrefix(down.got, SaidBy(c, "upstream"))
               \/ \E m \in Script[who[c]].notices : IsPrefix(down.got, Text(<<m>>).data)
            /\ down.write_closed => down.got = SaidBy(c, "upstream")

\* While the loop sleeps on a connection, there is nothing it could do for it:
\* whatever could be read, sent, answered or timed out is among the events
\* registered (interests_update, timer_set).
Movable(k, s) ==
    LET q == k.sock[s]
        data == IF s = "client" THEN k.request \o k.buffer[s].data ELSE k.buffer[s].data
    IN  IF data # <<>>
        THEN k.sock[Other(s)].out < SOCKET_BYTES[Other(s)]
        ELSE ~q.read_closed /\ (q.unread # <<>> \/ q.fin)
EventsMissNothing ==
    pc = "wait" =>
        \A c \in Live :
            LET k == conn[c]
                q == k.sock["client"]
                work == CASE k.state = "INITIAL" -> q.unread # <<>> \/ q.fin \/ q.rst
                          [] k.state = "ROUTE_WAITING" -> q.fin \/ q.rst
                          [] k.state = "SHORT_CONNECTING" -> k.dial # "trying"
                          [] k.state = "SHORT_RELAYING" -> \E s \in End : Movable(k, s)
                          [] OTHER -> Movable(k, "upstream")
            IN  /\ work => \E e \in Ready : e.c = c
                /\ k.fired \/ k.left > 0

\* A client is dropped as idle only when none of its bytes has moved for the
\* whole idle time, up to the loop's lateness: data served in the batch of an
\* old expiry puts it off (short_drive, connection_timeout).
IdleMeansIdle ==
    [][\A c \in Live :
        /\ pc = "timers" /\ conn[c].timer = "SHORT_IDLE" /\ ~conn[c].closing
        /\ conn'[c].closing
        => conn[c].since >= LISTENER_SHORT_RELAY_IDLE_TIMEOUT_SEC - LATENESS]_vars

\* A client seen to have left while its route was awaited is given neither a
\* worker nor an upstream, even if the route is ready in the same batch (the
\* comment above the loop's first pass: "Client cancellation wins").
CancellationWins ==
    [][\A c \in Live :
        (\E e \in requests.ready : e.c = c /\ listener_connection_route_cancelled(conn[c], e.kind, e.flags))
        => conn'[c].dial = conn[c].dial /\ child'[c] = child[c]]_vars

\* Connections and workers together stay within the descriptors' limit, and
\* workers within their own; the list of workers is exactly the children not
\* waited for, and one that has died is waited for by this batch or a signal
\* still pending (the accept loop, connection_dispatch, workers_reap).
CapacityKept ==
    /\ pc = "wait" => connection_count + Len(pids) <= connection_limit
    /\ pc # "exited" => connection_count = Cardinality(Live)
    /\ Len(pids) <= LISTENER_WORKER_LIMIT
    /\ IsInjective(pids) /\ Range(pids) = {c \in Conns : child[c] \in {"running", "zombie"}}
    /\ \A c \in Conns : child[c] = "zombie" => "CHLD" \in signals \/ (pc = "signals" /\ requests.child)

\* Every route request is settled exactly once by the time its connection is
\* gone, however it ends, and counted as pending only while it waits
\* (listener_metrics_route_*, listener_connection_destroy).
SettledOnce ==
    \A c \in Conns :
        LET k == conn[c]
            m == k.metrics
        IN  /\ m.started <= 1 /\ m.outcomes <= m.started /\ m.resolutions <= m.started
            /\ k.place = "gone" => m.outcomes = m.started /\ m.pending_current = 0
            /\ m.pending_current = (IF k.route_metrics.pending THEN 1 ELSE 0)
            /\ k.route_metrics.pending => k.state = "ROUTE_WAITING" /\ k.waiter

\* Every connection ends, whatever its client, its upstream and the resolver
\* do or leave undone (the timers, all within the connection's lifetime).
ConnectionsEnd == \A c \in Conns : conn[c].place = "live" ~> conn[c].place = "gone"
=============================================================================
