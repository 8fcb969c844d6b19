---------------------------- MODULE WorkerProofs ----------------------------
(***************************************************************************)
(* A worker process (Worker.tla), for any packets, peers, buffer sizes and *)
(* failing calls: an orphan is told that its listener has died, every      *)
(* descriptor is closed exactly once, and of the two streams every byte    *)
(* arrives in order and none is lost, an end of file comes only after the  *)
(* last of them, and no peer is left waiting while the relay sleeps.       *)
(* StreamTypes, Decided, Flows and Ends are inductive only together.       *)
(***************************************************************************)
EXTENDS Worker, SequenceTheorems, TLAPS

Relaying == {"poll", "in", "out", "propagate"}
Starting == {"forked", "parent", "signals", "setup"}

\* How far a worker has come.
Stages == pc \in Starting \cup {"connecting", "exited"} \cup Relaying

-----------------------------------------------------------------------------
(* What the relay's loop does to the rest of the process *)

\* The loop goes on, or ends with both descriptors closed.
LEMMA RelayStep ==
    ASSUME net_relay \/ CallFails
    PROVE  /\ pc \in Relaying
           /\ \/ pc' \in Relaying /\ UNCHANGED <<result, closes>>
              \/ \E s : Finish(s)
<1>1. CASE Poll
  BY <1>1 DEF Poll, Relaying
<1>2. CASE Serve("in", "out")
  BY <1>2 DEF Serve, Relaying
<1>3. CASE Serve("out", "propagate")
  BY <1>3 DEF Serve, Relaying
<1>4. CASE Propagate
  BY <1>4 DEF Propagate, relay, Relaying
<1>5. CASE CallFails
  BY <1>5 DEF CallFails, Relaying
<1> QED
  BY <1>1, <1>2, <1>3, <1>4, <1>5 DEF net_relay

-----------------------------------------------------------------------------
(* Orphans *)

\* A worker past its first call has asked to be told, and once it has looked
\* for its parent a death has been signalled.
Watching ==
    /\ Stages
    /\ pc \notin {"forked", "exited"} => pdeathsig
    /\ OrphanIsTold

\* A new worker has not asked yet.
LEMMA WatchingInit == Init => Watching
BY DEF Init, Watching, Stages, Starting, OrphanIsTold

\* Every step keeps the worker told.
LEMMA WatchingNext ==
    ASSUME Watching, [Next]_vars
    PROVE  Watching'
<1> USE DEF Watching, OrphanIsTold, Stages, Starting, Relaying
<1>1. CASE SetDeathSignal
  BY <1>1 DEF SetDeathSignal, Exit
<1>2. CASE CheckParent
  BY <1>2 DEF CheckParent, startup
<1>3. CASE listener_worker_signals_restore
  BY <1>3 DEF listener_worker_signals_restore, startup, Exit
<1>4. CASE Setup
  BY <1>4 DEF Setup, startup, Leave, ConnectFailed, Connected, Start, Exit
<1>5. CASE connection_setup_long_connect_outbound \/ ConnectCallFails
  BY <1>5 DEF connection_setup_long_connect_outbound, ConnectCallFails, startup, Leave, ConnectFailed, Connected, Start, Exit
<1>6. CASE (net_relay \/ CallFails) /\ UNCHANGED <<startup, setup>>
  BY <1>6, RelayStep DEF startup, Finish
<1>7. CASE ListenerDies
  BY <1>7 DEF ListenerDies
<1>8. CASE Terminated
  BY <1>8 DEF Terminated, startup, Exit
<1>9. CASE Dial \/ DeadlinePasses \/ (Elapse /\ UNCHANGED <<startup, setup>>) \/ (\E s \in End : Peer(s))
  BY <1>9 DEF Dial, DeadlinePasses, Elapse, Peer, startup
<1>10. CASE UNCHANGED vars
  BY <1>10 DEF vars, startup
<1> QED
  BY <1>1, <1>2, <1>3, <1>4, <1>5, <1>6, <1>7, <1>8, <1>9, <1>10 DEF Next, Step

\* A worker past its startup whose listener has died has been sent SIGTERM,
\* whenever the death comes relative to prctl and getppid
\* (listener_worker_run).
THEOREM OrphansAreTold == Spec => []OrphanIsTold
<1>1. Watching => OrphanIsTold
  BY DEF Watching
<1> QED
  BY <1>1, WatchingInit, WatchingNext, PTL DEF Spec

-----------------------------------------------------------------------------
(* Descriptors *)

\* Nothing is closed, and nothing decided but to relay, before the worker
\* ends; it relays or waits for a connect only with an upstream's socket.
Owning ==
    /\ Stages
    /\ closes \in [End -> {0, 1}]
    /\ pc # "exited" => closes = [s \in End |-> 0] /\ status \in {"none", "OK"} /\ result = "none"
    /\ pc \in Starting => dial = "none"
    /\ pc \in {"connecting"} \cup Relaying => dial # "none"
    /\ pc = "exited" /\ (status \notin {"none", "OK"} \/ result # "none") =>
          closes["in"] = 1 /\ closes["out"] = (IF dial = "none" THEN 0 ELSE 1)

\* A new worker has the client's descriptor and no other.
LEMMA OwningInit == Init => Owning
BY DEF Init, RelayInit, Owning, Stages, Starting, Relaying, End

\* Nothing is closed before the worker ends, so one close is the first.
LEMMA NoneClosed ==
    ASSUME Owning, pc # "exited"
    PROVE  \A s \in End : closes[s] = 0 /\ closes[s] + 1 = 1
<1>1. \A s \in End : closes[s] = 0
  BY DEF Owning
<1> QED
  BY <1>1

\* Leaving from a state in which nothing is closed.
LEMMA LeaveOwning ==
    ASSUME Owning, pc # "exited", NEW closed \in SUBSET End, NEW verdict, Leave(closed, verdict),
           "in" \in closed, "out" \in closed <=> dial' # "none"
    PROVE  Owning'
<1>1. closes' = [s \in End |-> IF s \in closed THEN 1 ELSE 0]
  <2>1. closes' = [s \in End |-> IF s \in closed THEN closes[s] + 1 ELSE closes[s]]
    BY DEF Leave
  <2>2. \A s \in End : (IF s \in closed THEN closes[s] + 1 ELSE closes[s]) = (IF s \in closed THEN 1 ELSE 0)
    BY NoneClosed, Zenon
  <2> QED
    BY <2>1, <2>2, Zenon
<1>2. pc' = "exited" /\ result' = "none"
  BY DEF Owning, Leave, Exit
<1>3. closes'["in"] = 1 /\ closes'["out"] = (IF dial' = "none" THEN 0 ELSE 1)
  BY <1>1 DEF End
<1> QED
  BY <1>1, <1>2, <1>3 DEF Owning, Stages, Starting, Relaying

\* The relay closes both descriptors as it ends.
LEMMA FinishOwning ==
    ASSUME Owning, pc \in Relaying, NEW s, Finish(s), UNCHANGED setup
    PROVE  Owning'
<1>0. \A x \in End : closes[x] + 1 = 1
  BY NoneClosed DEF Relaying
<1>1. closes' = [x \in End |-> 1]
  <2>1. closes' = [x \in End |-> closes[x] + 1]
    BY DEF Finish
  <2> QED
    BY <1>0, <2>1
<1>2. dial' # "none" /\ pc' = "exited"
  BY DEF Owning, Finish, setup
<1> QED
  BY <1>1, <1>2 DEF Owning, Stages, Starting, Relaying, End

\* The worker relays, or cannot and closes both.
LEMMA ConnectedOwning ==
    ASSUME Owning, pc \in {"setup", "connecting"}, NEW seed, Connected(seed), dial' # "none"
    PROVE  Owning'
<1>1. CASE seed.ok
  <2>1. pc' = "poll" /\ status' = "OK" /\ UNCHANGED <<result, closes>>
    BY <1>1 DEF Connected, Start
  <2> QED
    BY <2>1 DEF Owning, Stages, Starting, Relaying
<1>2. CASE ~seed.ok
  <2>1. Leave({"in", "out"}, "EABORT")
    BY <1>2 DEF Connected
  <2> QED
    BY <2>1, LeaveOwning DEF End
<1> QED
  BY <1>1, <1>2

\* A refused or failed connect closes the client's descriptor and the
\* upstream's, if it was opened.
LEMMA FailedOwning ==
    ASSUME Owning, pc # "exited", NEW opened \in SUBSET {"out"}, ConnectFailed(opened), opened # {} <=> dial' # "none"
    PROVE  Owning'
<1>1. Leave({"in"} \cup opened, "ENOCONNECT")
  BY DEF ConnectFailed
<1>2. {"in"} \cup opened \in SUBSET End
  BY DEF End
<1>3. "out" \in {"in"} \cup opened <=> dial' # "none"
  BY Zenon
<1> QED
  BY <1>1, <1>2, <1>3, LeaveOwning, Zenon

\* Deciding and the immediate outcomes of connect.
LEMMA SetupOwning ==
    ASSUME Owning, Setup
    PROVE  Owning'
<1>1. pc = "setup" /\ dial = "none"
  BY DEF Owning, Setup, Starting
<1>2. ASSUME NEW verdict, Leave({"in"}, verdict), UNCHANGED dial PROVE Owning'
  BY <1>1, <1>2, LeaveOwning DEF End
<1>3. ASSUME dial' = "up", Connected(decision.seed) PROVE Owning'
  BY <1>1, <1>3, ConnectedOwning
<1>4. ASSUME dial' = "up", ConnectFailed({"out"}) PROVE Owning'
  BY <1>1, <1>4, FailedOwning
<1>5. ASSUME dial' = "pending", pc' = "connecting", UNCHANGED <<relay, status>> PROVE Owning'
  BY <1>1, <1>5 DEF Owning, Stages, Starting, Relaying, relay
<1>6. ASSUME ConnectFailed({}), UNCHANGED dial PROVE Owning'
  BY <1>1, <1>6, FailedOwning
<1> QED
  BY <1>2, <1>3, <1>4, <1>5, <1>6 DEF Setup

\* A pending connect is resolved.
LEMMA ConnectOwning ==
    ASSUME Owning, connection_setup_long_connect_outbound \/ ConnectCallFails
    PROVE  Owning'
<1>1. pc = "connecting" /\ dial # "none" /\ dial' = dial
  BY DEF Owning, connection_setup_long_connect_outbound, ConnectCallFails
<1>2. ConnectFailed({"out"}) \/ Connected(decision.seed)
  BY DEF connection_setup_long_connect_outbound, ConnectCallFails
<1> QED
  BY <1>1, <1>2, FailedOwning, ConnectedOwning

\* Steps that close nothing and decide nothing.
LEMMA KeptOwning ==
    ASSUME Owning, UNCHANGED <<closes, status, result>>,
           \/ pc' = pc /\ (dial' = dial \/ (dial # "none" /\ dial' # "none"))
           \/ pc # "exited" /\ pc' \in Starting \cup {"exited"} /\ pc \in Starting /\ dial' = dial
           \/ pc # "exited" /\ pc' = "exited" /\ dial' = dial
           \/ pc \in Relaying /\ pc' \in Relaying /\ dial' = dial
    PROVE  Owning'
BY DEF Owning, Stages, Starting, Relaying

\* Every step keeps descriptors owned.
LEMMA OwningNext ==
    ASSUME Owning, [Next]_vars
    PROVE  Owning'
<1>1. CASE SetDeathSignal \/ CheckParent \/ listener_worker_signals_restore
  BY <1>1, KeptOwning DEF SetDeathSignal, CheckParent, listener_worker_signals_restore, Exit, relay, setup, Starting
<1>2. CASE Setup
  BY <1>2, SetupOwning
<1>3. CASE connection_setup_long_connect_outbound \/ ConnectCallFails
  BY <1>3, ConnectOwning
<1>4. CASE (net_relay \/ CallFails) /\ UNCHANGED <<startup, setup>>
  BY <1>4, RelayStep, FinishOwning, KeptOwning DEF setup
<1>5. CASE ListenerDies \/ Terminated
  BY <1>5, KeptOwning DEF ListenerDies, Terminated, Exit, relay, setup
<1>6. CASE Dial
  BY <1>6, KeptOwning DEF Dial, relay
<1>7. CASE DeadlinePasses \/ (Elapse /\ UNCHANGED <<startup, setup>>)
  BY <1>7, KeptOwning DEF DeadlinePasses, Elapse, relay, setup
<1>8. CASE \E s \in End : Peer(s)
  BY <1>8, KeptOwning DEF Peer, relay, setup
<1>9. CASE UNCHANGED vars
  BY <1>9, KeptOwning DEF vars, relay, setup
<1> QED
  BY <1>1, <1>2, <1>3, <1>4, <1>5, <1>6, <1>7, <1>8, <1>9 DEF Next, Step

\* No descriptor is closed twice, and a worker that ends by itself, at
\* whatever point of setup or relay, has closed all it had
\* (connection_setup_long_handle_modern_handshake, net_relay).
THEOREM EachClosedOnce == Spec => []DescriptorsClosedOnce
<1>1. Owning => DescriptorsClosedOnce
  <2> SUFFICES ASSUME Owning PROVE DescriptorsClosedOnce
    OBVIOUS
  <2>1. \A s \in End : closes[s] \in {0, 1}
    BY DEF Owning
  <2>2. \A s \in End : closes[s] <= 1
    BY <2>1
  <2> QED
    BY <2>2, Zenon DEF Owning, DescriptorsClosedOnce
<1> QED
  BY <1>1, OwningInit, OwningNext, PTL DEF Spec

-----------------------------------------------------------------------------
(* Sequences *)

\* A sequence is a prefix of itself and of what continues it.
LEMMA PrefixConcat ==
    ASSUME NEW a \in Seq(Nat), NEW b \in Seq(Nat)
    PROVE  IsPrefix(a, a \o b) /\ IsPrefix(a, a) /\ IsPrefix(<<>>, a)
BY DEF IsPrefix

\* So is what it begins with.
LEMMA PrefixShorter ==
    ASSUME NEW a \in Seq(Nat), NEW b \in Seq(Nat), NEW t \in Seq(Nat), IsPrefix(a \o b, t)
    PROVE  IsPrefix(a, t)
<1>1. Len(a \o b) = Len(a) + Len(b) /\ a \o b \in Seq(Nat)
  OBVIOUS
<1>2. Len(a) <= Len(t)
  BY <1>1 DEF IsPrefix
<1>3. \A i \in 1..Len(a \o b) : (a \o b)[i] = t[i]
  <2> SUFFICES ASSUME NEW i \in 1..Len(a \o b) PROVE (a \o b)[i] = t[i]
    BY Zenon
  <2>1. SubSeq(a \o b, 1, Len(a \o b))[i] = SubSeq(t, 1, Len(a \o b))[i]
    BY DEF IsPrefix
  <2>2. Len(a \o b) <= Len(t)
    BY DEF IsPrefix
  <2> QED
    BY <1>1, <2>1, <2>2
<1>4. \A i \in 1..Len(a) : i \in 1..Len(a \o b) /\ (a \o b)[i] = a[i]
  BY <1>1
<1>5. \A i \in 1..Len(a) : a[i] = t[i]
  BY <1>3, <1>4, Zenon
<1> QED
  BY <1>2, <1>5 DEF IsPrefix

\* The start of a sequence is a prefix of it.
LEMMA PrefixStart ==
    ASSUME NEW t \in Seq(Nat), NEW n \in 0..Len(t)
    PROVE  SubSeq(t, 1, n) \in Seq(Nat) /\ Len(SubSeq(t, 1, n)) = n /\ IsPrefix(SubSeq(t, 1, n), t)
BY DEF IsPrefix

\* The two parts of a sequence make up the whole.
LEMMA Parts ==
    ASSUME NEW a \in Seq(Nat), NEW n \in 0..Len(a)
    PROVE  /\ SubSeq(a, 1, n) \in Seq(Nat) /\ Len(SubSeq(a, 1, n)) = n
           /\ SubSeq(a, n + 1, Len(a)) \in Seq(Nat) /\ Len(SubSeq(a, n + 1, Len(a))) = Len(a) - n
           /\ SubSeq(a, 1, n) \o SubSeq(a, n + 1, Len(a)) = a
<1>1. 1 \in 1..Len(a) + 1 /\ n \in (1 - 1)..Len(a) /\ Len(a) \in n..Len(a)
  OBVIOUS
<1>2. SubSeq(a, 1, n) \o SubSeq(a, n + 1, Len(a)) = SubSeq(a, 1, Len(a))
  BY <1>1, ConcatAdjacentSubSeq, Zenon
<1>3. SubSeq(a, 1, Len(a)) = a
  BY SubSeqFull, Zenon
<1>4. /\ SubSeq(a, 1, n) \in Seq(Nat) /\ Len(SubSeq(a, 1, n)) = n
      /\ SubSeq(a, n + 1, Len(a)) \in Seq(Nat) /\ Len(SubSeq(a, n + 1, Len(a))) = Len(a) - n
  OBVIOUS
<1> QED
  BY <1>2, <1>3, <1>4, Zenon

\* Joining is associative.
LEMMA Joining ==
    ASSUME NEW a \in Seq(Nat), NEW b \in Seq(Nat), NEW c \in Seq(Nat)
    PROVE  (a \o b) \o c = a \o (b \o c)
BY ConcatAssociative

\* Reading moves bytes over one boundary of the stream, ...
LEMMA ReadMoves ==
    ASSUME NEW h \in Seq(Nat), NEW q \in Seq(Nat), NEW a \in Seq(Nat), NEW n \in 0..Len(a)
    PROVE  (h \o (q \o SubSeq(a, 1, n))) \o SubSeq(a, n + 1, Len(a)) = (h \o q) \o a
<1> DEFINE x == SubSeq(a, 1, n)
           y == SubSeq(a, n + 1, Len(a))
<1>1. x \in Seq(Nat) /\ y \in Seq(Nat) /\ x \o y = a
  BY Parts, Zenon
<1> HIDE DEF x, y
<1>2. h \o q \in Seq(Nat)
  OBVIOUS
<1>3. h \o (q \o x) = (h \o q) \o x
  BY <1>1, Joining, ZenonT(40)
<1>4. ((h \o q) \o x) \o y = (h \o q) \o (x \o y)
  BY <1>1, <1>2, Joining, ZenonT(40)
<1> QED
  BY <1>1, <1>3, <1>4, Zenon DEF x, y

\* ... writing over another.
LEMMA WriteMoves ==
    ASSUME NEW g \in Seq(Nat), NEW u \in Seq(Nat), NEW q \in Seq(Nat), NEW n \in 0..Len(q)
    PROVE  (g \o (u \o SubSeq(q, 1, n))) \o SubSeq(q, n + 1, Len(q)) = (g \o u) \o q
BY ReadMoves, ZenonT(40)


\* Nothing before or behind a sequence adds nothing.
LEMMA NothingAround ==
    ASSUME NEW a \in Seq(Nat)
    PROVE  <<>> \o a = a /\ a \o <<>> = a
OBVIOUS

\* Joined bytes are bytes.
LEMMA JoinBytes ==
    ASSUME NEW a \in Seq(Nat), NEW b \in Seq(Nat), NEW c \in Seq(Nat)
    PROVE  a \o (b \o c) \in Seq(Nat)
OBVIOUS

\* So are none.
LEMMA NoBytes == <<>> \in Seq(Nat)
OBVIOUS

\* Nothing is left of a sequence behind its end or before its start.
LEMMA EmptyRest ==
    /\ \A a \in Seq(Nat) : SubSeq(a, Len(a) + 1, Len(a)) = <<>> /\ SubSeq(a, 1, 0) = <<>>
    /\ SubSeq(<<>>, 0 + 1, Len(<<>>)) = <<>>
    /\ \A m \in 0..Len(<<>>) : m = 0
<1>1. \A a \in Seq(Nat) : SubSeq(a, Len(a) + 1, Len(a)) = <<>> /\ SubSeq(a, 1, 0) = <<>>
  OBVIOUS
<1>2. SubSeq(<<>>, 0 + 1, Len(<<>>)) = <<>>
  OBVIOUS
<1>3. \A m \in 0..Len(<<>>) : m = 0
  OBVIOUS
<1> QED
  BY <1>1, <1>2, <1>3

-----------------------------------------------------------------------------
(* The streams *)

\* What has come from an end: passed on, on its way, or still with the kernel.
Total(s) == Heard(Other(s)) \o arrived[s]

\* What that should be: behind the packet of setup, all the end has said.
Owed(s) == (IF s = "in" /\ status = "OK" THEN case.expect ELSE <<>>) \o said[s]

StreamTypes ==
    /\ queue \in [End -> Seq(Nat)] /\ arrived \in [End -> Seq(Nat)] /\ said \in [End -> Seq(Nat)]
    /\ unsent \in [End -> Seq(Nat)] /\ got \in [End -> Seq(Nat)]
    /\ given \in [End -> Nat]
    /\ fin \in [End -> BOOLEAN] /\ reset \in [End -> BOOLEAN]
    /\ peer_eof \in [End -> BOOLEAN] /\ shutdown_sent \in [End -> BOOLEAN]
    /\ \A s \in End : Len(unsent[s]) <= SOCKET_BYTES
    /\ case \in Cases

\* Nothing is passed on before setup has decided, and after a refusal nothing
\* but the refusal.
Decided ==
    /\ Stages
    /\ pc \in Starting \cup {"connecting"} => status = "none"
    /\ pc \in Relaying => status = "OK"
    /\ pc # "exited" => result = "none"
    /\ decision = DecisionOf(case)
    /\ pc = "connecting" => decision.connect
    /\ status # "OK" => \A s \in End : queue[s] = <<>>
    /\ status = "none" => \A s \in End : got[s] = <<>> /\ unsent[s] = <<>>
    /\ status \notin {"none", "OK"} => pc = "exited" /\ got["out"] = <<>> /\ unsent["out"] = <<>>
                                   /\ IsPrefix(got["in"] \o unsent["in"], Kick)

\* All that came from an end is there, in order, unless the end was reset.
Flows ==
    status \in {"none", "OK"} =>
        \A s \in End : IsPrefix(Total(s), Owed(s)) /\ (~reset[s] => Total(s) = Owed(s))

\* An end of stream is known only when all before it has been read, and is
\* passed on when all before it has been passed on.
Ends ==
    /\ \A s \in End : shutdown_sent[s] => peer_eof[s] /\ queue[s] = <<>>
    /\ \A s \in End : peer_eof[s] => fin[s] /\ arrived[s] = <<>> /\ status = "OK"
    /\ pc = "poll" => \A s \in End : peer_eof[s] /\ queue[s] = <<>> => shutdown_sent[s]
    /\ result = "CLOSED" => \A s \in End : shutdown_sent[s]

-----------------------------------------------------------------------------
(* The steps, as the streams see them *)

\* The packet the upstream hears first is the one it should hear.
SeedsAreExpected == \A c \in Cases : SeedIsExpected(c)

streams == <<queue, peer_eof, shutdown_sent, sockets, case, decision>>

\* Nothing happens to the streams.
Aside ==
    /\ UNCHANGED <<streams, status, result>>
    /\ \/ pc' = pc
       \/ pc' = "exited"
       \/ pc \in Starting /\ pc' \in Starting
       \/ pc = "poll" /\ pc' = "in"
       \/ pc = "setup" /\ pc' = "connecting" /\ decision.connect

\* The relay ends.
Ended ==
    /\ UNCHANGED <<streams, status>>
    /\ pc \in Relaying /\ pc' = "exited" /\ result' # "none"
    /\ result' = "CLOSED" => net_relay_finished

\* The client is refused, and told if its socket takes it.
Refusal ==
    /\ pc \in {"setup", "connecting"} /\ pc' = "exited" /\ status' \notin {"none", "OK"}
    /\ UNCHANGED <<queue, peer_eof, shutdown_sent, result, case, decision, arrived, given, said, fin, reset, got>>
    /\ \/ unsent' = unsent
       \/ \E n \in 0..Len(Kick) : n <= SOCKET_BYTES /\ unsent' = [unsent EXCEPT !["in"] = SubSeq(Kick, 1, n)]

\* The relay starts.
Begun ==
    /\ pc \in {"setup", "connecting"} /\ pc' = "poll"
    /\ decision.connect /\ decision.seed.ok /\ status' = "OK"
    /\ queue' = [queue EXCEPT !["in"] = decision.seed.bytes]
    /\ UNCHANGED <<peer_eof, shutdown_sent, result, sockets, case, decision>>

\* A decision not to connect refuses.
LEMMA DecisionRefuses ==
    ASSUME NEW snapshot, NEW inbound
    PROVE  LET d == connection_setup_long_prepared_run(snapshot, inbound)
           IN  d.connect \/ d.status \notin {"none", "OK"}
<1> DEFINE Right(d) == d.connect \/ d.status \notin {"none", "OK"}
<1>1. \A kick : /\ Right(Refuse("EABORT", kick)) /\ Right(Refuse("EUNIDENT", kick)) /\ Right(Refuse("EOLDCLIENT", kick))
                /\ Right(Refuse("ENOVHOST", kick)) /\ Right(Refuse("ENORECORD", kick))
  BY DEF Refuse
<1>2. \A seed : Right(Connect(seed))
  BY DEF Connect
<1> HIDE DEF Right
<1>3. \A seed : Right(Routed(snapshot, seed))
  BY <1>1, <1>2, Zenon DEF Routed
<1>4. \A version : Right(connection_setup_long_handle_legacy_login(snapshot, inbound, version))
  BY <1>1, <1>3, Zenon DEF connection_setup_long_handle_legacy_login
<1>5. Right(connection_setup_long_handle_modern_handshake(snapshot, inbound))
  BY <1>1, <1>3, Zenon DEF connection_setup_long_handle_modern_handshake
<1>6. Right(connection_setup_long_prepared_run(snapshot, inbound))
  BY <1>1, <1>4, <1>5, ZenonT(40) DEF connection_setup_long_prepared_run
<1> QED
  BY <1>6 DEF Right

\* What one visit of an end moves: n bytes in, m bytes out.
Visit(s, n, m) ==
    /\ pc = s
    /\ queue' = [queue EXCEPT ![s] = @ \o SubSeq(arrived[s], 1, n),
                              ![Other(s)] = SubSeq(@, m + 1, Len(@))]
    /\ arrived' = [arrived EXCEPT ![s] = SubSeq(@, n + 1, Len(@))]
    /\ unsent' = [unsent EXCEPT ![s] = @ \o SubSeq(queue[Other(s)], 1, m)]
    /\ m <= Room(s)
    /\ \E eof \in BOOLEAN :
          /\ peer_eof' = [peer_eof EXCEPT ![s] = eof]
          /\ peer_eof[s] => eof /\ n = 0
          /\ eof => peer_eof[s] \/ (fin[s] /\ n = Len(arrived[s]))
    /\ \/ pc' \in {"out", "propagate"} /\ result' = result
       \/ pc' = "exited" /\ result' = "ERROR"
    /\ UNCHANGED <<shutdown_sent, given, said, fin, reset, got>>

\* Every visit is of this kind (net_relay_queue_fill, net_relay_queue_drain).
LEMMA ServeVisits ==
    ASSUME StreamTypes, NEW s \in End, NEW next \in {"out", "propagate"}, Serve(s, next)
    PROVE  \E n \in 0..Len(arrived[s]), m \in 0..Len(queue[Other(s)]) : Visit(s, n, m)
<1> DEFINE o == Other(s)
           reading == Space(s) > 0 /\ revents[s] \cap {"IN", "HUP"} # {}
           writing == queue[o] # <<>> /\ revents[s] \cap {"OUT", "HUP"} # {}
           fill == IF reading THEN net_relay_queue_fill(s) ELSE [ok |-> TRUE, n |-> 0, eof |-> peer_eof[s]]
           drain == IF writing THEN net_relay_queue_drain(s) ELSE [ok |-> TRUE, n |-> 0, left |-> queue[o]]
           moved == (IF fill.ok /\ drain.ok THEN drain.n ELSE 0)
           n == fill.n
<1>0. /\ o \in End /\ o # s /\ queue[o] \in Seq(Nat) /\ arrived[s] \in Seq(Nat) /\ queue[s] \in Seq(Nat)
      /\ Room(s) \in Nat /\ Space(s) \in Int /\ peer_eof[s] \in BOOLEAN
  BY RelaySizes, SMTT(30) DEF StreamTypes, End, Other, Room, Space
<1>1. /\ fill.n \in 0..Len(arrived[s])
      /\ fill.eof \in BOOLEAN
      /\ peer_eof[s] => fill.eof /\ fill.n = 0
      /\ fill.eof => peer_eof[s] \/ (fin[s] /\ fill.n = Len(arrived[s]))
  <2>1. CASE reading /\ ~peer_eof[s]
    <3> DEFINE k == Least(Len(arrived[s]), Space(s))
    <3>1. k \in 0..Len(arrived[s])
      BY <1>0, <2>1 DEF Least
    <3>2. fill = [ok |-> k = Space(s) \/ ~reset[s], n |-> k,
                  eof |-> ~(k = Space(s)) /\ fin[s] /\ ~reset[s] /\ k = Len(arrived[s])]
      BY <2>1, Zenon DEF net_relay_queue_fill
    <3> HIDE DEF fill, k
    <3>3. fill.n = k /\ fill.eof = (~(k = Space(s)) /\ fin[s] /\ ~reset[s] /\ k = Len(arrived[s]))
      BY <3>2
    <3> QED
      BY <3>1, <3>3, <2>1, Zenon
  <2>2. CASE reading /\ peer_eof[s]
    <3>1. fill = [ok |-> TRUE, n |-> 0, eof |-> TRUE]
      BY <2>2 DEF net_relay_queue_fill
    <3> HIDE DEF fill
    <3> QED
      BY <3>1, <2>2, <1>0
  <2>3. CASE ~reading
    <3>1. fill = [ok |-> TRUE, n |-> 0, eof |-> peer_eof[s]]
      BY <2>3
    <3> HIDE DEF fill
    <3>2. fill.n = 0 /\ fill.eof = peer_eof[s]
      BY <3>1
    <3> QED
      BY <3>2, <1>0
  <2> QED
    BY <2>1, <2>2, <2>3, <1>0, Zenon
<1>3. SubSeq(queue[o], 0 + 1, Len(queue[o])) = queue[o]
  BY <1>0, SubSeqFull, SMTT(30)
<1>2. /\ drain.n \in 0..Len(queue[o]) /\ drain.n <= Room(s)
      /\ drain.left = SubSeq(queue[o], drain.n + 1, Len(queue[o]))
  <2>1. CASE writing
    <3> DEFINE k == Least(Len(queue[o]), Room(s))
    <3>1. k \in 0..Len(queue[o]) /\ k <= Room(s)
      BY <1>0 DEF Least
    <3>2. drain = [ok |-> ~reset[s], n |-> k, left |-> SubSeq(queue[o], k + 1, Len(queue[o]))]
      BY <2>1 DEF net_relay_queue_drain
    <3> HIDE DEF drain, k
    <3> QED
      BY <3>1, <3>2, Zenon
  <2>2. CASE ~writing
    <3>1. drain = [ok |-> TRUE, n |-> 0, left |-> queue[o]]
      BY <2>2
    <3> HIDE DEF drain
    <3> QED
      BY <3>1, <1>0, <1>3
  <2> QED
    BY <2>1, <2>2
<1>4. /\ moved \in 0..Len(queue[o]) /\ moved <= Room(s)
      /\ (IF fill.ok /\ drain.ok THEN drain.left ELSE queue[o]) = SubSeq(queue[o], moved + 1, Len(queue[o]))
  <2> HIDE DEF fill, drain, o
  <2>1. CASE fill.ok /\ drain.ok
    BY <1>2, <2>1, Zenon
  <2>2. CASE ~(fill.ok /\ drain.ok)
    BY <1>0, <1>3, <2>2
  <2> QED
    BY <2>1, <2>2
<1>5. /\ pc = s
      /\ queue' = [queue EXCEPT ![s] = @ \o SubSeq(arrived[s], 1, fill.n),
                                ![o] = IF fill.ok /\ drain.ok THEN drain.left ELSE @]
      /\ arrived' = [arrived EXCEPT ![s] = SubSeq(@, fill.n + 1, Len(@))]
      /\ peer_eof' = [peer_eof EXCEPT ![s] = fill.eof]
      /\ unsent' = [unsent EXCEPT ![s] = @ \o SubSeq(queue[o], 1, moved)]
      /\ UNCHANGED <<shutdown_sent, given, said, fin, reset, got>>
  BY Zenon DEF Serve
<1>6. \/ pc' \in {"out", "propagate"} /\ result' = result
      \/ pc' = "exited" /\ result' = "ERROR"
  BY Zenon DEF Serve, Finish
<1> HIDE DEF fill, drain, moved, reading, writing
<1>7. queue' = [queue EXCEPT ![s] = @ \o SubSeq(arrived[s], 1, fill.n),
                             ![o] = SubSeq(@, moved + 1, Len(@))]
  BY <1>0, <1>4, <1>5, Zenon DEF StreamTypes
<1>8. Visit(s, fill.n, moved)
  BY <1>1, <1>4, <1>5, <1>6, <1>7, Zenon DEF Visit
<1> QED
  BY <1>1, <1>4, <1>8

\* What a send to a socket whose buffer is empty can take: at most the
\* message and at most the buffer.
LEMMA EmptySocket ==
    ASSUME SOCKET_BYTES \in Nat
    PROVE  /\ unsent["in"] = <<>> => Room("in") = SOCKET_BYTES
           /\ Kick \in Seq(Nat) =>
                /\ Least(Len(Kick), SOCKET_BYTES) \in 0..Len(Kick)
                /\ Least(Len(Kick), SOCKET_BYTES) <= SOCKET_BYTES
           /\ SubSeq(<<>>, 1, Least(Len(<<>>), SOCKET_BYTES)) = <<>>
<1>1. unsent["in"] = <<>> => Room("in") = SOCKET_BYTES
  BY DEF Room
<1>2. Kick \in Seq(Nat) =>
        /\ Least(Len(Kick), SOCKET_BYTES) \in 0..Len(Kick)
        /\ Least(Len(Kick), SOCKET_BYTES) <= SOCKET_BYTES
  BY DEF Least
<1>3. SubSeq(<<>>, 1, Least(Len(<<>>), SOCKET_BYTES)) = <<>>
  BY DEF Least
<1> QED
  BY <1>1, <1>2, <1>3

\* How a worker that does not relay leaves.
LEMMA RefusalCases ==
    ASSUME StreamTypes, Decided, pc \in {"setup", "connecting"}, NEW closed, NEW verdict, verdict \notin {"none", "OK"},
           Leave(closed, verdict), UNCHANGED <<case, decision>>,
           NEW message, message = Kick \/ message = <<>>,
           UNCHANGED sockets \/ connection_setup_long_send_client(message)
    PROVE  Refusal
<1>0. SOCKET_BYTES \in Nat /\ Kick \in Seq(Nat) /\ "in" \in End
  BY RelaySizes, CasesAreBytes, Zenon DEF End
<1>1. /\ pc' = "exited" /\ status' \notin {"none", "OK"}
      /\ UNCHANGED <<queue, peer_eof, shutdown_sent, result>>
  BY DEF Leave, Exit
<1>2. unsent["in"] = <<>>
  BY <1>0 DEF Decided, Starting
<1>3. Room("in") = SOCKET_BYTES
  BY <1>0, <1>2, EmptySocket, ZenonT(40)
<1>4. CASE UNCHANGED sockets
  BY <1>1, <1>4 DEF Refusal, sockets
<1>5. CASE connection_setup_long_send_client(message)
  <2>1. CASE reset["in"]
    BY <1>1, <1>5, <2>1 DEF Refusal, connection_setup_long_send_client, StreamTypes
  <2>2. CASE ~reset["in"] /\ message = Kick
    <3> DEFINE n == Least(Len(Kick), SOCKET_BYTES)
    <3>1. n \in 0..Len(Kick) /\ n <= SOCKET_BYTES
      BY <1>0, EmptySocket, Zenon
    <3>2. unsent' = [unsent EXCEPT !["in"] = SubSeq(Kick, 1, n)]
      BY <1>3, <1>5, <2>2, Zenon DEF connection_setup_long_send_client
    <3> HIDE DEF n
    <3> QED
      BY <1>1, <1>5, <3>1, <3>2, Zenon DEF Refusal, connection_setup_long_send_client
  <2>3. CASE ~reset["in"] /\ message = <<>>
    <3>1. unsent' = [unsent EXCEPT !["in"] = SubSeq(<<>>, 1, Least(Len(<<>>), SOCKET_BYTES))]
      BY <1>3, <1>5, <2>3, Zenon DEF connection_setup_long_send_client
    <3>2. SubSeq(<<>>, 1, Least(Len(<<>>), SOCKET_BYTES)) = <<>>
      BY <1>0, EmptySocket, Zenon
    <3>3. unsent' = unsent
      BY <1>0, <1>2, <3>1, <3>2, Zenon DEF StreamTypes
    <3> QED
      BY <1>1, <1>5, <3>3 DEF Refusal, connection_setup_long_send_client
  <2> QED
    BY <2>1, <2>2, <2>3
<1> QED
  BY <1>4, <1>5

\* A connect that succeeds starts the relay, or fails over its seed.
LEMMA ConnectedCases ==
    ASSUME StreamTypes, Decided, pc \in {"setup", "connecting"}, decision.connect, UNCHANGED <<case, decision>>,
           Connected(decision.seed) \/ \E opened : ConnectFailed(opened)
    PROVE  Begun \/ Refusal
<1>1. CASE Connected(decision.seed) /\ decision.seed.ok
  BY <1>1 DEF Connected, Start, Begun
<1>2. CASE Connected(decision.seed) /\ ~decision.seed.ok
  <2>1. Leave({"in", "out"}, "EABORT") /\ UNCHANGED sockets
    BY <1>2 DEF Connected
  <2>2. "EABORT" \notin {"none", "OK"}
    OBVIOUS
  <2> QED
    BY <2>1, <2>2, RefusalCases
<1>3. ASSUME NEW opened, ConnectFailed(opened) PROVE Refusal
  <2>1. Leave({"in"} \cup opened, "ENOCONNECT") /\ connection_setup_long_send_client(Kick)
    BY <1>3 DEF ConnectFailed
  <2>2. "ENOCONNECT" \notin {"none", "OK"}
    BY Zenon
  <2> QED
    BY <2>1, <2>2, RefusalCases
<1> QED
  BY <1>1, <1>2, <1>3

\* Every step of a worker is of one of these kinds.
LEMMA StreamCases ==
    ASSUME StreamTypes, Decided, [Next]_vars
    PROVE  \/ Aside \/ Ended \/ Refusal \/ Begun
           \/ Propagate /\ UNCHANGED setup
           \/ \E s \in End : \E n \in 0..Len(arrived[s]), m \in 0..Len(queue[Other(s)]) : Visit(s, n, m) /\ UNCHANGED setup
           \/ \E s \in End : Peer(s)
<1>1. CASE SetDeathSignal \/ CheckParent \/ listener_worker_signals_restore
  BY <1>1 DEF SetDeathSignal, CheckParent, listener_worker_signals_restore, Exit, Aside, streams, relay, setup, Starting
<1>2. CASE ListenerDies \/ Terminated
  BY <1>2 DEF ListenerDies, Terminated, Exit, Aside, streams, relay, setup
<1>3. CASE Dial \/ DeadlinePasses
  BY <1>3 DEF Dial, DeadlinePasses, Aside, streams, relay
<1>4. CASE Elapse /\ UNCHANGED <<startup, setup>>
  BY <1>4 DEF Elapse, Aside, streams, setup
<1>5. CASE CallFails /\ UNCHANGED <<startup, setup>>
  BY <1>5 DEF CallFails, Finish, Ended, streams, setup, Relaying
<1>6. CASE Poll /\ UNCHANGED <<startup, setup>>
  <2>1. UNCHANGED <<streams, status>> /\ pc = "poll"
    BY <1>6 DEF Poll, streams, setup
  <2>2. \/ pc' = "exited" /\ result' # "none" /\ (result' = "CLOSED" => net_relay_finished)
        \/ pc' = "in" /\ result' = result
    BY <1>6 DEF Poll, Finish
  <2> QED
    BY <2>1, <2>2 DEF Aside, Ended, Relaying
<1>7. CASE Serve("in", "out") /\ UNCHANGED <<startup, setup>>
  BY <1>7, ServeVisits DEF End
<1>8. CASE Serve("out", "propagate") /\ UNCHANGED <<startup, setup>>
  BY <1>8, ServeVisits DEF End
<1>9. CASE Propagate /\ UNCHANGED <<startup, setup>>
  BY <1>9
<1>10. CASE Setup
  <2>0. pc = "setup" /\ UNCHANGED <<case, decision>>
    BY <1>10 DEF Setup
  <2>1. ASSUME Leave({"in"}, "EABORT"), UNCHANGED sockets PROVE Refusal
    BY <2>0, <2>1, RefusalCases
  <2>2. ASSUME ~decision.connect, Leave({"in"}, decision.status),
               connection_setup_long_send_client(IF decision.kick THEN Kick ELSE <<>>)
        PROVE  Refusal
    <3>1. decision.status \notin {"none", "OK"}
      BY <2>2, DecisionRefuses DEF Decided, DecisionOf
    <3> QED
      BY <2>0, <2>2, <3>1, RefusalCases
  <2>3. ASSUME decision.connect, Connected(decision.seed) \/ ConnectFailed({"out"}) \/ ConnectFailed({})
        PROVE  Begun \/ Refusal
    BY <2>0, <2>3, ConnectedCases
  <2>4. ASSUME decision.connect, pc' = "connecting", UNCHANGED <<relay, sockets, status>> PROVE Aside
    BY <2>0, <2>4 DEF Aside, streams, relay
  <2> QED
    BY <1>10, <2>1, <2>2, <2>3, <2>4 DEF Setup
<1>11. CASE connection_setup_long_connect_outbound \/ ConnectCallFails
  <2>1. pc = "connecting" /\ UNCHANGED <<case, decision>> /\ decision.connect
    BY <1>11 DEF connection_setup_long_connect_outbound, ConnectCallFails, Decided
  <2>2. Connected(decision.seed) \/ \E opened : ConnectFailed(opened)
    BY <1>11 DEF connection_setup_long_connect_outbound, ConnectCallFails
  <2> QED
    BY <2>1, <2>2, ConnectedCases
<1>12. CASE UNCHANGED vars
  BY <1>12 DEF vars, Aside, streams, relay, setup
<1> QED
  BY <1>1, <1>2, <1>3, <1>4, <1>5, <1>6, <1>7, <1>8, <1>9, <1>10, <1>11, <1>12 DEF Next, Step, net_relay

-----------------------------------------------------------------------------
(* Types *)

\* An empty socket holds no more than it may, ...
LEMMA EmptyFits == Len(<<>>) <= SOCKET_BYTES
BY RelaySizes

\* ... and one that took no more than its room.
LEMMA SentFits ==
    ASSUME NEW u \in Seq(Nat), NEW t \in Seq(Nat), Len(t) <= SOCKET_BYTES - Len(u)
    PROVE  Len(u \o t) <= SOCKET_BYTES
BY RelaySizes

\* A new worker has heard, said and passed on nothing.
LEMMA StreamInit == Init => StreamTypes /\ Decided /\ Flows /\ Ends
<1> SUFFICES ASSUME Init PROVE StreamTypes /\ Decided /\ Flows /\ Ends
  OBVIOUS
<1>0. <<>> \in Seq(Nat) /\ Len(<<>>) = 0 /\ <<>> \o <<>> = <<>> /\ IsPrefix(<<>>, <<>>)
  BY DEF IsPrefix
<1>1. StreamTypes
  <2>1. /\ queue \in [End -> Seq(Nat)] /\ arrived \in [End -> Seq(Nat)] /\ said \in [End -> Seq(Nat)]
        /\ unsent \in [End -> Seq(Nat)] /\ got \in [End -> Seq(Nat)] /\ given \in [End -> Nat]
    BY <1>0 DEF Init, RelayInit
  <2>2. /\ fin \in [End -> BOOLEAN] /\ reset \in [End -> BOOLEAN]
        /\ peer_eof \in [End -> BOOLEAN] /\ shutdown_sent \in [End -> BOOLEAN]
    BY Zenon DEF Init, RelayInit
  <2>3. \A s \in End : Len(unsent[s]) <= SOCKET_BYTES
    <3> SUFFICES ASSUME NEW s \in End PROVE Len(unsent[s]) <= SOCKET_BYTES
      OBVIOUS
    <3>1. unsent[s] = <<>>
      BY DEF Init, RelayInit
    <3> QED
      BY <3>1, EmptyFits
  <2>4. case \in Cases
    BY DEF Init
  <2> QED
    BY <2>1, <2>2, <2>3, <2>4 DEF StreamTypes
<1>2. Decided
  BY <1>0 DEF Init, RelayInit, Decided, Stages, Starting, Relaying
<1>3. Flows
  BY <1>0 DEF Init, RelayInit, Flows, Total, Owed, Heard, End, Other
<1>4. Ends
  BY DEF Init, RelayInit, Ends
<1> QED
  BY <1>1, <1>2, <1>3, <1>4

\* What a peer says next is a sequence of bytes.
LEMMA NextChunk ==
    ASSUME case \in Cases, NEW s \in End, given[s] \in Nat, given[s] < Len(case.chunks[s])
    PROVE  case.chunks[s][given[s] + 1] \in Seq(Nat)
<1>1. case.chunks[s] \in Seq(Seq(Nat))
  BY CasesAreBytes, ZenonT(40)
<1> DEFINE chunks == case.chunks[s]
           g == given[s]
<1>2. chunks \in Seq(Seq(Nat)) /\ g \in Nat /\ g < Len(chunks)
  BY <1>1
<1> HIDE DEF chunks, g
<1>3. chunks[g + 1] \in Seq(Nat)
  BY <1>2, ElementOfSeq
<1> QED
  BY <1>3, ZenonT(40) DEF chunks, g

\* The bytes of the packet are bytes.
LEMMA ExpectedBytes == ASSUME case \in Cases PROVE case.expect \in Seq(Nat)
BY CasesAreBytes

\* What a visit leaves in the queues and the sockets is bytes, no more than
\* the socket takes.
LEMMA VisitTypes ==
    ASSUME StreamTypes, NEW s \in End, NEW n \in 0..Len(arrived[s]), NEW m \in 0..Len(queue[Other(s)]), Visit(s, n, m),
           UNCHANGED setup
    PROVE  StreamTypes'
<1> DEFINE o == Other(s)
<1>0. o \in End /\ o # s
  BY DEF End, Other
<1>1. /\ queue[s] \in Seq(Nat) /\ queue[o] \in Seq(Nat) /\ arrived[s] \in Seq(Nat) /\ unsent[s] \in Seq(Nat)
      /\ Len(unsent[s]) <= SOCKET_BYTES
  BY <1>0 DEF StreamTypes
<1>2. /\ SubSeq(arrived[s], 1, n) \in Seq(Nat) /\ SubSeq(arrived[s], n + 1, Len(arrived[s])) \in Seq(Nat)
      /\ SubSeq(queue[o], 1, m) \in Seq(Nat) /\ SubSeq(queue[o], m + 1, Len(queue[o])) \in Seq(Nat)
      /\ Len(SubSeq(queue[o], 1, m)) = m
  BY <1>1, Parts, Zenon
<1>3. m <= Room(s) /\ Room(s) = SOCKET_BYTES - Len(unsent[s])
  BY DEF Visit, Room
<1> DEFINE qin == queue[s] \o SubSeq(arrived[s], 1, n)
           qout == SubSeq(queue[o], m + 1, Len(queue[o]))
           rest == SubSeq(arrived[s], n + 1, Len(arrived[s]))
           sent == unsent[s] \o SubSeq(queue[o], 1, m)
<1>4. qin \in Seq(Nat) /\ qout \in Seq(Nat) /\ rest \in Seq(Nat) /\ sent \in Seq(Nat)
  BY <1>1, <1>2
<1>5. Len(sent) <= SOCKET_BYTES
  BY <1>1, <1>2, <1>3, SentFits, ZenonT(40)
<1>6. /\ queue' = [queue EXCEPT ![s] = qin, ![o] = qout]
      /\ arrived' = [arrived EXCEPT ![s] = rest]
      /\ unsent' = [unsent EXCEPT ![s] = sent]
      /\ UNCHANGED <<shutdown_sent, given, said, fin, reset, got>>
  BY <1>0 DEF Visit, StreamTypes
<1>7. peer_eof' \in [End -> BOOLEAN]
  BY DEF Visit, StreamTypes
<1> HIDE DEF o, qin, qout, rest, sent
<1>8. /\ queue' \in [End -> Seq(Nat)] /\ arrived' \in [End -> Seq(Nat)] /\ unsent' \in [End -> Seq(Nat)]
      /\ \A e \in End : Len(unsent'[e]) <= SOCKET_BYTES
  BY <1>0, <1>4, <1>5, <1>6, ZenonT(40) DEF StreamTypes
<1> QED
  BY <1>6, <1>7, <1>8, ZenonT(40) DEF StreamTypes, setup

\* So is what the peers leave.
LEMMA PeerTypes ==
    ASSUME StreamTypes, NEW s \in End, Peer(s)
    PROVE  StreamTypes'
<1>0. UNCHANGED <<queue, peer_eof, shutdown_sent, case>>
  BY DEF Peer, relay, setup
<1>1. CASE Arrive(s, case.chunks[s])
  <2> DEFINE chunk == case.chunks[s][given[s] + 1]
  <2>1. chunk \in Seq(Nat)
    BY <1>1, NextChunk, Zenon DEF Arrive, StreamTypes
  <2>2. /\ said' = [said EXCEPT ![s] = @ \o chunk]
        /\ arrived' = [arrived EXCEPT ![s] = @ \o chunk]
        /\ given' = [given EXCEPT ![s] = @ + 1]
        /\ UNCHANGED <<fin, reset, unsent, got>>
    BY <1>1 DEF Arrive
  <2> HIDE DEF chunk
  <2> QED
    BY <1>0, <2>1, <2>2, SMTT(30) DEF StreamTypes
<1>2. CASE Close(s)
  <2>1. fin' \in [End -> BOOLEAN]
    BY <1>2 DEF Close, StreamTypes
  <2> QED
    BY <1>0, <1>2, <2>1 DEF Close, StreamTypes
<1>3. CASE Reset(s)
  <2>1. reset' \in [End -> BOOLEAN]
    BY <1>3 DEF Reset, StreamTypes
  <2>2. arrived' \in [End -> Seq(Nat)]
    <3>1. PICK kept \in {<<>>, arrived[s]} : arrived' = [arrived EXCEPT ![s] = kept]
      BY <1>3, Zenon DEF Reset
    <3>2. kept \in Seq(Nat)
      <4>1. <<>> \in Seq(Nat) /\ arrived[s] \in Seq(Nat)
        BY DEF StreamTypes
      <4> QED
        BY <3>1, <4>1, Zenon
    <3> QED
      BY <3>1, <3>2 DEF StreamTypes
  <2> QED
    BY <1>0, <1>3, <2>1, <2>2, Zenon DEF Reset, StreamTypes
<1>4. CASE PeerReads(s)
  <2>1. /\ got' \in [End -> Seq(Nat)] /\ unsent' \in [End -> Seq(Nat)]
        /\ \A e \in End : Len(unsent'[e]) <= SOCKET_BYTES
    BY <1>4, RelaySizes DEF PeerReads, StreamTypes
  <2> QED
    BY <1>0, <1>4, <2>1 DEF PeerReads, StreamTypes
<1> QED
  BY <1>1, <1>2, <1>3, <1>4 DEF Peer

\* And so is what the relay starts with and what a refusal says.
LEMMA TypesNext ==
    ASSUME StreamTypes, Decided, [Next]_vars
    PROVE  StreamTypes'
<1>1. CASE Aside \/ Ended
  BY <1>1 DEF Aside, Ended, streams, sockets, StreamTypes
<1>2. CASE Refusal
  <2>1. ASSUME NEW n \in 0..Len(Kick), n <= SOCKET_BYTES, unsent' = [unsent EXCEPT !["in"] = SubSeq(Kick, 1, n)]
        PROVE  unsent' \in [End -> Seq(Nat)] /\ \A e \in End : Len(unsent'[e]) <= SOCKET_BYTES
    <3>1. SubSeq(Kick, 1, n) \in Seq(Nat) /\ Len(SubSeq(Kick, 1, n)) = n
      BY PrefixStart, CasesAreBytes
    <3> QED
      BY <2>1, <3>1, Zenon DEF StreamTypes
  <2>2. unsent' \in [End -> Seq(Nat)] /\ \A e \in End : Len(unsent'[e]) <= SOCKET_BYTES
    BY <1>2, <2>1, Zenon DEF Refusal, StreamTypes
  <2> QED
    BY <1>2, <2>2 DEF Refusal, StreamTypes
<1>3. CASE Begun
  <2>1. decision.seed.bytes \in Seq(Nat)
    BY SeedsAreBytes DEF Decided, StreamTypes
  <2>2. queue' = [queue EXCEPT !["in"] = decision.seed.bytes]
    BY <1>3 DEF Begun
  <2>3. queue' \in [End -> Seq(Nat)]
    BY <2>1, <2>2, Zenon DEF StreamTypes
  <2> QED
    BY <1>3, <2>3 DEF Begun, StreamTypes, sockets
<1>4. CASE Propagate /\ UNCHANGED setup
  <2>1. shutdown_sent' \in [End -> BOOLEAN]
    BY <1>4 DEF Propagate, StreamTypes
  <2> QED
    BY <1>4, <2>1 DEF Propagate, StreamTypes, sockets, setup
<1> QED
  BY <1>1, <1>2, <1>3, <1>4, StreamCases, VisitTypes, PeerTypes

-----------------------------------------------------------------------------
(* What has been decided *)

\* Setup decides once; a refusal says no more than its message.
LEMMA DecidedNext ==
    ASSUME StreamTypes, Decided, [Next]_vars
    PROVE  Decided'
<1>0. "in" \in End /\ "out" \in End /\ \A s \in End : Other(s) \in End
  BY SMTT(30) DEF End, Other
<1>1. CASE Aside
  <2>1. UNCHANGED <<queue, got, unsent, status, result, case, decision>>
    BY <1>1 DEF Aside, streams, sockets
  <2>2. \/ pc' = pc \/ pc' = "exited"
        \/ pc \in Starting /\ pc' \in Starting
        \/ pc = "poll" /\ pc' = "in"
        \/ pc = "setup" /\ pc' = "connecting" /\ decision.connect
    BY <1>1 DEF Aside
  <2> QED
    BY <2>1, <2>2, Zenon DEF Decided, Stages, Starting, Relaying
<1>2. CASE Ended
  <2>1. UNCHANGED <<queue, got, unsent, status, case, decision>> /\ pc' = "exited" /\ pc \in Relaying
    BY <1>2, SMTT(30) DEF Ended, streams, sockets
  <2> QED
    BY <2>1 DEF Decided, Stages, Starting, Relaying
<1>3. CASE Refusal
  <2>1. /\ pc' = "exited" /\ status' \notin {"none", "OK"}
        /\ UNCHANGED <<queue, got, case, decision>>
        /\ pc \in {"setup", "connecting"}
    BY <1>3, SMTT(30) DEF Refusal
  <2>2. status = "none" /\ \A s \in End : queue[s] = <<>> /\ got[s] = <<>> /\ unsent[s] = <<>>
    BY <2>1 DEF Decided, Starting
  <2>3. unsent'["out"] = <<>> /\ IsPrefix(unsent'["in"], Kick) /\ unsent'["in"] \in Seq(Nat)
    <3>1. CASE unsent' = unsent
      <4>1. Kick \in Seq(Nat) /\ <<>> \in Seq(Nat)
        BY CasesAreBytes
      <4>2. IsPrefix(<<>>, Kick)
        BY <4>1, PrefixConcat
      <4> QED
        BY <1>0, <2>2, <3>1, <4>1, <4>2, Zenon
    <3>2. ASSUME NEW n \in 0..Len(Kick), unsent' = [unsent EXCEPT !["in"] = SubSeq(Kick, 1, n)]
          PROVE  unsent'["out"] = <<>> /\ IsPrefix(unsent'["in"], Kick) /\ unsent'["in"] \in Seq(Nat)
      <4>1. IsPrefix(SubSeq(Kick, 1, n), Kick) /\ SubSeq(Kick, 1, n) \in Seq(Nat)
        BY CasesAreBytes, PrefixStart
      <4> QED
        BY <1>0, <2>2, <3>2, <4>1 DEF StreamTypes
    <3> QED
      BY <1>3, <3>1, <3>2 DEF Refusal
  <2>4. got'["in"] \o unsent'["in"] = unsent'["in"]
    <3>1. got'["in"] = <<>>
      BY <1>0, <2>1, <2>2, ZenonT(40)
    <3> QED
      BY <2>3, <3>1, NothingAround, ZenonT(40)
  <2> QED
    BY <1>0, <2>1, <2>2, <2>3, <2>4 DEF Decided, Stages, Starting, Relaying
<1>4. CASE Begun
  <2>1. /\ pc' = "poll" /\ status' = "OK" /\ result' = result /\ UNCHANGED <<case, decision>>
        /\ pc \in {"setup", "connecting"}
    BY <1>4 DEF Begun
  <2>2. result = "none"
    BY <2>1, Zenon DEF Decided
  <2> QED
    BY <2>1, <2>2 DEF Decided, Stages, Starting, Relaying
<1>5. CASE Propagate /\ UNCHANGED setup
  <2>1. /\ pc = "propagate" /\ pc' = "poll"
        /\ UNCHANGED <<queue, got, unsent, status, result, case, decision>>
    BY <1>5, Zenon DEF Propagate, setup, sockets
  <2> QED
    BY <2>1, Zenon DEF Decided, Stages, Starting, Relaying
<1>6. ASSUME NEW s \in End, NEW n, NEW m, Visit(s, n, m), UNCHANGED setup PROVE Decided'
  <2>1. /\ pc \in Relaying /\ UNCHANGED <<status, case, decision>>
        /\ \/ pc' \in {"out", "propagate"} /\ result' = result
           \/ pc' = "exited"
    BY <1>6, Zenon DEF Visit, Relaying, End, setup
  <2> QED
    BY <2>1, Zenon DEF Decided, Stages, Starting, Relaying
<1>7. ASSUME NEW s \in End, Peer(s) PROVE Decided'
  <2>1. UNCHANGED <<pc, queue, status, result, case, decision>>
    BY <1>7 DEF Peer, relay, setup
  <2>2. CASE PeerReads(s)
    <3> DEFINE u == unsent[s]
               g == got[s]
    <3>1. /\ u # <<>> /\ got' = [got EXCEPT ![s] = g \o u] /\ unsent' = [unsent EXCEPT ![s] = <<>>]
      BY <2>2 DEF PeerReads
    <3>2. u \in Seq(Nat) /\ g \in Seq(Nat) /\ (g \o u) \o <<>> = g \o u
      BY DEF StreamTypes
    <3>3. status # "none"
      BY <3>1 DEF Decided
    <3>4. status \notin {"none", "OK"} => /\ s = "in" /\ got'["out"] = <<>> /\ unsent'["out"] = <<>>
                                      /\ got'["in"] \o unsent'["in"] = got["in"] \o unsent["in"]
      BY <1>0, <3>1, <3>2, ZenonT(40) DEF Decided, StreamTypes, End
    <3> QED
      BY <2>1, <3>3, <3>4, ZenonT(40) DEF Decided, Stages
  <2>3. CASE Arrive(s, case.chunks[s]) \/ Close(s) \/ Reset(s)
    <3>1. UNCHANGED <<got, unsent>>
      BY <2>3, Zenon DEF Arrive, Close, Reset
    <3> QED
      BY <2>1, <3>1 DEF Decided, Stages
  <2> QED
    BY <1>7, <2>2, <2>3, Zenon DEF Peer
<1> QED
  BY <1>1, <1>2, <1>3, <1>4, <1>5, <1>6, <1>7, StreamCases

-----------------------------------------------------------------------------
(* Nothing is lost *)

\* What is put before both keeps one a prefix of the other.
LEMMA PrefixBehind ==
    ASSUME NEW e \in Seq(Nat), NEW a \in Seq(Nat), NEW t \in Seq(Nat), IsPrefix(a, t)
    PROVE  IsPrefix(e \o a, e \o t)
<1>1. /\ e \o a \in Seq(Nat) /\ Len(e \o a) = Len(e) + Len(a)
      /\ e \o t \in Seq(Nat) /\ Len(e \o t) = Len(e) + Len(t)
  OBVIOUS
<1>2. Len(a) <= Len(t)
  BY DEF IsPrefix
<1>3. \A i \in 1..Len(a) : a[i] = t[i]
  <2> SUFFICES ASSUME NEW i \in 1..Len(a) PROVE a[i] = t[i]
    BY Zenon
  <2>1. SubSeq(a, 1, Len(a))[i] = SubSeq(t, 1, Len(a))[i]
    BY DEF IsPrefix
  <2> QED
    BY <1>2, <2>1
<1>4. \A i \in 1..Len(e \o a) : (e \o a)[i] = (e \o t)[i]
  <2> SUFFICES ASSUME NEW i \in 1..Len(e \o a) PROVE (e \o a)[i] = (e \o t)[i]
    BY Zenon
  <2>1. CASE i <= Len(e)
    BY <1>1, <1>2, <2>1
  <2>2. CASE i > Len(e)
    <3>1. i - Len(e) \in 1..Len(a)
      BY <1>1, <2>2
    <3>2. (e \o a)[i] = a[i - Len(e)] /\ (e \o t)[i] = t[i - Len(e)]
      BY <1>1, <1>2, <2>2, <3>1
    <3> QED
      BY <1>3, <3>1, <3>2
  <2>3. Len(e) \in Nat /\ i \in Nat
    OBVIOUS
  <2>4. i <= Len(e) \/ i > Len(e)
    BY <2>3
  <2> QED
    BY <2>1, <2>2, <2>4, Zenon
<1> QED
  BY <1>1, <1>2, <1>4 DEF IsPrefix

\* What has come from an end, spelled out.
LEMMA TotalIs ==
    ASSUME NEW s \in End
    PROVE  /\ Total(s) = ((got[Other(s)] \o unsent[Other(s)]) \o queue[s]) \o arrived[s]
           /\ Total(s)' = ((got'[Other(s)] \o unsent'[Other(s)]) \o queue'[s]) \o arrived'[s]
<1>1. Other(s) \in End /\ Other(Other(s)) = s
  BY DEF End, Other
<1> QED
  BY <1>1, Zenon DEF Total, Heard

\* It is a sequence of bytes, and so is what it should be.
LEMMA TotalBytes ==
    ASSUME StreamTypes, NEW s \in End
    PROVE  /\ (got[Other(s)] \o unsent[Other(s)]) \o queue[s] \in Seq(Nat)
           /\ got[Other(s)] \o unsent[Other(s)] \in Seq(Nat)
           /\ Total(s) \in Seq(Nat) /\ Owed(s) \in Seq(Nat) /\ said[s] \in Seq(Nat)
<1>0. Other(s) \in End
  BY DEF End, Other
<1> DEFINE g == got[Other(s)]
           u == unsent[Other(s)]
           q == queue[s]
           a == arrived[s]
           e == case.expect
           t == said[s]
<1>1. g \in Seq(Nat) /\ u \in Seq(Nat) /\ q \in Seq(Nat) /\ a \in Seq(Nat) /\ t \in Seq(Nat)
  BY <1>0 DEF StreamTypes
<1>2. e \in Seq(Nat)
  BY ExpectedBytes DEF StreamTypes
<1>3. Total(s) = ((g \o u) \o q) \o a /\ Owed(s) = (IF s = "in" /\ status = "OK" THEN e ELSE <<>>) \o t
  BY TotalIs, ZenonT(40) DEF Owed
<1> HIDE DEF g, u, q, a, e, t
<1>4. (g \o u) \in Seq(Nat) /\ (g \o u) \o q \in Seq(Nat) /\ ((g \o u) \o q) \o a \in Seq(Nat)
  BY <1>1
<1>5. e \o t \in Seq(Nat) /\ <<>> \o t \in Seq(Nat)
  BY <1>1, <1>2
<1>6. Owed(s) \in Seq(Nat)
  BY <1>3, <1>5
<1> QED
  BY <1>1, <1>3, <1>4, <1>6, ZenonT(40) DEF g, u, q, t

\* A step that moves bytes along, and says and decides nothing.
LEMMA FlowsKept ==
    ASSUME Flows, UNCHANGED <<status, case, said>>,
           \A s \in End : Total(s)' = Total(s) /\ (reset[s] => reset'[s])
    PROVE  Flows'
<1>1. ASSUME NEW s \in End PROVE Owed(s)' = Owed(s)
  BY DEF Owed
<1> QED
  BY <1>1 DEF Flows

\* The peer reads what was sent to it.
LEMMA PeerReadsFlows ==
    ASSUME StreamTypes, Flows, NEW s \in End, PeerReads(s), UNCHANGED <<queue, status, case>>
    PROVE  Flows'
<1>1. UNCHANGED <<arrived, said, reset>>
  BY DEF PeerReads
<1>2. ASSUME NEW e \in End PROVE Total(e)' = Total(e)
  <2>0. Other(e) \in End
    BY DEF End, Other
  <2>1. got'[Other(e)] \o unsent'[Other(e)] = got[Other(e)] \o unsent[Other(e)]
    <3>1. CASE s = Other(e)
      <4>1. got'[s] = got[s] \o unsent[s] /\ unsent'[s] = <<>>
        BY Zenon DEF PeerReads, StreamTypes
      <4>2. got[s] \o unsent[s] \in Seq(Nat)
        BY DEF StreamTypes
      <4> QED
        BY <3>1, <4>1, <4>2, NothingAround, Zenon
    <3>2. CASE s # Other(e)
      BY <2>0, <3>2, ZenonT(40) DEF PeerReads, StreamTypes
    <3> QED
      BY <3>1, <3>2, Zenon
  <2> QED
    BY <1>1, <2>1, TotalIs, ZenonT(40)
<1> QED
  BY <1>1, <1>2, FlowsKept, Zenon

\* The peer says more: it is owed and there.
LEMMA ArriveFlows ==
    ASSUME StreamTypes, Flows, NEW s \in End, Arrive(s, case.chunks[s]), UNCHANGED <<queue, status, case>>
    PROVE  Flows'
<1> DEFINE chunk == case.chunks[s][given[s] + 1]
<1>1. chunk \in Seq(Nat)
  BY NextChunk, ZenonT(40) DEF Arrive, StreamTypes
<1>2. /\ said' = [said EXCEPT ![s] = @ \o chunk]
      /\ arrived' = [arrived EXCEPT ![s] = @ \o chunk]
      /\ UNCHANGED <<fin, reset, unsent, got>> /\ ~reset[s]
  BY ZenonT(40) DEF Arrive, Speaking
<1> HIDE DEF chunk
<1> SUFFICES ASSUME status \in {"none", "OK"}, NEW e \in End
             PROVE  IsPrefix(Total(e)', Owed(e)') /\ (~reset'[e] => Total(e)' = Owed(e)')
  BY <1>2, ZenonT(40) DEF Flows
<1>3. IsPrefix(Total(e), Owed(e)) /\ (~reset[e] => Total(e) = Owed(e))
  BY DEF Flows
<1>4. CASE e # s
  <2>1. arrived'[e] = arrived[e] /\ said'[e] = said[e]
    BY <1>2, <1>4 DEF StreamTypes
  <2>2. Total(e)' = Total(e)
    BY <1>2, <2>1, TotalIs, ZenonT(40)
  <2>3. Owed(e)' = Owed(e)
    BY <2>1 DEF Owed
  <2> QED
    BY <1>2, <1>3, <2>2, <2>3, ZenonT(40)
<1>5. CASE e = s
  <2> DEFINE x == (got[Other(s)] \o unsent[Other(s)]) \o queue[s]
             y == IF s = "in" /\ status = "OK" THEN case.expect ELSE <<>>
             a == arrived[s]
             t == said[s]
  <2>1. x \in Seq(Nat) /\ Total(s) = x \o a /\ Total(s)' = x \o arrived'[s]
    BY <1>2, TotalBytes, TotalIs, ZenonT(40)
  <2>2. y \in Seq(Nat) /\ Owed(s) = y \o t /\ Owed(s)' = y \o said'[s]
    <3>1. case.expect \in Seq(Nat)
      BY ExpectedBytes, ZenonT(40) DEF StreamTypes
    <3> QED
      BY <1>2, <3>1, NoBytes, ZenonT(40) DEF Owed
  <2>3. a \in Seq(Nat) /\ t \in Seq(Nat) /\ arrived'[s] = a \o chunk /\ said'[s] = t \o chunk
    BY <1>2, Zenon DEF StreamTypes
  <2>4. x \o a = y \o t
    BY <1>2, <1>3, <1>5, <2>1, <2>2, ZenonT(40)
  <2> HIDE DEF x, y, a, t
  <2>5. (x \o a) \o chunk = x \o (a \o chunk) /\ (y \o t) \o chunk = y \o (t \o chunk)
    BY <1>1, <2>1, <2>2, <2>3, Joining, ZenonT(40)
  <2>6. Total(s)' = Owed(s)'
    BY <2>1, <2>2, <2>3, <2>4, <2>5, ZenonT(40)
  <2>7. x \o (a \o chunk) \in Seq(Nat)
    BY <1>1, <2>1, <2>3, JoinBytes
  <2>8. Total(s)' \in Seq(Nat) /\ <<>> \in Seq(Nat)
    <3>1. Total(s)' = x \o (a \o chunk)
      BY <2>1, <2>3, ZenonT(40)
    <3> QED
      BY <2>7, <3>1, NoBytes, ZenonT(40)
  <2>9. IsPrefix(Total(s)', Total(s)')
    BY <2>8, PrefixConcat, SMTT(30)
  <2> QED
    BY <1>5, <2>6, <2>9, ZenonT(40)
<1> QED
  BY <1>4, <1>5

\* A reset may take what had not been read; nothing more is claimed of that end.
LEMMA ResetFlows ==
    ASSUME StreamTypes, Flows, NEW s \in End, Reset(s), UNCHANGED <<queue, status, case>>
    PROVE  Flows'
<1>1. PICK kept \in {<<>>, arrived[s]} : arrived' = [arrived EXCEPT ![s] = kept]
  BY ZenonT(40) DEF Reset
<1>2. reset' = [reset EXCEPT ![s] = TRUE] /\ UNCHANGED <<said, unsent, got>>
  BY ZenonT(40) DEF Reset
<1> SUFFICES ASSUME status \in {"none", "OK"}, NEW e \in End
             PROVE  IsPrefix(Total(e)', Owed(e)') /\ (~reset'[e] => Total(e)' = Owed(e)')
  BY Zenon DEF Flows
<1>3. IsPrefix(Total(e), Owed(e)) /\ (~reset[e] => Total(e) = Owed(e))
  BY DEF Flows
<1>4. Owed(e)' = Owed(e)
  BY <1>2, SMTT(30) DEF Owed
<1>5. CASE e # s
  <2>1. arrived'[e] = arrived[e] /\ reset'[e] = reset[e]
    BY <1>1, <1>2, <1>5, ZenonT(40) DEF StreamTypes
  <2>2. Total(e)' = Total(e)
    BY <1>2, <2>1, TotalIs, Zenon
  <2> QED
    BY <1>3, <1>4, <2>1, <2>2
<1>6. CASE e = s
  <2> DEFINE x == (got[Other(s)] \o unsent[Other(s)]) \o queue[s]
  <2>1. x \in Seq(Nat) /\ Total(s) = x \o arrived[s] /\ Total(s)' = x \o arrived'[s]
    BY <1>2, TotalBytes, TotalIs, ZenonT(40)
  <2>2. arrived[s] \in Seq(Nat) /\ Owed(s) \in Seq(Nat)
    BY TotalBytes, ZenonT(40) DEF StreamTypes
  <2> HIDE DEF x
  <2>3. IsPrefix(x, Owed(s))
    <3>1. IsPrefix(x \o arrived[s], Owed(s))
      BY <1>3, <1>6, <2>1, ZenonT(40)
    <3> QED
      BY <2>1, <2>2, <3>1, PrefixShorter, Zenon
  <2>4. x \o <<>> = x
    BY <2>1, NothingAround
  <2>5. arrived'[s] = kept /\ reset'[s] = TRUE
    BY <1>1, <1>2, Zenon DEF StreamTypes
  <2>6. Total(s)' = x \/ Total(s)' = Total(s)
    BY <1>1, <2>1, <2>4, <2>5, ZenonT(40)
  <2> QED
    BY <1>3, <1>4, <1>6, <2>3, <2>5, <2>6, ZenonT(40)
<1> QED
  BY <1>5, <1>6

\* A visit takes bytes from a socket to a queue and from a queue to a socket.
LEMMA VisitFlows ==
    ASSUME StreamTypes, Flows, NEW s \in End, NEW n \in 0..Len(arrived[s]), NEW m \in 0..Len(queue[Other(s)]),
           Visit(s, n, m), UNCHANGED <<status, case>>
    PROVE  Flows'
<1> DEFINE o == Other(s)
<1>0. o \in End /\ o # s /\ Other(o) = s /\ \A e \in End : e = s \/ e = o
  BY DEF End, Other
<1> DEFINE x == SubSeq(arrived[s], 1, n)
           y == SubSeq(arrived[s], n + 1, Len(arrived[s]))
           v == SubSeq(queue[o], 1, m)
           w == SubSeq(queue[o], m + 1, Len(queue[o]))
<1>1. UNCHANGED <<said, reset, got>>
  BY DEF Visit
<1>2. /\ queue'[s] = queue[s] \o x /\ queue'[o] = w
      /\ arrived'[s] = y /\ arrived'[o] = arrived[o]
      /\ unsent'[s] = unsent[s] \o v /\ unsent'[o] = unsent[o]
  BY <1>0, ZenonT(40) DEF Visit, StreamTypes
<1>3. /\ queue[s] \in Seq(Nat) /\ queue[o] \in Seq(Nat) /\ arrived[s] \in Seq(Nat)
      /\ unsent[s] \in Seq(Nat) /\ got[s] \in Seq(Nat)
  BY <1>0 DEF StreamTypes
<1>4. Total(s)' = Total(s)
  <2> DEFINE h == got[o] \o unsent[o]
  <2>1. h \in Seq(Nat) /\ Total(s) = (h \o queue[s]) \o arrived[s] /\ Total(s)' = (h \o queue'[s]) \o arrived'[s]
    BY <1>1, <1>2, TotalBytes, TotalIs, ZenonT(40)
  <2> DEFINE q == queue[s]
             a == arrived[s]
  <2>2. q \in Seq(Nat) /\ a \in Seq(Nat) /\ n \in 0..Len(a)
    BY <1>3, Zenon
  <2> HIDE DEF h, q, a
  <2>3. (h \o (q \o SubSeq(a, 1, n))) \o SubSeq(a, n + 1, Len(a)) = (h \o q) \o a
    BY <2>1, <2>2, ReadMoves, ZenonT(40)
  <2> QED
    BY <1>2, <2>1, <2>3, Zenon DEF q, a
<1>5. Total(o)' = Total(o)
  <2>1. /\ Total(o) = ((got[s] \o unsent[s]) \o queue[o]) \o arrived[o]
        /\ Total(o)' = ((got[s] \o unsent'[s]) \o queue'[o]) \o arrived[o]
    BY <1>0, <1>1, <1>2, TotalIs, Zenon
  <2> DEFINE g == got[s]
             u == unsent[s]
             q == queue[o]
  <2>2. g \in Seq(Nat) /\ u \in Seq(Nat) /\ q \in Seq(Nat) /\ m \in 0..Len(q)
    BY <1>3, Zenon
  <2> HIDE DEF g, u, q
  <2>3. (g \o (u \o SubSeq(q, 1, m))) \o SubSeq(q, m + 1, Len(q)) = (g \o u) \o q
    BY <2>2, WriteMoves, ZenonT(40)
  <2> QED
    BY <1>2, <2>1, <2>3, Zenon DEF g, u, q
<1>6. \A e \in End : Total(e)' = Total(e)
  BY <1>0, <1>4, <1>5, Zenon
<1> QED
  BY <1>1, <1>6, FlowsKept, ZenonT(40)

\* The relay starts with the packet, and nothing has moved before it.
LEMMA BegunFlows ==
    ASSUME SeedsAreExpected, StreamTypes, Decided, Flows, Begun
    PROVE  Flows'
<1> DEFINE e == case.expect
<1>1. status = "none" /\ status' = "OK" /\ UNCHANGED <<arrived, said, reset, unsent, got, case>>
  BY Zenon DEF Begun, Decided, Starting, sockets
<1>2. e \in Seq(Nat) /\ decision.seed.bytes = e
  BY ExpectedBytes DEF Begun, SeedsAreExpected, SeedIsExpected, Decided, StreamTypes
<1>3. /\ \A s \in End : queue[s] = <<>> /\ got[s] = <<>> /\ unsent[s] = <<>>
      /\ "in" \in End /\ "out" \in End /\ Other("in") = "out" /\ Other("out") = "in"
      /\ \A s \in End : s = "in" \/ s = "out"
  BY <1>1, ZenonT(40) DEF Decided, End, Other
<1>4. queue'["in"] = e /\ queue'["out"] = <<>>
  BY <1>2, <1>3, ZenonT(40) DEF Begun, StreamTypes
<1>5. /\ arrived["in"] \in Seq(Nat) /\ arrived["out"] \in Seq(Nat)
      /\ said["in"] \in Seq(Nat) /\ said["out"] \in Seq(Nat)
  BY <1>3 DEF StreamTypes
<1>6. <<>> \o <<>> = <<>> /\ \A t \in Seq(Nat) : <<>> \o t = t
  BY NothingAround, NoBytes, ZenonT(40)
<1>7. ASSUME NEW s \in End
      PROVE  /\ Total(s) = arrived[s] /\ Owed(s) = said[s]
             /\ IsPrefix(arrived[s], said[s]) /\ (~reset[s] => arrived[s] = said[s])
  <2>1. Total(s) = ((<<>> \o <<>>) \o <<>>) \o arrived[s]
    BY <1>3, TotalIs, ZenonT(40)
  <2>2. Total(s) = arrived[s]
    BY <1>3, <1>5, <1>6, <2>1, ZenonT(40)
  <2>3. status # "OK"
    BY <1>1
  <2>4. Owed(s) = said[s]
    BY <1>3, <1>5, <1>6, <2>3, ZenonT(40) DEF Owed
  <2>5. status \in {"none", "OK"}
    BY <1>1
  <2> QED
    BY <2>2, <2>4, <2>5, ZenonT(40) DEF Flows
<1> HIDE DEF e
<1>8. /\ Total("in")' = e \o arrived["in"]
      /\ Total("out")' = arrived["out"]
  <2>1. Total("in")' = ((<<>> \o <<>>) \o e) \o arrived["in"]
    BY <1>1, <1>3, <1>4, TotalIs, Zenon
  <2>2. Total("out")' = ((<<>> \o <<>>) \o <<>>) \o arrived["out"]
    BY <1>1, <1>3, <1>4, TotalIs, ZenonT(40)
  <2>3. (<<>> \o <<>>) \o e = e /\ ((<<>> \o <<>>) \o <<>>) \o arrived["out"] = arrived["out"]
    BY <1>2, <1>5, <1>6, ZenonT(40)
  <2> QED
    BY <2>1, <2>2, <2>3, Zenon
<1>9. Owed("in")' = e \o said["in"] /\ Owed("out")' = said["out"]
  <2>1. Owed("in")' = e \o said["in"]
    BY <1>1, ZenonT(40) DEF Owed, e
  <2>2. Owed("out")' = <<>> \o said["out"]
    BY <1>1 DEF Owed
  <2> QED
    BY <1>5, <1>6, <2>1, <2>2, ZenonT(40)
<1>10. IsPrefix(e \o arrived["in"], e \o said["in"])
  BY <1>2, <1>3, <1>5, <1>7, PrefixBehind, ZenonT(40)
<1>11. ASSUME NEW s \in End
       PROVE  IsPrefix(Total(s)', Owed(s)') /\ (~reset'[s] => Total(s)' = Owed(s)')
  <2>1. CASE s = "in"
    BY <1>1, <1>7, <1>8, <1>9, <1>10, <2>1, ZenonT(40)
  <2>2. CASE s = "out"
    BY <1>1, <1>7, <1>8, <1>9, <2>2, ZenonT(40)
  <2> QED
    BY <1>3, <2>1, <2>2, ZenonT(40)
<1> QED
  BY <1>11 DEF Flows

\* Nothing is lost, repeated or reordered by any step.
LEMMA FlowsNext ==
    ASSUME SeedsAreExpected, StreamTypes, Decided, Flows, [Next]_vars
    PROVE  Flows'
<1>1. ASSUME UNCHANGED <<queue, arrived, unsent, got, said, reset, status, case>> PROVE Flows'
  <2>1. \A s \in End : Total(s)' = Total(s)
    BY <1>1, TotalIs, ZenonT(40)
  <2> QED
    BY <1>1, <2>1, FlowsKept, ZenonT(40)
<1>2. CASE Aside \/ Ended \/ (Propagate /\ UNCHANGED setup)
  BY <1>1, <1>2, ZenonT(40) DEF Aside, Ended, Propagate, streams, sockets, setup
<1>3. CASE Refusal
  BY <1>3 DEF Refusal, Flows
<1>4. CASE Begun
  BY <1>4, BegunFlows, Zenon
<1>5. ASSUME NEW s \in End, Peer(s) PROVE Flows'
  <2>1. UNCHANGED <<queue, status, case>>
    BY <1>5, Zenon DEF Peer, relay, setup
  <2>2. CASE Close(s)
    BY <1>1, <2>1, <2>2, Zenon DEF Close
  <2> QED
    BY <1>5, <2>1, <2>2, ArriveFlows, ResetFlows, PeerReadsFlows, Zenon DEF Peer
<1>6. ASSUME NEW s \in End, NEW n \in 0..Len(arrived[s]), NEW m \in 0..Len(queue[Other(s)]),
             Visit(s, n, m), UNCHANGED setup
      PROVE  Flows'
  BY <1>6, VisitFlows, Zenon DEF setup
<1> QED
  BY <1>2, <1>3, <1>4, <1>5, <1>6, StreamCases

-----------------------------------------------------------------------------
(* Ends of streams *)

\* Which ends of stream are known and passed on, after any step.
LEMMA EndsNext ==
    ASSUME StreamTypes, Decided, Ends, [Next]_vars
    PROVE  Ends'
<1>0. pc \in Relaying => status = "OK"
  BY DEF Decided
<1>1. CASE Aside
  <2>1. UNCHANGED <<queue, peer_eof, shutdown_sent, fin, arrived, status, result>> /\ (pc' = pc \/ pc' # "poll")
    BY <1>1, Zenon DEF Aside, streams, sockets, Starting
  <2> QED
    BY <2>1 DEF Ends
<1>2. CASE Ended
  <2>1. UNCHANGED <<queue, peer_eof, shutdown_sent, fin, arrived, status>> /\ pc' = "exited"
        /\ (result' = "CLOSED" => \A s \in End : shutdown_sent[s])
    BY <1>2, Zenon DEF Ended, streams, sockets, net_relay_finished
  <2> QED
    BY <2>1, Zenon DEF Ends
<1>3. CASE Refusal
  <2>1. UNCHANGED <<queue, peer_eof, shutdown_sent, fin, arrived, result>> /\ pc' = "exited" /\ status # "OK"
    BY <1>3, Zenon DEF Refusal, Decided, Starting
  <2> QED
    BY <2>1, Zenon DEF Ends
<1>4. CASE Begun
  <2>1. /\ UNCHANGED <<peer_eof, shutdown_sent, fin, arrived, result>> /\ status # "OK"
        /\ pc # "exited"
    BY <1>4, Zenon DEF Begun, Decided, Starting, sockets
  <2>2. \A s \in End : ~peer_eof[s] /\ ~shutdown_sent[s]
    BY <2>1, Zenon DEF Ends
  <2>3. result = "none"
    BY <2>1, ZenonT(40) DEF Decided
  <2> QED
    BY <2>1, <2>2, <2>3, Zenon DEF Ends
<1>5. CASE Propagate /\ UNCHANGED setup
  <2>1. /\ UNCHANGED <<queue, peer_eof, fin, arrived, result, status>>
        /\ shutdown_sent' = [s \in End |-> shutdown_sent[s] \/ (peer_eof[s] /\ queue[s] = <<>>)]
        /\ pc = "propagate"
    BY <1>5, ZenonT(40) DEF Propagate, setup, sockets, net_relay_shutdown_propagate
  <2>2. \A s \in End : shutdown_sent'[s] <=> peer_eof[s] /\ queue[s] = <<>>
    BY <2>1 DEF Ends, StreamTypes
  <2>3. result = "none"
    BY <2>1, ZenonT(40) DEF Decided
  <2> QED
    BY <2>1, <2>2, <2>3, SMTT(30) DEF Ends
<1>6. ASSUME NEW s \in End, NEW n \in 0..Len(arrived[s]), NEW m \in 0..Len(queue[Other(s)]),
             Visit(s, n, m), UNCHANGED setup
      PROVE  Ends'
  <2> DEFINE o == Other(s)
             a == arrived[s]
  <2>0. o \in End /\ o # s /\ \A e \in End : e = s \/ e = o
    BY DEF End, Other
  <2>1. PICK eof \in BOOLEAN :
          /\ peer_eof' = [peer_eof EXCEPT ![s] = eof]
          /\ peer_eof[s] => eof /\ n = 0
          /\ eof => peer_eof[s] \/ (fin[s] /\ n = Len(arrived[s]))
    BY <1>6, ZenonT(40) DEF Visit
  <2>2. /\ UNCHANGED <<shutdown_sent, fin, status>> /\ pc \in Relaying /\ pc' # "poll"
        /\ pc # "exited" /\ (result' = result \/ result' = "ERROR")
    BY <1>6, SMTT(30) DEF Visit, setup, Relaying, End
  <2>3. result' # "CLOSED" /\ status = "OK"
    BY <2>2, Zenon DEF Decided
  <2>4. /\ queue'[s] = queue[s] \o SubSeq(a, 1, n) /\ queue'[o] = SubSeq(queue[o], m + 1, Len(queue[o]))
        /\ arrived'[s] = SubSeq(a, n + 1, Len(a)) /\ arrived'[o] = arrived[o]
        /\ peer_eof'[s] = eof /\ peer_eof'[o] = peer_eof[o]
    BY <1>6, <2>0, <2>1, ZenonT(40) DEF Visit, StreamTypes
  <2>5. a \in Seq(Nat) /\ queue[s] \in Seq(Nat) /\ queue[o] \in Seq(Nat)
    BY <2>0 DEF StreamTypes
  <2>6. eof => fin[s] /\ arrived'[s] = <<>>
    <3>1. CASE peer_eof[s]
      <4>1. fin[s] /\ a = <<>> /\ n = 0
        BY <2>1, <3>1 DEF Ends
      <4>2. SubSeq(<<>>, 0 + 1, Len(<<>>)) = <<>>
        BY EmptyRest
      <4> QED
        BY <2>4, <4>1, <4>2, ZenonT(40)
    <3>2. CASE ~peer_eof[s] /\ eof
      <4>1. fin[s] /\ n = Len(a)
        BY <2>1, <3>2
      <4> QED
        BY <2>4, <2>5, <4>1, EmptyRest, Zenon
    <3> QED
      BY <3>1, <3>2, ZenonT(40)
  <2>7. shutdown_sent[s] => eof /\ queue'[s] = <<>>
    <3> SUFFICES ASSUME shutdown_sent[s] PROVE eof /\ queue'[s] = <<>>
      BY Zenon
    <3>1. peer_eof[s] /\ queue[s] = <<>>
      BY DEF Ends
    <3>2. eof /\ n = 0
      BY <2>1, <3>1
    <3>3. SubSeq(a, 1, 0) = <<>> /\ <<>> \o <<>> = <<>>
      BY <2>5, EmptyRest, NothingAround, NoBytes, ZenonT(40)
    <3> QED
      BY <2>4, <3>1, <3>2, <3>3, ZenonT(40)
  <2>8. shutdown_sent[o] => peer_eof[o] /\ queue'[o] = <<>>
    <3> SUFFICES ASSUME shutdown_sent[o] PROVE peer_eof[o] /\ queue'[o] = <<>>
      BY ZenonT(40)
    <3>1. peer_eof[o] /\ queue[o] = <<>>
      BY <2>0 DEF Ends
    <3>2. m = 0
      <4>1. m \in 0..Len(<<>>)
        BY <1>6, <3>1, Zenon
      <4> QED
        BY <4>1, EmptyRest, ZenonT(40)
    <3>3. SubSeq(<<>>, 0 + 1, Len(<<>>)) = <<>>
      BY EmptyRest
    <3> QED
      BY <2>4, <3>1, <3>2, <3>3, ZenonT(40)
  <2>9. peer_eof[o] => fin[o] /\ arrived[o] = <<>>
    BY <2>0 DEF Ends
  <2> HIDE DEF o, a
  <2>10. \A e \in End : shutdown_sent'[e] => peer_eof'[e] /\ queue'[e] = <<>>
    BY <2>0, <2>2, <2>4, <2>7, <2>8, ZenonT(40)
  <2>11. \A e \in End : peer_eof'[e] => fin'[e] /\ arrived'[e] = <<>> /\ status' = "OK"
    BY <2>0, <2>2, <2>3, <2>4, <2>6, <2>9, ZenonT(40)
  <2> QED
    BY <2>2, <2>3, <2>10, <2>11, Zenon DEF Ends
<1>7. ASSUME NEW s \in End, Peer(s) PROVE Ends'
  <2>1. UNCHANGED <<pc, queue, peer_eof, shutdown_sent, status, result>>
    BY <1>7, ZenonT(40) DEF Peer, relay, setup
  <2>2. ASSUME NEW e \in End, fin[e], arrived[e] = <<>> PROVE fin'[e] /\ arrived'[e] = <<>>
    <3>1. CASE Arrive(s, case.chunks[s])
      <4>1. e # s
        BY <2>2, <3>1, ZenonT(40) DEF Arrive, Speaking
      <4> QED
        BY <2>2, <3>1, <4>1 DEF Arrive, StreamTypes
    <3>2. CASE Close(s)
      BY <2>2, <3>2 DEF Close, StreamTypes
    <3>3. CASE Reset(s)
      BY <2>2, <3>3, ZenonT(40) DEF Reset, StreamTypes
    <3>4. CASE PeerReads(s)
      BY <2>2, <3>4, SMTT(30) DEF PeerReads
    <3> QED
      BY <1>7, <3>1, <3>2, <3>3, <3>4, ZenonT(40) DEF Peer
  <2> QED
    BY <2>1, <2>2 DEF Ends
<1> QED
  BY <1>1, <1>2, <1>3, <1>4, <1>5, <1>6, <1>7, StreamCases, Zenon

-----------------------------------------------------------------------------
(* The theorems *)

\* An end of stream that poll is asked about is one that matters: what the
\* relay waits for cannot be had.
LEMMA IdleIsRight ==
    ASSUME StreamTypes, Ends
    PROVE  PollMissesNothing
<1> SUFFICES ASSUME Idle, NEW s \in End
             PROVE  \/ queue[s] # <<>> /\ Room(Other(s)) = 0
                    \/ queue[s] = <<>> /\ arrived[s] = <<>> /\ (fin[s] \/ reset[s] => shutdown_sent[s])
  BY DEF PollMissesNothing
<1> DEFINE o == Other(s)
<1>0. o \in End /\ Other(o) = s
  BY DEF End, Other
<1>1. pc = "poll" /\ Events(s) = {} /\ Events(o) = {}
  BY <1>0 DEF Idle
<1>2. Room(o) \in Nat /\ (queue[s] = <<>> => Space(s) > 0)
  <2>1. unsent[o] \in Seq(Nat) /\ Len(unsent[o]) <= SOCKET_BYTES
    BY <1>0 DEF StreamTypes
  <2> DEFINE u == unsent[o]
  <2>2. Len(u) \in Nat /\ Len(u) <= SOCKET_BYTES
    BY <2>1
  <2> HIDE DEF u
  <2>3. SOCKET_BYTES - Len(u) \in Nat
    BY <2>2, RelaySizes
  <2>4. NET_RELAY_BUFFER_BYTES - Len(<<>>) > 0
    BY RelaySizes
  <2> QED
    BY <2>3, <2>4, ZenonT(40) DEF Room, Space, u
<1>3. CASE queue[s] # <<>>
  <2>1. ~shutdown_sent[s]
    BY <1>3 DEF Ends
  <2>2. want_write(o)
    BY <1>0, <1>3, <2>1, ZenonT(40) DEF want_write
  <2>3. ~(Room(o) > 0)
    BY <1>1, <2>2, ZenonT(40) DEF Events
  <2>4. Room(o) = 0
    BY <1>2, <2>3, SMTT(30)
  <2> QED
    BY <1>3, <2>4, SMTT(30)
<1>4. CASE queue[s] = <<>> /\ peer_eof[s]
  <2>1. arrived[s] = <<>> /\ shutdown_sent[s]
    BY <1>1, <1>4, ZenonT(40) DEF Ends
  <2> QED
    BY <1>4, <2>1, SMTT(30)
<1>5. CASE queue[s] = <<>> /\ ~peer_eof[s]
  <2>1. want_read(s)
    BY <1>2, <1>5, ZenonT(40) DEF want_read
  <2>2. ~(arrived[s] # <<>> \/ fin[s] \/ reset[s])
    BY <1>1, <2>1, ZenonT(40) DEF Events
  <2> QED
    BY <1>5, <2>2
<1> QED
  BY <1>3, <1>4, <1>5, ZenonT(40)

\* Each end has heard a beginning of what it should.
LEMMA HeardIsDue ==
    ASSUME StreamTypes, Decided, Flows
    PROVE  StreamIntact
<1> SUFFICES ASSUME NEW s \in End PROVE IsPrefix(Heard(s), Due(s))
  BY DEF StreamIntact
<1> DEFINE o == Other(s)
<1>0. /\ o \in End /\ Other(o) = s /\ ((s = "in" /\ o = "out") \/ (s = "out" /\ o = "in"))
      /\ "in" \in End /\ "out" \in End
  <2>1. o \in End /\ Other(o) = s
    BY DEF End, Other
  <2>2. s = "in" => o = "out"
    BY DEF Other
  <2>3. s = "out" => o = "in"
    BY DEF Other
  <2>4. (s = "in" \/ s = "out") /\ "in" \in End /\ "out" \in End
    BY Zenon DEF End
  <2> HIDE DEF o
  <2> QED
    BY <2>1, <2>2, <2>3, <2>4
<1>1. /\ Heard(s) = (got[s] \o unsent[s]) \o queue[o]
      /\ Heard(s) \in Seq(Nat) /\ got[s] \o unsent[s] \in Seq(Nat)
      /\ Total(o) = Heard(s) \o arrived[o]
      /\ Owed(o) \in Seq(Nat) /\ said[o] \in Seq(Nat)
  BY <1>0, TotalBytes, TotalIs, ZenonT(40) DEF Heard
<1>2. arrived[o] \in Seq(Nat) /\ case.expect \in Seq(Nat) /\ said["in"] \in Seq(Nat) /\ said["out"] \in Seq(Nat)
  BY <1>0, ExpectedBytes DEF StreamTypes
<1>3. ASSUME status \in {"none", "OK"} PROVE IsPrefix(Heard(s), Owed(o))
  <2>1. IsPrefix(Heard(s) \o arrived[o], Owed(o))
    BY <1>0, <1>1, <1>3, ZenonT(40) DEF Flows
  <2> QED
    BY <1>1, <1>2, <2>1, PrefixShorter, ZenonT(40)
<1>4. <<>> \o said["out"] = said["out"]
  BY <1>2, NothingAround
<1>5. <<>> \o <<>> = <<>>
  BY NoBytes, NothingAround
<1>6. case.expect \o said["in"] \in Seq(Nat)
  <2> DEFINE e == case.expect
             t == said["in"]
  <2>1. e \in Seq(Nat) /\ t \in Seq(Nat)
    BY <1>2
  <2> HIDE DEF e, t
  <2>2. e \o t \in Seq(Nat)
    BY <2>1
  <2> QED
    BY <2>2 DEF e, t
<1>7. CASE s = "in" /\ status \in {"none", "OK"}
  <2>1. o = "out" /\ Due(s) = said["out"]
    BY <1>0, <1>7, ZenonT(40) DEF Due
  <2>2. Owed("out") = <<>> \o said["out"]
    BY Zenon DEF Owed
  <2> QED
    BY <1>3, <1>4, <1>7, <2>1, <2>2, ZenonT(40)
<1>8. CASE s = "out" /\ status = "OK"
  <2>1. o = "in" /\ Due(s) = case.expect \o said["in"]
    BY <1>0, <1>8, ZenonT(40) DEF Due
  <2>2. Owed("in") = case.expect \o said["in"] /\ status \in {"none", "OK"}
    BY <1>8, ZenonT(40) DEF Owed
  <2> QED
    BY <1>3, <2>1, <2>2, ZenonT(40)
<1>9. CASE s = "out" /\ status # "OK"
  <2>1. got["out"] = <<>> /\ unsent["out"] = <<>> /\ queue["in"] = <<>>
    BY <1>0, <1>9 DEF Decided
  <2>2. o = "in" /\ Due(s) = case.expect \o said["in"]
    BY <1>0, <1>9, ZenonT(40) DEF Due
  <2>3. Heard(s) = <<>>
    BY <1>1, <1>5, <1>9, <2>1, <2>2, ZenonT(40)
  <2>4. IsPrefix(<<>>, case.expect \o said["in"])
    BY <1>6, NoBytes, PrefixConcat, ZenonT(40)
  <2> QED
    BY <2>2, <2>3, <2>4, ZenonT(40)
<1>10. CASE s = "in" /\ status \notin {"none", "OK"}
  <2>1. queue["out"] = <<>> /\ IsPrefix(got["in"] \o unsent["in"], Kick)
    BY <1>0, <1>10 DEF Decided
  <2>2. o = "out" /\ Due(s) = Kick
    BY <1>0, <1>10, ZenonT(40) DEF Due
  <2>3. Heard(s) = got["in"] \o unsent["in"]
    BY <1>1, <1>10, <2>1, <2>2, NothingAround, ZenonT(40)
  <2> QED
    BY <2>1, <2>2, <2>3, ZenonT(40)
<1> QED
  BY <1>0, <1>7, <1>8, <1>9, <1>10, ZenonT(40)

\* A close passed on comes behind everything.
LEMMA EofIsLast ==
    ASSUME StreamTypes, Decided, Flows, Ends
    PROVE  EofMeansComplete
<1> SUFFICES ASSUME NEW s \in End, shutdown_sent[s], ~reset[s]
             PROVE  got[Other(s)] \o unsent[Other(s)] = Due(Other(s))
  BY ZenonT(40) DEF EofMeansComplete, Ends
<1> DEFINE h == got[Other(s)] \o unsent[Other(s)]
<1>1. queue[s] = <<>> /\ arrived[s] = <<>> /\ status = "OK"
  BY DEF Ends
<1>2. h \in Seq(Nat) /\ Total(s) = (h \o queue[s]) \o arrived[s]
  BY TotalBytes, TotalIs, Zenon
<1> HIDE DEF h
<1>3. h \o <<>> = h
  BY <1>2, NothingAround
<1>4. Total(s) = h
  BY <1>1, <1>2, <1>3, ZenonT(40)
<1>5. Total(s) = Owed(s)
  BY <1>1 DEF Flows
<1>6. CASE s = "in"
  <2>1. Owed(s) = case.expect \o said["in"] /\ Other(s) = "out"
    BY <1>1, <1>6, ZenonT(40) DEF Owed, Other
  <2> QED
    BY <1>4, <1>5, <2>1, ZenonT(40) DEF Due, h
<1>7. CASE s = "out"
  <2>1. Owed(s) = <<>> \o said["out"] /\ Other(s) = "in"
    BY <1>7 DEF Owed, Other
  <2>2. said["out"] \in Seq(Nat)
    BY <1>7 DEF StreamTypes
  <2>3. <<>> \o said["out"] = said["out"]
    BY <2>2, NothingAround, Zenon
  <2>4. status \in {"none", "OK"}
    BY <1>1
  <2> QED
    BY <1>4, <1>5, <2>1, <2>3, <2>4, ZenonT(40) DEF Due, h
<1> QED
  BY <1>6, <1>7, Zenon DEF End

\* What holds of the streams whatever the packet.
LEMMA ShapeHolds == Spec => [](StreamTypes /\ Decided /\ Ends)
<1>1. StreamTypes /\ Decided /\ Ends /\ [Next]_vars => (StreamTypes /\ Decided /\ Ends)'
  BY TypesNext, DecidedNext, EndsNext
<1> QED
  BY <1>1, StreamInit, PTL DEF Spec

\* What holds when the packet is passed on as it should be.
LEMMA StreamsHold ==
    ASSUME SeedsAreExpected
    PROVE  Spec => [](StreamTypes /\ Decided /\ Flows /\ Ends)
<1>1. StreamTypes /\ Decided /\ Flows /\ Ends /\ [Next]_vars => (StreamTypes /\ Decided /\ Flows /\ Ends)'
  BY TypesNext, DecidedNext, FlowsNext, EndsNext
<1> QED
  BY <1>1, StreamInit, PTL DEF Spec

\* The relay never waits for nothing: when poll has nothing to report, every
\* byte and close that can go on has gone on (the events net_relay asks for).
THEOREM PollIsComplete == Spec => []PollMissesNothing
<1>1. StreamTypes /\ Ends => PollMissesNothing
  BY IdleIsRight
<1> QED
  BY <1>1, ShapeHolds, PTL

\* Whatever the two ends say, in whatever pieces, however small the buffers,
\* and wherever a call fails or a peer resets, each end hears a beginning of
\* what it should, in order: net_relay loses, repeats and invents no byte.
THEOREM StreamsIntact ==
    ASSUME SeedsAreExpected
    PROVE  Spec => []StreamIntact
<1>1. StreamTypes /\ Decided /\ Flows => StreamIntact
  BY HeardIsDue
<1> QED
  BY <1>1, StreamsHold, PTL

\* A half close reaches the other end only behind the whole stream before it
\* (net_relay_shutdown_propagate), and a connection is called closed only when
\* both ends have seen it.
THEOREM EofIsComplete ==
    ASSUME SeedsAreExpected
    PROVE  Spec => []EofMeansComplete
<1>1. StreamTypes /\ Decided /\ Flows /\ Ends => EofMeansComplete
  BY EofIsLast
<1> QED
  BY <1>1, StreamsHold, PTL

-----------------------------------------------------------------------------
(* Routes that rewrite nothing *)

\* What a route that rewrites nothing should pass on: the packet as it came,
\* behind the proxy header where the route has one.
PlainRoutes ==
    \A c \in Cases :
        /\ ~c.snapshot.endpoint.rewrite
        /\ c.expect = (IF c.snapshot.endpoint.pheader THEN ProxyHeader ELSE <<>>) \o c.inbound

\* Only the packet's own seed is ever connected with.
LEMMA ConnectsWithSeed ==
    ASSUME NEW snapshot, NEW inbound
    PROVE  LET d == connection_setup_long_prepared_run(snapshot, inbound)
           IN  d.connect => \E rewrited : d.seed = SeedOf(snapshot.endpoint, inbound, rewrited)
<1> DEFINE Right(d) == d.connect => \E rewrited : d.seed = SeedOf(snapshot.endpoint, inbound, rewrited)
<1>1. \A status_, kick : Right(Refuse(status_, kick))
  BY DEF Refuse
<1>2. \A rewrited : Right(Connect(SeedOf(snapshot.endpoint, inbound, rewrited)))
  BY DEF Connect
<1> HIDE DEF Right
<1>3. \A rewrited : Right(Routed(snapshot, SeedOf(snapshot.endpoint, inbound, rewrited)))
  BY <1>1, <1>2, ZenonT(40) DEF Routed
<1>4. \A version : Right(connection_setup_long_handle_legacy_login(snapshot, inbound, version))
  BY <1>1, <1>3, ZenonT(40) DEF connection_setup_long_handle_legacy_login
<1>5. Right(connection_setup_long_handle_modern_handshake(snapshot, inbound))
  BY <1>1, <1>3, ZenonT(40) DEF connection_setup_long_handle_modern_handshake
<1>6. Right(connection_setup_long_prepared_run(snapshot, inbound))
  BY <1>1, <1>4, <1>5, ZenonT(40) DEF connection_setup_long_prepared_run
<1> QED
  BY <1>6, Zenon DEF Right

\* That seed is the header and the packet.
LEMMA PlainSeed ==
    ASSUME NEW endpoint, NEW inbound \in Seq(Nat), NEW rewrited, ~endpoint.rewrite,
           SeedOf(endpoint, inbound, rewrited).ok
    PROVE  SeedOf(endpoint, inbound, rewrited).bytes = (IF endpoint.pheader THEN ProxyHeader ELSE <<>>) \o inbound
<1> DEFINE start == connection_setup_long_seed_proxy_header(Seed(TRUE, <<>>), endpoint)
           header == IF endpoint.pheader THEN ProxyHeader ELSE <<>>
<1>1. SeedOf(endpoint, inbound, rewrited) = connection_setup_long_seed_append(start, inbound)
  BY ZenonT(40) DEF SeedOf
<1>2. \A seed, data : connection_setup_long_seed_append(seed, data).ok =>
          seed.ok /\ connection_setup_long_seed_append(seed, data).bytes = seed.bytes \o data
  BY ZenonT(40) DEF connection_setup_long_seed_append, Seed
<1>3. start.ok => start.bytes = header
  <2>1. CASE endpoint.pheader
    <3>1. start = connection_setup_long_seed_append(Seed(TRUE, <<>>), ProxyHeader)
      BY <2>1, ZenonT(40) DEF connection_setup_long_seed_proxy_header
    <3>2. Seed(TRUE, <<>>).bytes = <<>>
      BY DEF Seed
    <3>3. <<>> \o ProxyHeader = ProxyHeader
      BY CasesAreBytes, NothingAround, ZenonT(40)
    <3> QED
      BY <1>2, <2>1, <3>1, <3>2, <3>3, ZenonT(40)
  <2>2. CASE ~endpoint.pheader
    <3>1. start = Seed(TRUE, <<>>)
      BY <2>2, Zenon DEF connection_setup_long_seed_proxy_header
    <3>2. Seed(TRUE, <<>>).bytes = <<>>
      BY DEF Seed
    <3> QED
      BY <2>2, <3>1, <3>2, ZenonT(40)
  <2> QED
    BY <2>1, <2>2, ZenonT(40)
<1> HIDE DEF start, header
<1> QED
  BY <1>1, <1>2, <1>3, ZenonT(40) DEF header

\* On routes that rewrite nothing both directions are passed on whole and in
\* order, with nothing assumed of what setup does to the packet.
THEOREM PlainStreamsIntact ==
    ASSUME PlainRoutes
    PROVE  Spec => [](StreamIntact /\ EofMeansComplete)
<1>1. ASSUME NEW c \in Cases PROVE SeedIsExpected(c)
  <2> SUFFICES ASSUME DecisionOf(c).connect, DecisionOf(c).seed.ok
               PROVE  DecisionOf(c).seed.bytes = c.expect
    BY DEF SeedIsExpected
  <2>1. PICK rewrited : DecisionOf(c).seed = SeedOf(c.snapshot.endpoint, c.inbound, rewrited)
    BY ConnectsWithSeed, Zenon DEF DecisionOf
  <2>2. c.inbound \in Seq(Nat)
    BY CasesAreBytes
  <2>3. /\ ~c.snapshot.endpoint.rewrite
        /\ c.expect = (IF c.snapshot.endpoint.pheader THEN ProxyHeader ELSE <<>>) \o c.inbound
    BY Zenon DEF PlainRoutes
  <2>4. SeedOf(c.snapshot.endpoint, c.inbound, rewrited).ok
    BY <2>1, ZenonT(40)
  <2>5. SeedOf(c.snapshot.endpoint, c.inbound, rewrited).bytes
            = (IF c.snapshot.endpoint.pheader THEN ProxyHeader ELSE <<>>) \o c.inbound
    BY <2>2, <2>3, <2>4, PlainSeed, Zenon
  <2> QED
    BY <2>1, <2>3, <2>5, ZenonT(40)
<1>2. SeedsAreExpected
  BY <1>1 DEF SeedsAreExpected
<1> QED
  BY <1>2, StreamsIntact, EofIsComplete, PTL
=============================================================================
