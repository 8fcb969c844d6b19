------------------------------- MODULE Worker -------------------------------
(***************************************************************************)
(* A worker process from fork to exit (listener.c listener_worker_run,     *)
(* connection/setup_long.c, network.c): it ties its life to the            *)
(* listener's, unblocks its signals, decides what to do with the packet it *)
(* inherited, connects to the upstream, and relays.                        *)
(*                                                                         *)
(* The listener may die at any moment.  Its death sends SIGTERM to a       *)
(* worker that has asked for it; the signal waits while it is blocked.     *)
(***************************************************************************)
EXTENDS Relay, ConnectionSetup

CONSTANTS
    Cases,          \* what a worker may inherit: the packet, its route, the bytes
                    \* the upstream should hear for it, and what the ends say next
    Kick            \* the bytes of a refusal

ASSUME CasesAreBytes ==
    /\ Kick \in Seq(Nat) /\ ProxyHeader \in Seq(Nat)
    /\ \A c \in Cases : /\ c.inbound \in Seq(Nat) /\ c.expect \in Seq(Nat)
                        /\ \A s \in End : c.chunks[s] \in Seq(Seq(Nat))

\* What setup makes of a case, and whether it is what the upstream should hear.
DecisionOf(c) == connection_setup_long_prepared_run(c.snapshot, c.inbound)
SeedIsExpected(c) == DecisionOf(c).connect /\ DecisionOf(c).seed.ok => DecisionOf(c).seed.bytes = c.expect

ASSUME SeedsAreBytes == \A c \in Cases : DecisionOf(c).seed.bytes \in Seq(Nat)

\* setup_long.h refuses to compile otherwise.
ASSUME SeedFitsRelay == CONNECTION_SETUP_LONG_PENDING_MAX <= NET_RELAY_BUFFER_BYTES

VARIABLES
    case,           \* the member of Cases this worker was forked for
    decision,       \* what setup makes of it, a function of the case alone
    listener,       \* "alive" or "dead"
    pdeathsig,      \* the worker has asked to be told of that death
    term,           \* SIGTERM is pending
    dial,           \* the upstream's answer to connect: "none", "pending", "up", "refused"
    late,           \* the connect deadline has passed
    status          \* connection_setup_status, "none" until decided

startup == <<listener, pdeathsig, term>>
setup == <<case, decision, dial, late, status>>
vars == <<pc, relay, sockets, startup, setup>>

Init ==
    /\ RelayInit
    /\ pc = "forked"
    /\ case \in Cases
    /\ decision = DecisionOf(case)
    /\ listener = "alive" /\ pdeathsig = FALSE /\ term = FALSE
    /\ dial = "none" /\ late = FALSE /\ status = "none"

Exit == pc' = "exited"

----------------------------------------------------------------------------
(* Starting up (listener_worker_run, listener_worker_signals_restore).     *)

SetDeathSignal ==
    /\ pc = "forked"
    /\ \/ pdeathsig' = TRUE /\ pc' = "parent"
       \/ "system" \in Faults /\ Exit /\ UNCHANGED pdeathsig
    /\ UNCHANGED <<relay, sockets, listener, term, setup>>

\* Seeded fault: the parent may have died before it could be watched.
parent_assumed == pc = "parent" /\ pc' = "signals" /\ UNCHANGED <<relay, sockets, startup, setup>>
CheckParent ==
    /\ pc = "parent"
    /\ pc' = IF listener = "alive" THEN "signals" ELSE "exited"
    /\ UNCHANGED <<relay, sockets, startup, setup>>

listener_worker_signals_restore ==
    /\ pc = "signals"
    /\ \/ pc' = "setup"
       \/ "system" \in Faults /\ Exit
    /\ UNCHANGED <<relay, sockets, startup, setup>>

ListenerDies ==
    /\ listener = "alive" /\ pc # "exited"
    /\ listener' = "dead"
    /\ term' = pdeathsig
    /\ UNCHANGED <<pc, relay, sockets, pdeathsig, setup>>

Blocked == pc \in {"forked", "parent", "signals"}

Terminated ==
    /\ term /\ ~Blocked /\ pc # "exited"
    /\ Exit
    /\ UNCHANGED <<relay, sockets, startup, setup>>

----------------------------------------------------------------------------
(* Deciding and connecting (setup_long.c).                                 *)

\* Closing some of the descriptors and leaving.
Leave(closed, verdict) ==
    /\ closes' = [s \in End |-> IF s \in closed THEN closes[s] + 1 ELSE closes[s]]
    /\ status' = verdict
    /\ Exit
    /\ UNCHANGED <<queue, peer_eof, shutdown_sent, revents, quiet, result>>

\* As much of the message as the socket takes; it is not waited for.
connection_setup_long_send_client(message) ==
    /\ unsent' = [unsent EXCEPT !["in"] = IF reset["in"] THEN @ ELSE SubSeq(message, 1, Least(Len(message), Room("in")))]
    /\ UNCHANGED <<arrived, given, said, fin, reset, got>>

\* Seeded fault: a failed connect leaves the half-made socket open.
connect_failed_leaks(opened) == Leave({"in"}, "ENOCONNECT") /\ connection_setup_long_send_client(Kick)
ConnectFailed(opened) == Leave({"in"} \cup opened, "ENOCONNECT") /\ connection_setup_long_send_client(Kick)

Connected(seed) ==
    /\ UNCHANGED sockets
    /\ IF seed.ok
       THEN Start(seed.bytes) /\ status' = "OK"
       ELSE Leave({"in", "out"}, "EABORT")

\* The immediate outcomes of connect(2): done, done but past the deadline, in
\* progress, refused, or no socket to try with.
Setup ==
    /\ pc = "setup"
    /\ \/ /\ "system" \in Faults        \* the client's socket cannot be made nonblocking
          /\ Leave({"in"}, "EABORT")
          /\ UNCHANGED <<sockets, dial>>
       \/ /\ ~decision.connect
          /\ Leave({"in"}, decision.status)
          /\ connection_setup_long_send_client(IF decision.kick THEN Kick ELSE <<>>)
          /\ UNCHANGED dial
       \/ /\ decision.connect
          /\ dial' = "up"
          /\ Connected(decision.seed) \/ ConnectFailed({"out"})
       \/ /\ decision.connect
          /\ dial' = "pending"
          /\ pc' = "connecting"
          /\ UNCHANGED <<relay, sockets, status>>
       \/ /\ decision.connect
          /\ ConnectFailed({})
          /\ UNCHANGED dial
    /\ UNCHANGED <<startup, case, decision, late>>

\* A completed connect is looked at only after the deadline is.
connection_setup_long_connect_outbound ==
    /\ pc = "connecting"
    /\ \/ late /\ ConnectFailed({"out"})
       \/ ~late /\ dial = "refused" /\ ConnectFailed({"out"})
       \/ ~late /\ dial = "up" /\ Connected(decision.seed)
    /\ UNCHANGED <<startup, case, decision, dial, late>>

\* poll or the clock fails while the connect is pending.
ConnectCallFails ==
    /\ "system" \in Faults
    /\ pc = "connecting"
    /\ ConnectFailed({"out"})
    /\ UNCHANGED <<startup, case, decision, dial, late>>

Dial ==
    /\ pc = "connecting" /\ dial = "pending"
    /\ dial' \in {"up", "refused"}
    /\ UNCHANGED <<pc, relay, sockets, startup, case, decision, late, status>>

DeadlinePasses ==
    /\ pc = "connecting" /\ ~late
    /\ late' = TRUE
    /\ UNCHANGED <<pc, relay, sockets, startup, case, decision, dial, status>>

----------------------------------------------------------------------------

\* The upstream speaks only once it is connected.
Peer(s) ==
    /\ s = "out" => dial = "up"
    /\ Arrive(s, case.chunks[s]) \/ Close(s) \/ Reset(s) \/ PeerReads(s)
    /\ UNCHANGED <<pc, relay, startup, setup>>

Step ==
    \/ SetDeathSignal \/ CheckParent \/ listener_worker_signals_restore
    \/ Setup \/ connection_setup_long_connect_outbound
    \/ net_relay /\ UNCHANGED <<startup, setup>>

Next ==
    \/ Step \/ ListenerDies \/ Terminated
    \/ ConnectCallFails \/ (CallFails /\ UNCHANGED <<startup, setup>>)
    \/ Dial \/ DeadlinePasses
    \/ Elapse /\ UNCHANGED <<startup, setup>>
    \/ \E s \in End : Peer(s)

\* The process runs, signals are delivered, and the two clocks it waits on
\* advance while it waits; nothing is assumed of the peers or of failing calls.
Fairness ==
    /\ WF_vars(Step) /\ WF_vars(Terminated) /\ WF_vars(DeadlinePasses)
    /\ WF_vars(Idle /\ Elapse /\ UNCHANGED <<startup, setup>>)

Spec == Init /\ [][Next]_vars
FairSpec == Spec /\ Fairness

----------------------------------------------------------------------------

\* What each end may hear: the upstream the packet it should be told and then
\* the client's later bytes, the client what the upstream sends, or a refusal.
Heard(s) == got[s] \o unsent[s] \o queue[Other(s)]
Due(s) ==
    IF s = "out" THEN case.expect \o said["in"]
    ELSE IF status \in {"none", "OK"} THEN said["out"]
    ELSE Kick

\* No byte is lost, repeated, reordered or invented on its way through the
\* relay, and the packet the upstream hears first is the client's with only
\* its address and port replaced (net_relay_queue_fill and _drain, the seed).
StreamIntact == \A s \in End : IsPrefix(Heard(s), Due(s))

\* An end of stream is passed on only behind every byte that came before it,
\* so a peer that sees it has the whole stream (net_relay_shutdown_propagate),
\* and the relay calls a connection closed only when both ends have seen it.
EofMeansComplete ==
    /\ \A s \in End : shutdown_sent[s] /\ ~reset[s] => got[Other(s)] \o unsent[Other(s)] = Due(Other(s))
    /\ result = "CLOSED" => \A s \in End : shutdown_sent[s]

\* When poll has nothing to report, nothing is left that could be done: in
\* each direction all is forwarded, its close too, or the receiver is full
\* (the events net_relay asks for).
PollMissesNothing ==
    Idle /\ ~net_relay_finished =>
        \A s \in End :
            \/ queue[s] # <<>> /\ Room(Other(s)) = 0
            \/ queue[s] = <<>> /\ arrived[s] = <<>> /\ (fin[s] \/ reset[s] => shutdown_sent[s])

\* Whoever owns a descriptor closes it, once: setup when it fails, the relay
\* on every return path.
DescriptorsClosedOnce ==
    /\ \A s \in End : closes[s] <= 1
    /\ pc = "exited" /\ (status \notin {"none", "OK"} \/ result # "none") =>
          closes["in"] = 1 /\ closes["out"] = (IF dial = "none" THEN 0 ELSE 1)

\* A worker past its startup whose listener has died has been sent SIGTERM:
\* the death is either seen by getppid or signalled, whenever it happens.
OrphanIsTold == listener = "dead" /\ pc \notin {"forked", "parent", "exited"} => term

\* A worker ends, whatever its peers do or leave undone (the connect deadline,
\* the relay's idle timeout).
WorkerEnds == <>(pc = "exited")
=============================================================================
