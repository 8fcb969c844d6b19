-------------------------------- MODULE Relay --------------------------------
(***************************************************************************)
(* net_relay (network.c): one process copies bytes both ways between the   *)
(* client's socket "in" and the upstream's socket "out" through two        *)
(* bounded queues, passing each end's half close on to the other.          *)
(*                                                                         *)
(* The kernel and the two peers are the environment: bytes arrive, a peer  *)
(* reads what was sent to it, closes its sending side, or resets.  A queue *)
(* is named by the end its bytes came from.  Poll takes a snapshot of what *)
(* is ready; the peers go on while the process serves it.                  *)
(***************************************************************************)
EXTENDS Naturals, Sequences, Seqs

CONSTANTS
    NET_RELAY_BUFFER_BYTES,
    SOCKET_BYTES,       \* what a socket accepts before its peer reads
    Faults              \* "reset": a peer may reset; "system": a call may fail

ASSUME RelaySizes ==
    /\ NET_RELAY_BUFFER_BYTES \in Nat \ {0}
    /\ SOCKET_BYTES \in Nat

VARIABLES
    pc,                 \* the process's next step
    queue,              \* bytes read from an end and not yet sent to the other
    peer_eof,           \* the end has been read to its close
    shutdown_sent,      \* and that close has been passed on
    revents,            \* what the last poll reported
    quiet,              \* the idle timeout has passed since the last byte moved
    result,             \* net_relay_status, "none" until it returns
    closes,             \* close calls on each descriptor
    arrived,            \* bytes the kernel holds for the process to read
    given,              \* how many chunks the peer has sent
    said,               \* and their bytes, one after the other
    fin,                \* the peer closed its sending side
    reset,              \* the peer reset the connection
    unsent,             \* bytes sent to the end that its peer has not read
    got                 \* bytes the peer has read

relay == <<queue, peer_eof, shutdown_sent, revents, quiet, result, closes>>
sockets == <<arrived, given, said, fin, reset, unsent, got>>

End == {"in", "out"}
Other(s) == IF s = "in" THEN "out" ELSE "in"
Least(a, b) == IF a < b THEN a ELSE b

Room(s) == SOCKET_BYTES - Len(unsent[s])
Space(s) == NET_RELAY_BUFFER_BYTES - Len(queue[s])

RelayInit ==
    /\ queue = [s \in End |-> <<>>]
    /\ peer_eof = [s \in End |-> FALSE]
    /\ shutdown_sent = [s \in End |-> FALSE]
    /\ revents = [s \in End |-> {}]
    /\ quiet = FALSE
    /\ result = "none"
    /\ closes = [s \in End |-> 0]
    /\ arrived = [s \in End |-> <<>>]
    /\ given = [s \in End |-> 0]
    /\ said = [s \in End |-> <<>>]
    /\ fin = [s \in End |-> FALSE]
    /\ reset = [s \in End |-> FALSE]
    /\ unsent = [s \in End |-> <<>>]
    /\ got = [s \in End |-> <<>>]

----------------------------------------------------------------------------
(* The peers and the kernel.                                               *)

Speaking(s) == ~fin[s] /\ ~reset[s] /\ pc # "exited"

\* The next of the chunks the peer has to say.
Arrive(s, chunks) ==
    /\ Speaking(s)
    /\ given[s] < Len(chunks)
    /\ given' = [given EXCEPT ![s] = @ + 1]
    /\ said' = [said EXCEPT ![s] = @ \o chunks[given[s] + 1]]
    /\ arrived' = [arrived EXCEPT ![s] = @ \o chunks[given[s] + 1]]
    /\ UNCHANGED <<fin, reset, unsent, got>>

Close(s) ==
    /\ Speaking(s)
    /\ fin' = [fin EXCEPT ![s] = TRUE]
    /\ UNCHANGED <<arrived, given, said, reset, unsent, got>>

\* What had arrived may still be readable, or be gone.
Reset(s) ==
    /\ "reset" \in Faults
    /\ ~reset[s] /\ pc # "exited"
    /\ reset' = [reset EXCEPT ![s] = TRUE]
    /\ \E kept \in {<<>>, arrived[s]} : arrived' = [arrived EXCEPT ![s] = kept]
    /\ UNCHANGED <<given, said, fin, unsent, got>>

PeerReads(s) ==
    /\ unsent[s] # <<>> /\ ~reset[s]
    /\ got' = [got EXCEPT ![s] = @ \o unsent[s]]
    /\ unsent' = [unsent EXCEPT ![s] = <<>>]
    /\ UNCHANGED <<arrived, given, said, fin, reset>>

----------------------------------------------------------------------------
(* The process.                                                            *)

net_relay_finished == \A s \in End : peer_eof[s] /\ queue[s] = <<>> /\ shutdown_sent[s]

want_read(s) == ~peer_eof[s] /\ Space(s) > 0

\* Seeded fault: output is not asked for while input is.
want_write_after_read(s) == ~want_read(s) /\ ~shutdown_sent[Other(s)] /\ queue[Other(s)] # <<>>
want_write(s) == ~shutdown_sent[Other(s)] /\ queue[Other(s)] # <<>>

\* A socket is polled only for what is wanted of it; an error or the end of
\* both directions is reported with anything.
Events(s) ==
    LET hung == reset[s] \/ (fin[s] /\ shutdown_sent[Other(s)])
    IN  IF want_read(s) \/ want_write(s)
        THEN {e \in {"IN", "OUT", "HUP"} :
                \/ e = "IN" /\ want_read(s) /\ (arrived[s] # <<>> \/ fin[s] \/ reset[s])
                \/ e = "OUT" /\ want_write(s) /\ (Room(s) > 0 \/ reset[s])
                \/ e = "HUP" /\ hung}
        ELSE {}

Idle == pc = "poll" /\ \A s \in End : Events(s) = {}

\* Seeded fault: an idle connection is kept for ever.
idle_never == 1
net_relay_idle_remaining_ms == IF quiet THEN 0 ELSE 1

\* Both descriptors are closed on every way out.
Finish(status) ==
    /\ result' = status
    /\ pc' = "exited"
    /\ closes' = [s \in End |-> closes[s] + 1]

Poll ==
    /\ pc = "poll"
    /\ \/ net_relay_finished /\ Finish("CLOSED") /\ UNCHANGED revents
       \/ ~net_relay_finished /\ net_relay_idle_remaining_ms = 0 /\ Finish("IDLE") /\ UNCHANGED revents
       \/ /\ ~net_relay_finished /\ net_relay_idle_remaining_ms # 0 /\ ~Idle
          /\ revents' = [s \in End |-> Events(s)]
          /\ pc' = "in"
          /\ UNCHANGED <<result, closes>>
    /\ UNCHANGED <<queue, peer_eof, shutdown_sent, quiet, sockets>>

\* recv until the queue is full, the end closed, or nothing is left; a reset
\* is met unless the queue fills first.
net_relay_queue_fill(s) ==
    LET n == Least(Len(arrived[s]), Space(s))
        full == n = Space(s)
    IN  IF peer_eof[s] THEN [ok |-> TRUE, n |-> 0, eof |-> TRUE]
        ELSE [ok |-> full \/ ~reset[s], n |-> n,
              eof |-> ~full /\ fin[s] /\ ~reset[s] /\ n = Len(arrived[s])]

\* Seeded fault: the bytes a full socket did not take are forgotten.
drain_forgets(s) == [ok |-> ~reset[s], n |-> Least(Len(queue[Other(s)]), Room(s)), left |-> <<>>]
net_relay_queue_drain(s) ==
    LET n == Least(Len(queue[Other(s)]), Room(s))
    IN  [ok |-> ~reset[s], n |-> n, left |-> SubSeq(queue[Other(s)], n + 1, Len(queue[Other(s)]))]

\* One end of the loop over both: read from it, write to it, then decide
\* whether an error or hang-up still leaves something to do.
Serve(s, next) ==
    LET o == Other(s)
        reading == Space(s) > 0 /\ revents[s] \cap {"IN", "HUP"} # {}
        writing == queue[o] # <<>> /\ revents[s] \cap {"OUT", "HUP"} # {}
        fill == IF reading THEN net_relay_queue_fill(s) ELSE [ok |-> TRUE, n |-> 0, eof |-> peer_eof[s]]
        drain == IF writing THEN net_relay_queue_drain(s) ELSE [ok |-> TRUE, n |-> 0, left |-> queue[o]]
        stuck == /\ "HUP" \in revents[s]
                 /\ \/ ~fill.eof /\ fill.n = 0 /\ Space(s) > 0
                    \/ drain.left # <<>>
        moved == (IF fill.ok /\ drain.ok THEN drain.n ELSE 0)
    IN  /\ pc = s
        /\ queue' = [queue EXCEPT ![s] = @ \o SubSeq(arrived[s], 1, fill.n),
                                  ![o] = IF fill.ok /\ drain.ok THEN drain.left ELSE @]
        /\ arrived' = [arrived EXCEPT ![s] = SubSeq(@, fill.n + 1, Len(@))]
        /\ peer_eof' = [peer_eof EXCEPT ![s] = fill.eof]
        /\ unsent' = [unsent EXCEPT ![s] = @ \o SubSeq(queue[o], 1, moved)]
        /\ quiet' = (quiet /\ fill.n = 0 /\ moved = 0)
        /\ IF fill.ok /\ drain.ok /\ ~stuck
           THEN pc' = next /\ UNCHANGED <<result, closes>>
           ELSE Finish("ERROR")
        /\ UNCHANGED <<shutdown_sent, revents, given, said, fin, reset, got>>

\* Seeded fault: the close overtakes bytes still queued.
propagate_early(s) == peer_eof[s]
net_relay_shutdown_propagate(s) == peer_eof[s] /\ queue[s] = <<>>

Propagate ==
    /\ pc = "propagate"
    /\ shutdown_sent' = [s \in End |-> shutdown_sent[s] \/ net_relay_shutdown_propagate(s)]
    /\ pc' = "poll"
    /\ UNCHANGED <<queue, peer_eof, revents, quiet, result, closes, sockets>>

\* poll, fcntl, shutdown or the clock fails.
CallFails ==
    /\ "system" \in Faults
    /\ pc \in {"poll", "in", "out", "propagate"}
    /\ Finish("ERROR")
    /\ UNCHANGED <<queue, peer_eof, shutdown_sent, revents, quiet, sockets>>

Elapse ==
    /\ pc \in {"poll", "in", "out", "propagate"} /\ ~quiet
    /\ quiet' = TRUE
    /\ UNCHANGED <<pc, queue, peer_eof, shutdown_sent, revents, result, closes, sockets>>

net_relay == Poll \/ Serve("in", "out") \/ Serve("out", "propagate") \/ Propagate

\* Starting to relay, with what the upstream is to be told first.
Start(pending_out) ==
    /\ pc' = "poll"
    /\ queue' = [queue EXCEPT !["in"] = pending_out]
    /\ UNCHANGED <<peer_eof, shutdown_sent, revents, quiet, result, closes>>
=============================================================================
