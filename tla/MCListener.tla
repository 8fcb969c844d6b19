----------------------------- MODULE MCListener -----------------------------
(***************************************************************************)
(* Listeners for TLC: clients of every kind, what they send, the route     *)
(* they get, and what their upstreams say.                                 *)
(***************************************************************************)
EXTENDS Listener

Frame(s) == <<Len(s)>> \o s
Wide(s) == FlattenSeq([i \in 1..Len(s) |-> <<0, s[i]>>])
a == <<97>>
b == <<98>>
OldPort == 1
NewPort == 2

Handshake(version, address, port, intent) ==
    Frame(<<0, version>> \o Frame(address) \o <<0, port, intent>>)
LoginStart == Frame(<<0>> \o Frame(<<117>>))
\* The ping of 1.6: a marker, the channel's name, the version, address and port.
Ping(address, port) ==
    PingHost \o <<0, 7 + 2 * Len(address), 74, 0, Len(address)>>
    \o Wide(address) \o <<0, 0, 0, port>>

Endpoint == [address |-> "v4", port |-> NewPort, pheader |-> FALSE, rewrite |-> FALSE,
             configured_address |-> b, target_name |-> <<>>]
Rewriting == [Endpoint EXCEPT !.rewrite = TRUE]

Plain(chunks) ==
    [chunks |-> chunks, endpoint |-> Endpoint, verdicts |-> {"PENDING", "READY"}, replies |-> <<>>,
     expect |-> FlattenSeq(chunks), notices |-> {"unavailable", "full"}]
Answering(client, replies) == [client EXCEPT !.replies = replies]
Told1(client, expect) == [client EXCEPT !.endpoint = Rewriting, !.expect = expect]

Tail1 == <<1, 0>>
Flood == [i \in 1..(BUFSIZ + 3) |-> i % 5]
Query == Handshake(5, a, OldPort, 1)

MCScript ==
    [flood |-> Plain(<<Query \o Tail1, Flood>>),
     status |-> Answering(Plain(<<Query \o Tail1>>), <<<<"r1", "r2", "r3", "r4", "r5", "r6">>>>),
     moved |-> Told1(Plain(<<SubSeq(Query, 1, 3), From(Query, 4) \o Tail1>>), Handshake(5, b, NewPort, 1) \o Tail1),
     ping |-> [Told1(Plain(<<Ping(a, OldPort)>>), Ping(b, NewPort)) EXCEPT !.verdicts = {"READY", "NO_ROUTE"}],
     old |-> [Plain(<<<<254>>, <<1>>>>) EXCEPT !.notices = {"direct"}],
     upgrade |-> [Plain(<<Handshake(0, a, OldPort, 1)>>) EXCEPT !.notices = {"upgrade"}],
     noise |-> Plain(<<<<0, 9>>>>),
     login |-> Plain(<<Handshake(5, a, OldPort, 2) \o LoginStart>>),
     bypass |-> Plain(<<<<2, 31, 0, 0>>>>),
     origpro |-> Plain(<<<<1>>>>)]

ExchangeCasts == [Conns -> {"status", "flood", "moved", "ping", "old", "upgrade", "noise", "login", "origpro"}]
CapacityCasts == {<<"login", "login", "bypass">>}
MCSockets == [client |-> 2, upstream |-> 24]
NoProxy == <<80>>
=============================================================================
