------------------------------ MODULE MCWorker ------------------------------
(***************************************************************************)
(* Workers for TLC: packets of every generation, with and without bytes    *)
(* behind them, on routes that rewrite, announce the client, or fail.      *)
(*                                                                         *)
(* Modern and the two legacy encoders below are the wire formats as the    *)
(* protocol defines them, written apart from the code's: a packet is built *)
(* from its fields, and the bytes the upstream should hear are those of    *)
(* the same fields with the route's address and port.                      *)
(***************************************************************************)
EXTENDS Worker

Frame(s) == <<Len(s)>> \o s
Text(s) == <<Len(s)>> \o s
Wide(s) == <<0, Len(s)>> \o FlattenSeq([i \in 1..Len(s) |-> <<0, s[i]>>])

Modern(f, address, port) ==
    Frame(<<0, f.version>> \o Text(address \o f.extra) \o <<port \div 256, port % 256, f.intent>>)
    \o (IF f.intent \in {2, 3} THEN Frame(<<0>> \o Text(f.name) \o f.data) ELSE <<>>)
LegacyFour(f, address, port) ==
    <<2, f.version>> \o Wide(f.name) \o Wide(address) \o <<0, 0, port \div 256, port % 256>>
LegacyTwo(f, address, port) ==
    <<2>> \o Wide(f.name \o <<59>> \o address \o <<58>> \o f.digits)

a == <<97>>
bb == <<98, 98>>
User == <<117>>
Login5 == [version |-> 5, extra |-> <<>>, intent |-> 2, name |-> User, data |-> <<>>, digits |-> <<>>]
OldPort == 256 + 2
NewPort == 7

Endpoint == [address |-> "v4", port |-> NewPort, pheader |-> FALSE, rewrite |-> FALSE,
             configured_address |-> a, target_name |-> bb]
Ready(endpoint) == [route_status |-> "READY", endpoint |-> endpoint]
Plain == Ready(Endpoint)
Rewriting == Ready([Endpoint EXCEPT !.rewrite = TRUE])
Announcing == Ready([Endpoint EXCEPT !.rewrite = TRUE, !.pheader = TRUE, !.target_name = <<>>])
Route(verdict) == [route_status |-> verdict, endpoint |-> Endpoint]

Silent == [s \in End |-> <<>>]
\* The upstream sends more than the relay's queue holds.
Talk == [s \in End |-> IF s = "in" THEN <<<<41, 42>>>>
                       ELSE <<[i \in 1..NET_RELAY_BUFFER_BYTES |-> i % 4], <<51, 52, 53>>>>]

Case(snapshot, inbound, expect) == [snapshot |-> snapshot, inbound |-> inbound, expect |-> expect, chunks |-> Silent]
Talking(c) == [c EXCEPT !.chunks = Talk]
Kept(snapshot, packet) == Case(snapshot, packet, packet)
Refused(snapshot, packet) == Case(snapshot, packet, <<>>)
ProxyLine == <<80, 13>>

\* A rewritten packet with bytes behind it.
Rewritten(Encode(_, _, _), f, tail) ==
    Case(Rewriting, Encode(f, a, OldPort) \o tail, Encode(f, bb, NewPort) \o tail)

Marked == [Login5 EXCEPT !.data = <<1, 9>>, !.extra = <<0, 70>>]
Unmarked == [Login5 EXCEPT !.version = 9, !.data = <<8>>, !.intent = 3]
Decimals == [Login5 EXCEPT !.digits = <<55>>]

Relayed ==
    {Kept(Plain, Modern(Unmarked, a, OldPort)),
     Rewritten(Modern, Marked, <<>>),
     Talking(Rewritten(Modern, Unmarked, <<33>>)),
     Rewritten(LegacyFour, Login5, <<33>>),
     Case(Rewriting, LegacyTwo(Decimals, a, OldPort), LegacyTwo(Decimals, bb, NewPort)),
     Case(Announcing, Modern(Login5, bb, OldPort), ProxyLine \o Modern(Login5, a, NewPort))}

Refusals ==
    {Refused(Route("NO_ROUTE"), Modern(Login5, a, OldPort)),
     Refused(Route("UNAVAILABLE"), LegacyFour(Login5, a, OldPort)),
     Refused(Ready([Endpoint EXCEPT !.port = 0]), Modern(Login5, a, OldPort)),
     Refused(Ready([Endpoint EXCEPT !.rewrite = TRUE, !.target_name = <<98, 98, 98, 98>>]), Modern(Marked, a, OldPort)),
     Refused(Plain, Modern([Login5 EXCEPT !.version = 0], a, OldPort)),
     Refused(Plain, Modern([Login5 EXCEPT !.intent = 1], a, OldPort)),
     Refused(Plain, <<2, 31, 0, 0>>),
     Refused(Plain, <<2, 0, 1, 117>>),
     Refused(Plain, <<1>>),
     Refused(Plain, <<9, 9>>)}

MCCases == Relayed \cup Refusals

\* Setup makes of each of these packets what the upstream should hear.
ASSUME SeedsOfCases == \A c \in MCCases : SeedIsExpected(c)

\* A login of an old version whose remaining data does not start with a 1.
MarkerCases == {Rewritten(Modern, [Login5 EXCEPT !.data = <<0, 9>>], <<>>)}

MCKick == <<75, 76, 77>>
=============================================================================
