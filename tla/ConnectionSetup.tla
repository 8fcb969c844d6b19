--------------------------- MODULE ConnectionSetup ---------------------------
(***************************************************************************)
(* What the relay decides to do with a client's first packet once its      *)
(* route is known (connection/setup.c, setup_long.c, setup_short.c):       *)
(* refuse it, answer it, or connect and say these bytes to the upstream.   *)
(*                                                                         *)
(* A snapshot is the route's verdict and, when there is one, the endpoint. *)
(* Messages to the client are names, not texts.  Allocation failures are   *)
(* left out.                                                               *)
(***************************************************************************)
EXTENDS Protocol

CONSTANTS
    ProxyHeader,                \* what protocol_proxy_write says of the client
    ROUTE_ENDPOINT_TEXT_SIZE,
    PENDING_RESERVE             \* 32 in CONNECTION_SETUP_LONG_PENDING_MAX

CONNECTION_SETUP_LONG_PENDING_MAX == Len(ProxyHeader) + BUFSIZ + ROUTE_ENDPOINT_TEXT_SIZE + PENDING_RESERVE
CONNECTION_SETUP_LONG_REWRITE_BUFFER_SIZE == BUFSIZ + ROUTE_ENDPOINT_TEXT_SIZE + PENDING_RESERVE

connection_setup_address_valid(endpoint) == endpoint.address \in {"v4", "v6"}

connection_setup_destination(endpoint) ==
    IF endpoint.target_name = <<>> THEN endpoint.configured_address ELSE endpoint.target_name

----------------------------------------------------------------------------
(* A login or transfer: a worker connects and relays.                      *)

Seed(ok, bytes) == [ok |-> ok, bytes |-> bytes]

connection_setup_long_seed_append(seed, data) ==
    IF seed.ok /\ Len(seed.bytes) + Len(data) <= CONNECTION_SETUP_LONG_PENDING_MAX
    THEN Seed(TRUE, seed.bytes \o data)
    ELSE Seed(FALSE, seed.bytes)

connection_setup_long_seed_proxy_header(seed, endpoint) ==
    IF endpoint.pheader THEN connection_setup_long_seed_append(seed, ProxyHeader) ELSE seed

connection_setup_long_seed_tail(seed, inbound) ==
    LET initial == protocol_packet_length(inbound)
    IN  IF initial.status = "COMPLETE" /\ initial.size <= Len(inbound)
        THEN connection_setup_long_seed_append(seed, From(inbound, initial.size + 1))
        ELSE Seed(FALSE, seed.bytes)

\* A packet that could not be written (no bytes) fails the seed.
SeedOf(endpoint, inbound, rewrited) ==
    LET start == connection_setup_long_seed_proxy_header(Seed(TRUE, <<>>), endpoint)
    IN  IF ~endpoint.rewrite THEN connection_setup_long_seed_append(start, inbound)
        ELSE IF rewrited = <<>> THEN Seed(FALSE, start.bytes)
        ELSE connection_setup_long_seed_tail(connection_setup_long_seed_append(start, rewrited), inbound)

LegacyRewrite(endpoint, inbound, version) ==
    LET address == connection_setup_destination(endpoint)
        info == packet_read_legacy_login(inbound, version)
    IN  IF Len(address) >= LEGACY_FIELD_SIZE THEN <<>>
        ELSE packet_write_legacy_login([info EXCEPT !.address = address, !.port = endpoint.port], version)

ModernRewrite(endpoint, inbound) ==
    packet_write([packet_read(inbound) EXCEPT !.address = connection_setup_destination(endpoint), !.port = endpoint.port],
                 CONNECTION_SETUP_LONG_REWRITE_BUFFER_SIZE)

Refuse(status, kick) == [connect |-> FALSE, status |-> status, kick |-> kick, seed |-> Seed(FALSE, <<>>)]
Connect(seed) == [connect |-> TRUE, status |-> "OK", kick |-> FALSE, seed |-> seed]

\* The route's verdict, then what connect_outbound requires of the endpoint.
Routed(snapshot, seed) ==
    IF snapshot.route_status \in {"BYPASS", "NO_ROUTE"} THEN Refuse("ENOVHOST", TRUE)
    ELSE IF \/ snapshot.route_status # "READY"
            \/ ~connection_setup_address_valid(snapshot.endpoint)
            \/ snapshot.endpoint.port = 0
    THEN Refuse("ENORECORD", TRUE)
    ELSE Connect(seed)

connection_setup_long_handle_legacy_login(snapshot, inbound, version) ==
    IF version \in {"LEGACYL1", "LEGACYL3"}
    THEN Refuse("EOLDCLIENT", TRUE)
    ELSE Routed(snapshot, SeedOf(snapshot.endpoint, inbound, LegacyRewrite(snapshot.endpoint, inbound, version)))

connection_setup_long_handle_modern_handshake(snapshot, inbound) ==
    LET info == packet_read(inbound)
    IN  IF ~info.ok \/ ~Joins(info.nextstate) \/ ~info.named
        THEN Refuse("EABORT", FALSE)
        ELSE Routed(snapshot, SeedOf(snapshot.endpoint, inbound, ModernRewrite(snapshot.endpoint, inbound)))

connection_setup_long_prepared_run(snapshot, inbound) ==
    LET seen == protocol_identify(inbound)
    IN  CASE inbound = <<>> \/ Len(inbound) > BUFSIZ -> Refuse("EABORT", FALSE)
          [] seen.version = "UNIDENT" -> Refuse("EUNIDENT", FALSE)
          [] seen.version \in {"LEGACYL1", "LEGACYL2", "LEGACYL3", "LEGACYL4"} ->
                connection_setup_long_handle_legacy_login(snapshot, inbound, seen.version)
          [] seen.version = "MODERN1" /\ Joins(seen.intent) -> Refuse("EOLDCLIENT", TRUE)
          [] seen.version = "MODERN2" /\ Joins(seen.intent) ->
                connection_setup_long_handle_modern_handshake(snapshot, inbound)
          [] seen.version = "ORIGPRO" -> Refuse("EOLDCLIENT", FALSE)
          [] OTHER -> Refuse("EABORT", FALSE)

----------------------------------------------------------------------------
(* A status request: the listener answers or connects by itself.           *)

Plan(action, result, request, response) ==
    [action |-> action, result |-> result, request |-> request, response |-> response]

Abort(result) == Plan("ABORT", result, <<>>, <<>>)
Respond(result, message) == Plan("RESPOND", result, <<>>, <<message>>)

connection_setup_short_packet_complete(initial, protocol) ==
    LET packet == protocol_packet_length(initial)
    IN  \/ protocol \in {"LEGACYM1", "LEGACYM2"} /\ packet.status \in {"AMBIGUOUS", "COMPLETE"}
        \/ packet.status = "COMPLETE" /\ packet.size <= Len(initial)

connection_setup_short_plan_endpoint_valid(endpoint) ==
    /\ connection_setup_address_valid(endpoint)
    /\ endpoint.port # 0
    /\ endpoint.configured_address # <<>>

\* The request without its proxy header; no bytes when it cannot be built.
connection_setup_short_plan_request_legacy(endpoint, initial, size) ==
    LET packet == packet_read_legacy_motd(SubSeq(initial, 1, size))
    IN  IF endpoint.rewrite
        THEN packet_write_legacy_motd([packet EXCEPT !.address = connection_setup_destination(endpoint), !.port = endpoint.port])
             \o From(initial, size + 1)
        ELSE initial

connection_setup_short_plan_request_modern(endpoint, initial, size) ==
    LET payload == packet_write([packet_read(initial) EXCEPT !.address = connection_setup_destination(endpoint),
                                                             !.port = endpoint.port],
                                BUFSIZ + ROUTE_ENDPOINT_TEXT_SIZE + PENDING_RESERVE)
        rewritten == protocol_packet_length(payload)
    IN  CASE ~endpoint.rewrite -> initial
          [] rewritten.status = "COMPLETE" /\ rewritten.size <= Len(payload) ->
                SubSeq(payload, 1, rewritten.size) \o From(initial, size + 1)
          [] OTHER -> <<>>

connection_setup_short_result_for_route(snapshot) ==
    IF snapshot.route_status = "NO_ROUTE" THEN "ENOVHOST" ELSE "ENORECORD"

\* What is left to do once the packet has been read.
connection_setup_short_route_prepare(snapshot, request) ==
    LET endpoint == snapshot.endpoint
        header == IF endpoint.pheader THEN ProxyHeader ELSE <<>>
    IN  CASE snapshot.route_status # "READY" ->
                Respond(connection_setup_short_result_for_route(snapshot), "unavailable")
          [] ~connection_setup_short_plan_endpoint_valid(endpoint) -> Abort("EABORT")
          [] request = <<>> -> Abort("EABORT")
          [] OTHER -> Plan("CONNECT", "OK", header \o request, <<"unavailable">>)

connection_setup_short_prepare(snapshot, initial) ==
    LET seen == protocol_identify(initial)
        size == protocol_packet_length(initial).size
        ping == packet_read_legacy_motd(SubSeq(initial, 1, size))
        packet == packet_read(initial)
    IN  CASE \/ initial = <<>> \/ Len(initial) > BUFSIZ
             \/ seen.version = "UNIDENT"
             \/ ~connection_setup_short_packet_complete(initial, seen.version) -> Abort("EABORT")
          [] seen.version \in {"LEGACYM1", "LEGACYM2"} -> Respond("EOLDCLIENT", "direct")
          [] seen.version = "MODERN1" /\ seen.intent = Status -> Respond("EOLDCLIENT", "upgrade")
          [] seen.version = "LEGACYM3" /\ ping.ok /\ Len(ping.address) < ROUTE_ENDPOINT_TEXT_SIZE ->
                connection_setup_short_route_prepare(snapshot,
                    connection_setup_short_plan_request_legacy(snapshot.endpoint, initial, size))
          [] seen.version = "MODERN2" /\ packet.ok /\ packet.nextstate = Status ->
                connection_setup_short_route_prepare(snapshot,
                    connection_setup_short_plan_request_modern(snapshot.endpoint, initial, size))
          [] OTHER -> Abort("EABORT")
=============================================================================
