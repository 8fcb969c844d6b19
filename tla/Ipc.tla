-------------------------------- MODULE Ipc --------------------------------
(***************************************************************************)
(* resolver/ipc.c: the packets between a helper and its supervisor.  A     *)
(* packet is the record its wire form stands for; X_encode and X_decode    *)
(* say whether the codec accepts it.  The header carries the kind and a    *)
(* nonzero query id and a status travels as its code.  Counts, indices and *)
(* TTLs are read into unsigned integers, so they are naturals whatever was *)
(* sent; the limits on counts and indices are far below their 16 bits.  A  *)
(* name is read by resolver_ipc_reader_name, which lets the empty one pass *)
(* only where it may be absent.                                            *)
(***************************************************************************)
EXTENDS CacheResult

\* resolver_ipc_lookup_status_maps; the position is the code on the wire.
resolver_ipc_lookup_status_maps ==
    <<"OK", "BAD_ARGUMENT", "LIMIT", "MALFORMED", "MEMORY", "NODATA",
      "NOT_FOUND", "PERMANENT_ERROR", "TEMPORARY_ERROR", "TRUNCATED">>

resolver_ipc_lookup_status_from_address(status) ==
    CHOOSE code \in DOMAIN resolver_ipc_lookup_status_maps : resolver_ipc_lookup_status_maps[code] = status

resolver_ipc_lookup_status_from_srv(status) == resolver_ipc_lookup_status_from_address(status)

resolver_ipc_lookup_status_to_address(code) == resolver_ipc_lookup_status_maps[code]

resolver_ipc_lookup_status_to_srv(code) == resolver_ipc_lookup_status_to_address(code)

resolver_ipc_lookup_status_valid(code) == code \in DOMAIN resolver_ipc_lookup_status_maps

resolver_ipc_negative_valid(negative) ==
    IF negative.valid
    THEN /\ negative \in [valid : {TRUE}, owner : Name, minimum : TTL, record_ttl : TTL, effective_ttl : TTL]
         /\ negative.effective_ttl <= negative.minimum
         /\ negative.effective_ttl <= negative.record_ttl
    ELSE negative = NoNegative

resolver_ipc_response_count_valid(cname_count, record_count) ==
    cname_count \in 0 .. DNS_CNAME_DEPTH_LIMIT /\ record_count \in 0 .. DNS_RECORD_LIMIT

PacketKinds == {"REQUEST", "BEGIN", "CNAME", "ADDRESS", "SRV", "END"}

resolver_ipc_header_encode(packet) == packet.kind \in PacketKinds /\ packet.query_id # 0

resolver_ipc_header_decode(packet, expected_kinds) ==
    packet.query_id # 0 /\ packet.kind \in PacketKinds \cap expected_kinds

resolver_ipc_packet_inspect(packet) == resolver_ipc_header_decode(packet, PacketKinds)

resolver_ipc_query_type_valid(query_type) == query_type \in QueryTypes

resolver_ipc_request_encode(request) ==
    /\ resolver_ipc_query_type_valid(request.query_type)
    /\ request.query_name \in Name
    /\ resolver_ipc_header_encode(request)

resolver_ipc_request_decode(request) ==
    /\ resolver_ipc_header_decode(request, {"REQUEST"})
    /\ resolver_ipc_query_type_valid(request.query_type)
    /\ request.query_name \in Name

resolver_ipc_response_begin_encode(packet) ==
    /\ resolver_ipc_header_encode(packet)
    /\ resolver_ipc_query_type_valid(packet.query_type)
    /\ resolver_ipc_lookup_status_valid(packet.status)
    /\ packet.rcode \in Rcode
    /\ resolver_ipc_negative_valid(packet.negative)
    /\ resolver_ipc_response_count_valid(packet.cname_count, packet.record_count)
    /\ {packet.question_name, packet.canonical_name} \subseteq Name \cup {NoName}

resolver_ipc_response_begin_decode(packet) ==
    /\ resolver_ipc_header_decode(packet, {"BEGIN"})
    /\ resolver_ipc_query_type_valid(packet.query_type)
    /\ resolver_ipc_lookup_status_valid(packet.status)
    /\ packet.rcode \in Rcode
    /\ resolver_ipc_response_count_valid(packet.cname_count, packet.record_count)
    /\ resolver_ipc_negative_valid(packet.negative)
    /\ {packet.question_name, packet.canonical_name} \subseteq Name \cup {NoName}

resolver_ipc_response_cname_encode(packet) ==
    /\ resolver_ipc_header_encode(packet)
    /\ packet.index \in 0 .. DNS_CNAME_DEPTH_LIMIT - 1
    /\ packet.record \in CnameRecord

resolver_ipc_response_cname_decode(packet) ==
    resolver_ipc_header_decode(packet, {"CNAME"}) /\ resolver_ipc_response_cname_encode(packet)

resolver_ipc_response_address_encode(packet) ==
    /\ resolver_ipc_header_encode(packet)
    /\ packet.index \in 0 .. DNS_RECORD_LIMIT - 1
    /\ packet.record \in AddressRecord
    /\ packet.record.effective_ttl <= packet.record.record_ttl

resolver_ipc_response_address_decode(packet) ==
    resolver_ipc_header_decode(packet, {"ADDRESS"}) /\ resolver_ipc_response_address_encode(packet)

resolver_ipc_response_srv_encode(packet) ==
    /\ resolver_ipc_header_encode(packet)
    /\ packet.index \in 0 .. DNS_RECORD_LIMIT - 1
    /\ packet.record \in SrvRecord
    /\ packet.record.effective_ttl <= packet.record.record_ttl

resolver_ipc_response_srv_decode(packet) ==
    resolver_ipc_header_decode(packet, {"SRV"}) /\ resolver_ipc_response_srv_encode(packet)

resolver_ipc_response_end_encode(packet) ==
    resolver_ipc_header_encode(packet) /\ resolver_ipc_response_count_valid(packet.cname_count, packet.record_count)

resolver_ipc_response_end_decode(packet) ==
    resolver_ipc_header_decode(packet, {"END"}) /\ resolver_ipc_response_end_encode(packet)
=============================================================================
