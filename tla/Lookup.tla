------------------------------- MODULE Lookup -------------------------------
(***************************************************************************)
(* A lookup from end to end.  A helper process (resolver/helper.c) asks    *)
(* DNS servers (external), turns the replies into one answer with the      *)
(* operators of DnsLookup.tla and sends it as packets of Ipc.tla over a    *)
(* SOCK_SEQPACKET socket.  The supervisor puts the packets together in an  *)
(* assembly (resolver/ipc_assembly.c) whose memory is charged to one       *)
(* budget, judges the result for the cache, and hands it on.               *)
(*                                                                         *)
(* Each query has a helper of its own.  zone is what the name servers      *)
(* know; a server may answer with any part of an alias chain, in any       *)
(* order and spelling, or fail.  The supervisor's queues, timers and       *)
(* restarts are in Supervisor.tla; here a job that is to be tried again    *)
(* simply ends.                                                            *)
(***************************************************************************)
EXTENDS Ipc

CONSTANTS Query,                 \* query ids, nonzero
          QueryType,             \* [Query -> QueryTypes]
          QueryName,             \* [Query -> the name asked for]
          Zones,                 \* the possible contents of the name servers
          Authorities,           \* the authority section of a negative answer
          ErrorReplies,          \* replies that are no honest answer
          Faults,                \* subset of {"packet", "death", "timeout", "memory", "clock"}
          SOCKET_PACKETS,        \* packets the socket buffers
          BUDGET_BYTES,          \* sizeof(resolver_ipc_assembly_budget)
          ASSEMBLY_BYTES,        \* sizeof(resolver_ipc_assembly)
          RESOLVER_REPLY_ASSEMBLY_BYTE_LIMIT

ASSUME LookupAssumption ==
    /\ Query \subseteq Nat \ {0} /\ IsFiniteSet(Query)
    /\ QueryType \in [Query -> QueryTypes]
    /\ QueryName \in [Query -> Name]
    /\ {BUDGET_BYTES, ASSEMBLY_BYTES, RESOLVER_REPLY_ASSEMBLY_BYTE_LIMIT} \subseteq Nat
    /\ BUDGET_BYTES <= RESOLVER_REPLY_ASSEMBLY_BYTE_LIMIT
    /\ Faults \subseteq {"packet", "death", "timeout", "memory", "clock"}

VARIABLES zone,                  \* [name -> what the servers hold for it]
          helper,                \* [Query -> [pc, lookup, packets still to send]]
          wire,                  \* [Query -> packets sent and not yet received]
          assembly,              \* [Query -> assembly or NoAssembly]
          response,              \* [Query -> result taken from the assembly or NoResponse]
          owned_bytes,           \* budget->owned_bytes
          metrics,               \* the budget's counters
          ended,                 \* queries whose assembly is gone
          honest,                \* queries that met no error reply
          broken                 \* queries whose helper sent a wrong packet

vars == <<zone, helper, wire, assembly, response, owned_bytes, metrics, ended, honest, broken>>

NoAssembly == [state |-> "NONE"]
NoResponse == [status |-> 0]

(***************************************************************************)
(* The name servers.  zone[n] is an alias with its target, the records of  *)
(* n, or the reason why there are none.                                    *)
(***************************************************************************)
Nth(name, k) ==
    LET reached[i \in 0 .. k] ==
            IF i = 0 THEN name
            ELSE IF zone[reached[i - 1]].kind = "cname" THEN zone[reached[i - 1]].target
            ELSE reached[i - 1]
    IN  reached[k]

Spell(name, odd) == IF odd THEN [i \in DOMAIN name |-> name[i] + Case] ELSE name

Payload(query_type, k, odd) == IF query_type = "SRV" THEN Spell(<<k, 9>>, odd) ELSE k

AliasAnswer(name, odd) ==
    [type |-> "cname", sane |-> TRUE, owner |-> Spell(name, odd),
     data |-> Spell(zone[name].target, odd), ttl |-> zone[name].ttl]

DataAnswers(query_type, name, odd) ==
    IF zone[name].kind # "data" THEN <<>>
    ELSE [i \in DOMAIN zone[name].ttls |->
            [type |-> "data", sane |-> TRUE, owner |-> Spell(name, odd),
             data |-> Payload(query_type, i, odd), ttl |-> zone[name].ttls[i]]]

\* Something a server may add: a record of another type.
Extra(name) == <<[type |-> "other", sane |-> FALSE, owner |-> name, data |-> name, ttl |-> 0]>>

\* hops aliases from name on, then (if whole) what their last target has.
HonestReply(query_type, name, hops, whole, odd) ==
    LET last == Nth(name, hops)
        aliases == [i \in 1 .. hops |-> AliasAnswer(Nth(name, i - 1), odd)]
        tail == IF whole THEN DataAnswers(query_type, last, odd) ELSE <<>>
        answers == aliases \o tail
        negative == whole /\ zone[last].kind \in {"nodata", "nxdomain"}
    IN  [errno |-> "none",
         response |->
            [ours |-> TRUE, tc |-> FALSE, question |-> Spell(name, odd),
             rcode |-> IF whole /\ zone[last].kind = "nxdomain" THEN "nxdomain" ELSE "noerror",
             answers |-> IF odd THEN Extra(name) \o Reverse(answers) ELSE answers,
             authorities |-> IF negative THEN Authorities ELSE <<>>]]

HonestReplies(query_type, name) ==
    {HonestReply(query_type, name, cut.hops, cut.whole, cut.odd) :
        cut \in {c \in [hops : 0 .. DNS_CNAME_DEPTH_LIMIT + 1, whole : BOOLEAN, odd : BOOLEAN] :
                    /\ \A i \in 1 .. c.hops : zone[Nth(name, i - 1)].kind = "cname"
                    /\ c.whole => zone[Nth(name, c.hops)].kind # "cname"
                    /\ ~c.whole => c.hops > 0}}

Init ==
    /\ zone \in Zones
    /\ helper = [q \in Query |-> [pc |-> "none", lookup |-> LookupStart(NoName), packets |-> <<>>]]
    /\ wire = [q \in Query |-> <<>>]
    /\ assembly = [q \in Query |-> NoAssembly]
    /\ response = [q \in Query |-> NoResponse]
    /\ owned_bytes = BUDGET_BYTES
    /\ metrics = [create_ok |-> 0, complete |-> 0, limit |-> 0, memory |-> 0, protocol |-> 0, abandoned |-> 0]
    /\ ended = {}
    /\ honest = Query
    /\ broken = {}

(***************************************************************************)
(* The helper.                                                             *)
(***************************************************************************)
CnamePackets(q, result) ==
    [i \in DOMAIN result.cnames |->
        [kind |-> "CNAME", query_id |-> q, index |-> i - 1, record |-> result.cnames[i]]]

RecordPackets(q, kind, result) ==
    [i \in DOMAIN result.records |->
        [kind |-> kind, query_id |-> q, index |-> i - 1, record |-> result.records[i]]]

ResponsePackets(q, kind, code, result) ==
    <<[kind |-> "BEGIN", query_id |-> q, query_type |-> QueryType[q], status |-> code,
       rcode |-> result.rcode, negative |-> result.negative,
       cname_count |-> Len(result.cnames), record_count |-> Len(result.records),
       question_name |-> result.question_name, canonical_name |-> result.canonical_name]>>
    \o CnamePackets(q, result)
    \o RecordPackets(q, kind, result)
    \o <<[kind |-> "END", query_id |-> q,
          cname_count |-> Len(result.cnames), record_count |-> Len(result.records)]>>

resolver_helper_response_address_send(q, lookup) ==
    ResponsePackets(q, "ADDRESS", resolver_ipc_lookup_status_from_address(lookup.status), lookup.aggregate)

resolver_helper_response_srv_send(q, lookup) ==
    ResponsePackets(q, "SRV", resolver_ipc_lookup_status_from_srv(lookup.status), lookup.aggregate)

Encodes(packet) ==
    CASE packet.kind = "BEGIN" -> resolver_ipc_response_begin_encode(packet)
      [] packet.kind = "CNAME" -> resolver_ipc_response_cname_encode(packet)
      [] packet.kind = "ADDRESS" -> resolver_ipc_response_address_encode(packet)
      [] packet.kind = "SRV" -> resolver_ipc_response_srv_encode(packet)
      [] packet.kind = "END" -> resolver_ipc_response_end_encode(packet)

Request(q) ==
    [kind |-> "REQUEST", query_id |-> q, query_type |-> QueryType[q],
     query_name |-> dns_name_normalize(QueryName[q])]

\* The helper waits for a request; one it cannot read ends it.
resolver_helper_run(q) ==
    /\ helper[q].pc = "requested"
    /\ helper' = [helper EXCEPT ![q] =
          IF resolver_ipc_request_decode(Request(q))
          THEN [@ EXCEPT !.pc = "asking", !.lookup = LookupStart(Request(q).query_name)]
          ELSE [@ EXCEPT !.pc = "dead"]]
    /\ UNCHANGED <<zone, wire, assembly, response, owned_bytes, metrics, ended, honest, broken>>

\* One DNS query of the lookup and the reply to it; after the last one the
\* packets of the response are ready to be sent.
Ask(q) ==
    /\ helper[q].pc = "asking"
    /\ LET name == helper[q].lookup.query_name
           honestly == HonestReplies(QueryType[q], name)
       IN  \E reply \in honestly \cup {[e EXCEPT !.response.question = name] : e \in ErrorReplies} :
              LET lookup == IF QueryType[q] = "SRV" THEN dns_srv_lookup(helper[q].lookup, reply)
                                                    ELSE dns_address_lookup(helper[q].lookup, reply)
              IN  /\ honest' = IF reply \in honestly THEN honest ELSE honest \ {q}
                  /\ helper' = [helper EXCEPT ![q] =
                        IF lookup.status = "ASKING" THEN [@ EXCEPT !.lookup = lookup]
                        ELSE [pc |-> "sending", lookup |-> lookup,
                              packets |-> IF QueryType[q] = "SRV"
                                          THEN resolver_helper_response_srv_send(q, lookup)
                                          ELSE resolver_helper_response_address_send(q, lookup)]]
    /\ UNCHANGED <<zone, wire, assembly, response, owned_bytes, metrics, ended, broken>>

\* resolver_helper_packet_send: waits for room, never sends half a packet.
\* A packet the codec refuses ends the helper.
resolver_helper_packet_send(q) ==
    /\ helper[q].pc = "sending"
    /\ LET packet == Head(helper[q].packets)
           rest == Tail(helper[q].packets)
       IN  IF Encodes(packet)
           THEN /\ Len(wire[q]) < SOCKET_PACKETS
                /\ wire' = [wire EXCEPT ![q] = Append(@, packet)]
                /\ helper' = [helper EXCEPT ![q].packets = rest,
                                           ![q].pc = IF rest = <<>> THEN "idle" ELSE @]
           ELSE /\ helper' = [helper EXCEPT ![q].pc = "dead"]
                /\ UNCHANGED wire
    /\ UNCHANGED <<zone, assembly, response, owned_bytes, metrics, ended, honest, broken>>

\* What a broken helper may send instead of a packet: another id, index,
\* count, TTL, name or kind, nothing at all, or the packet twice.
Distorted(packet) ==
    {<<>>, <<packet, packet>>, <<[packet EXCEPT !.query_id = @ + 1]>>}
    \cup (CASE packet.kind = "BEGIN" ->
                  {<<[packet EXCEPT !.record_count = @ + 1]>>, <<[packet EXCEPT !.cname_count = @ + 1]>>,
                   <<[packet EXCEPT !.canonical_name = NoName]>>, <<[packet EXCEPT !.status = 6]>>,
                   <<[packet EXCEPT !.canonical_name = Spell(@, TRUE)]>>,
                   <<[packet EXCEPT !.negative.effective_ttl = 0]>>}
            [] packet.kind = "CNAME" ->
                  {<<[packet EXCEPT !.index = @ + 1]>>, <<[packet EXCEPT !.record.owner = Tail(@)]>>,
                   <<[packet EXCEPT !.record.target = packet.record.owner]>>, <<[packet EXCEPT !.record.ttl = 0]>>}
            [] packet.kind = "END" ->
                  {<<[packet EXCEPT !.record_count = @ + 1]>>, <<[packet EXCEPT !.cname_count = @ + 1]>>}
            [] OTHER ->
                  {<<[packet EXCEPT !.index = @ + 1]>>, <<[packet EXCEPT !.record.effective_ttl = 0]>>,
                   <<[packet EXCEPT !.kind = IF @ = "SRV" THEN "ADDRESS" ELSE "SRV"]>>})

BrokenSend(q) ==
    /\ "packet" \in Faults
    /\ helper[q].pc = "sending"
    /\ broken = {}
    /\ LET packet == Head(helper[q].packets)
           rest == Tail(helper[q].packets)
       IN  \E sent \in Distorted(packet) :
              /\ Len(wire[q]) + Len(sent) <= SOCKET_PACKETS
              /\ wire' = [wire EXCEPT ![q] = @ \o sent]
              /\ helper' = [helper EXCEPT ![q].packets = rest,
                                         ![q].pc = IF rest = <<>> THEN "idle" ELSE @]
    /\ broken' = {q}
    /\ UNCHANGED <<zone, assembly, response, owned_bytes, metrics, ended, honest>>

Die(q) ==
    /\ "death" \in Faults
    /\ helper[q].pc \in {"requested", "asking", "sending"}
    /\ helper' = [helper EXCEPT ![q].pc = "dead"]
    /\ UNCHANGED <<zone, wire, assembly, response, owned_bytes, metrics, ended, honest, broken>>

(***************************************************************************)
(* The assembly.  Each consume operator returns the status and the         *)
(* assembly after one packet.                                              *)
(***************************************************************************)
resolver_ipc_assembly_name_normalized(name) == name # NoName /\ dns_name_normalize(name) = name

Refused(a, status) == [status |-> status, assembly |-> a]
Accepted(a) == [status |-> "OK", assembly |-> a]

resolver_ipc_assembly_begin_check(a, begin) ==
    LET status == resolver_ipc_lookup_status_maps[begin.status]
        bare == begin.canonical_name = NoName /\ begin.cname_count = 0 /\ begin.rcode = "noerror"
        asked == /\ resolver_ipc_assembly_name_normalized(begin.question_name)
                 /\ begin.question_name = a.expected_name
        canonical == resolver_ipc_assembly_name_normalized(begin.canonical_name)
    IN  /\ begin.query_id = a.query_id
        /\ begin.query_type = a.query_type
        /\ (begin.record_count > 0) <=> (status = "OK")
        /\ begin.negative.valid => status \in {"NODATA", "NOT_FOUND"}
        /\ \/ /\ status = "OK"
              /\ asked /\ canonical /\ begin.rcode = "noerror"
           \/ /\ status \in {"NODATA", "NOT_FOUND"} /\ begin.question_name = NoName
              /\ bare /\ ~begin.negative.valid
           \/ /\ status \in {"NODATA", "NOT_FOUND"} /\ begin.question_name # NoName
              /\ asked /\ canonical
              /\ \/ status = "NODATA" /\ begin.rcode = "noerror"
                 \/ status = "NOT_FOUND" /\ begin.rcode = "nxdomain"
                 \/ status = "NOT_FOUND" /\ begin.rcode = "noerror" /\ ~begin.negative.valid
           \/ /\ status \in {"PERMANENT_ERROR", "TEMPORARY_ERROR"}
              /\ status = "TEMPORARY_ERROR" => begin.rcode \in {"noerror", "servfail"}
              /\ status = "PERMANENT_ERROR" => begin.rcode \notin {"nxdomain", "servfail"}
              /\ IF begin.question_name = NoName THEN bare
                 ELSE asked /\ (IF begin.cname_count > 0 THEN canonical ELSE begin.canonical_name = NoName)
           \/ /\ status \in {"BAD_ARGUMENT", "LIMIT", "MALFORMED", "MEMORY", "TRUNCATED"}
              /\ bare /\ begin.question_name = NoName

resolver_ipc_assembly_arrays_allocate(a, begin, memory) ==
    LET bytes == ArrayBytes(a.query_type, begin.cname_count, begin.record_count)
    IN  IF resolver_cache_result_classify(a.query_type, begin.cname_count, begin.record_count) # "OK"
           \/ bytes > RESOLVER_REPLY_ASSEMBLY_BYTE_LIMIT
           \/ owned_bytes > RESOLVER_REPLY_ASSEMBLY_BYTE_LIMIT - bytes
        THEN Refused(a, "LIMIT")
        ELSE IF ~memory THEN Refused(a, "MEMORY")
        ELSE Accepted([a EXCEPT !.dynamic_bytes = bytes])

resolver_ipc_assembly_begin_consume(a, begin, memory) ==
    LET allocated == resolver_ipc_assembly_arrays_allocate(a, begin, memory)
    IN  IF ~resolver_ipc_response_begin_decode(begin) THEN Refused(a, "PROTOCOL")
        ELSE IF ~resolver_ipc_assembly_begin_check(a, begin) THEN Refused(a, "PROTOCOL")
        ELSE IF allocated.status # "OK" THEN allocated
        ELSE Accepted([allocated.assembly EXCEPT
                !.state = IF begin.cname_count > 0 THEN "CNAME"
                          ELSE IF begin.record_count > 0 THEN "RECORD" ELSE "END",
                !.declared_cname_count = begin.cname_count,
                !.declared_record_count = begin.record_count,
                !.status = begin.status,
                !.payload = [EmptyResult EXCEPT !.question_name = begin.question_name,
                                                !.canonical_name = begin.canonical_name,
                                                !.negative = begin.negative, !.rcode = begin.rcode]])

\* Seeded fault: an alias need not start where the last one ended.
cname_consume_unlinked(a, packet) ==
    IF resolver_ipc_response_cname_decode(packet) /\ packet.index = Len(a.payload.cnames)
    THEN Accepted([a EXCEPT
            !.payload.cnames = Append(@, packet.record),
            !.chain_ttl = Lesser(packet.record.ttl, @),
            !.state = IF Len(a.payload.cnames) + 1 # a.declared_cname_count THEN @
                      ELSE IF a.declared_record_count > 0 THEN "RECORD" ELSE "END"])
    ELSE Refused(a, "PROTOCOL")

resolver_ipc_assembly_cname_consume(a, packet) ==
    LET received == a.payload.cnames
        expected_owner == IF received = <<>> THEN a.payload.question_name ELSE Last(received).target
        record == packet.record
        extended == Append(received, record)
    IN  IF /\ resolver_ipc_response_cname_decode(packet)
           /\ packet.index = Len(received)
           /\ resolver_ipc_assembly_name_normalized(record.owner)
           /\ resolver_ipc_assembly_name_normalized(record.target)
           /\ record.owner = expected_owner
           /\ \A i \in DOMAIN received : record.target # received[i].owner
           /\ record.target # record.owner
        THEN Accepted([a EXCEPT
                !.payload.cnames = extended,
                !.chain_ttl = Lesser(record.ttl, @),
                !.state = IF Len(extended) # a.declared_cname_count THEN @
                          ELSE IF a.declared_record_count > 0 THEN "RECORD" ELSE "END"])
        ELSE Refused(a, "PROTOCOL")

resolver_ipc_assembly_record_commit(a, record) ==
    LET extended == Append(a.payload.records, record)
    IN  Accepted([a EXCEPT !.payload.records = extended,
                           !.state = IF Len(extended) = a.declared_record_count THEN "END" ELSE @])

resolver_ipc_assembly_record_address_consume(a, packet) ==
    IF /\ resolver_ipc_response_address_decode(packet)
       /\ packet.index = Len(a.payload.records)
       /\ packet.record.effective_ttl = Lesser(packet.record.record_ttl, a.chain_ttl)
    THEN resolver_ipc_assembly_record_commit(a, packet.record)
    ELSE Refused(a, "PROTOCOL")

resolver_ipc_assembly_record_srv_consume(a, packet) ==
    IF /\ resolver_ipc_response_srv_decode(packet)
       /\ packet.index = Len(a.payload.records)
       /\ resolver_ipc_assembly_name_normalized(packet.record.data)
       /\ packet.record.effective_ttl = Lesser(packet.record.record_ttl, a.chain_ttl)
    THEN resolver_ipc_assembly_record_commit(a, packet.record)
    ELSE Refused(a, "PROTOCOL")

resolver_ipc_assembly_complete_check(a) ==
    LET negative == a.payload.negative
        status == resolver_ipc_lookup_status_maps[a.status]
    IN  /\ IF a.declared_cname_count > 0
           THEN a.payload.canonical_name = Last(a.payload.cnames).target
           ELSE \/ status \in {"PERMANENT_ERROR", "TEMPORARY_ERROR"}
                \/ a.payload.canonical_name = a.payload.question_name
        /\ negative.valid =>
              /\ resolver_ipc_assembly_name_normalized(negative.owner)
              /\ resolver_name_encloses(negative.owner, a.payload.canonical_name)
              /\ negative.effective_ttl = Min({negative.minimum, negative.record_ttl, a.chain_ttl})

resolver_ipc_assembly_end_consume(a, packet) ==
    IF /\ resolver_ipc_response_end_decode(packet)
       /\ packet.cname_count = a.declared_cname_count
       /\ packet.record_count = a.declared_record_count
       /\ Len(a.payload.cnames) = a.declared_cname_count
       /\ Len(a.payload.records) = a.declared_record_count
       /\ resolver_ipc_assembly_complete_check(a)
    THEN [status |-> "COMPLETE", assembly |-> [a EXCEPT !.state = "COMPLETE"]]
    ELSE Refused(a, "PROTOCOL")

resolver_ipc_assembly_packet_consume(a, packet, memory) ==
    IF ~resolver_ipc_packet_inspect(packet) \/ packet.query_id # a.query_id THEN Refused(a, "PROTOCOL")
    ELSE CASE a.state = "BEGIN" /\ packet.kind = "BEGIN" -> resolver_ipc_assembly_begin_consume(a, packet, memory)
           [] a.state = "CNAME" /\ packet.kind = "CNAME" -> resolver_ipc_assembly_cname_consume(a, packet)
           [] a.state = "RECORD" /\ packet.kind = "SRV" /\ a.query_type = "SRV" ->
                  resolver_ipc_assembly_record_srv_consume(a, packet)
           [] a.state = "RECORD" /\ packet.kind = "ADDRESS" /\ a.query_type # "SRV" ->
                  resolver_ipc_assembly_record_address_consume(a, packet)
           [] a.state = "END" /\ packet.kind = "END" -> resolver_ipc_assembly_end_consume(a, packet)
           [] OTHER -> Refused(a, "PROTOCOL")

(***************************************************************************)
(* The supervisor.  A charge is taken back with the code's guard against   *)
(* going below zero.                                                       *)
(***************************************************************************)
Uncharge(bytes) == IF owned_bytes >= bytes THEN owned_bytes - bytes ELSE 0

\* The counter of an assembly that fails; see resolver_ipc_assembly_fail.
resolver_ipc_assembly_metrics_terminal_record(status) ==
    CASE status = "LIMIT" -> "limit" [] status = "MEMORY" -> "memory" [] OTHER -> "protocol"

\* A creation the budget or the allocator refuses leaves the job to a retry.
resolver_ipc_assembly_create(q) ==
    /\ assembly' = [assembly EXCEPT ![q] =
          [state |-> "BEGIN", query_id |-> q, query_type |-> QueryType[q],
           expected_name |-> dns_name_normalize(QueryName[q]),
           declared_cname_count |-> 0, declared_record_count |-> 0, status |-> 0,
           payload |-> EmptyResult, chain_ttl |-> UINT32_MAX, dynamic_bytes |-> 0]]
    /\ owned_bytes' = owned_bytes + ASSEMBLY_BYTES
    /\ metrics' = [metrics EXCEPT !.create_ok = @ + 1]

\* The completion of a job that could not be sent: a bare status.
Unsent(q, status, publication) ==
    response' = [response EXCEPT ![q] =
        [status |-> resolver_ipc_lookup_status_from_address(status), payload |-> EmptyResult,
         dynamic_bytes |-> 0, publication |-> publication]]

\* The request goes out; or it cannot be encoded, or no deadline can be set for
\* it, and the assembly just created is destroyed and the job completed.
resolver_supervisor_helper_job_assign(q) ==
    LET encoded == resolver_ipc_request_encode(Request(q))
    IN  /\ assembly[q] = NoAssembly
        /\ q \notin ended
        /\ owned_bytes <= RESOLVER_REPLY_ASSEMBLY_BYTE_LIMIT - ASSEMBLY_BYTES
        /\ \/ /\ encoded
              /\ resolver_ipc_assembly_create(q)
              /\ helper' = [helper EXCEPT ![q].pc = "requested"]
              /\ UNCHANGED <<response, ended>>
           \/ /\ ~encoded \/ "clock" \in Faults
              /\ IF encoded THEN Unsent(q, "PERMANENT_ERROR", "TIME") ELSE Unsent(q, "LIMIT", "LIMIT")
              /\ metrics' = [metrics EXCEPT !.create_ok = @ + 1, !.abandoned = @ + 1]
              /\ ended' = ended \cup {q}
              /\ UNCHANGED <<helper, assembly, owned_bytes>>
        /\ UNCHANGED <<zone, wire, honest, broken>>

\* Seeded fault: the arrays are freed but stay charged.
destroy_shell_only(q, counter) ==
    /\ owned_bytes' = Uncharge(ASSEMBLY_BYTES)
    /\ assembly' = [assembly EXCEPT ![q] = NoAssembly]
    /\ metrics' = [metrics EXCEPT ![counter] = @ + 1]
    /\ ended' = ended \cup {q}

\* resolver_ipc_assembly_destroy, and resolver_ipc_assembly_data_clear in it.
resolver_ipc_assembly_destroy(q, counter) ==
    /\ owned_bytes' = Uncharge(assembly[q].dynamic_bytes + ASSEMBLY_BYTES)
    /\ assembly' = [assembly EXCEPT ![q] = NoAssembly]
    /\ metrics' = [metrics EXCEPT ![counter] = @ + 1]
    /\ ended' = ended \cup {q}

resolver_supervisor_helper_stop(q) ==
    /\ helper' = [helper EXCEPT ![q].pc = "dead"]
    /\ wire' = [wire EXCEPT ![q] = <<>>]

resolver_supervisor_result_publish(q, a) ==
    LET status == IF a.query_type = "SRV" THEN resolver_ipc_lookup_status_to_srv(a.status)
                                          ELSE resolver_ipc_lookup_status_to_address(a.status)
        verdict == IF a.query_type = "SRV"
                   THEN resolver_cache_srv_result_validate(a.expected_name, status, a.payload)
                   ELSE resolver_cache_address_result_validate(a.expected_name, status, a.payload)
    IN  IF status \in {"OK", "NODATA", "NOT_FOUND"} /\ verdict.valid THEN "VALID" ELSE "INVALID"

\* The assembly gives its result away and is destroyed.  The result is dropped
\* with the helper when it was completed after its deadline, dropped when it is
\* a temporary error, to be tried again, or when nobody is interested any more
\* (the cache has it then); otherwise it goes on as a completion.
resolver_supervisor_helper_result_finish(q, a) ==
    LET temporary == resolver_ipc_lookup_status_maps[a.status] = "TEMPORARY_ERROR"
        consumed == wire' = [wire EXCEPT ![q] = Tail(@)] /\ UNCHANGED helper
    IN  /\ assembly' = [assembly EXCEPT ![q] = NoAssembly]
        /\ metrics' = [metrics EXCEPT !.complete = @ + 1]
        /\ ended' = ended \cup {q}
        /\ \E late \in (IF "timeout" \in Faults THEN BOOLEAN ELSE {FALSE}), orphaned \in BOOLEAN :
              /\ IF late THEN resolver_supervisor_helper_stop(q) ELSE consumed
              /\ IF late \/ temporary \/ orphaned
                 THEN /\ owned_bytes' = Uncharge(ASSEMBLY_BYTES + a.dynamic_bytes)
                      /\ UNCHANGED response
                 ELSE /\ owned_bytes' = Uncharge(ASSEMBLY_BYTES)
                      /\ response' = [response EXCEPT ![q] =
                             [status |-> a.status, payload |-> a.payload, dynamic_bytes |-> a.dynamic_bytes,
                              publication |-> resolver_supervisor_result_publish(q, a)]]

\* One packet of resolver_supervisor_helper_drain while the helper is busy.
resolver_supervisor_helper_drain(q) ==
    /\ assembly[q] # NoAssembly
    /\ wire[q] # <<>>
    /\ \E memory \in (IF "memory" \in Faults THEN BOOLEAN ELSE {TRUE}) :
          LET outcome == resolver_ipc_assembly_packet_consume(assembly[q], Head(wire[q]), memory)
          IN  \/ /\ outcome.status = "OK"
                 /\ assembly' = [assembly EXCEPT ![q] = outcome.assembly]
                 /\ owned_bytes' = owned_bytes + outcome.assembly.dynamic_bytes - assembly[q].dynamic_bytes
                 /\ wire' = [wire EXCEPT ![q] = Tail(@)]
                 /\ UNCHANGED <<helper, response, metrics, ended>>
              \/ /\ outcome.status = "COMPLETE"
                 /\ resolver_supervisor_helper_result_finish(q, outcome.assembly)
              \/ /\ outcome.status \in {"LIMIT", "MEMORY", "PROTOCOL"}
                 /\ resolver_ipc_assembly_destroy(q, resolver_ipc_assembly_metrics_terminal_record(outcome.status))
                 /\ resolver_supervisor_helper_stop(q)
                 /\ UNCHANGED response
    /\ UNCHANGED <<zone, honest, broken>>

\* The socket takes a request that had to wait, and no deadline can be set.
SendTime(q) ==
    /\ "clock" \in Faults
    /\ assembly[q] # NoAssembly
    /\ helper[q].pc = "requested"
    /\ resolver_ipc_assembly_destroy(q, "abandoned")
    /\ Unsent(q, "PERMANENT_ERROR", "TIME")
    /\ helper' = [helper EXCEPT ![q].pc = "none"]
    /\ UNCHANGED <<zone, wire, honest, broken>>

\* A packet from a helper that has nothing to say is a protocol error.
StrayPacket(q) ==
    /\ assembly[q] = NoAssembly
    /\ wire[q] # <<>>
    /\ resolver_supervisor_helper_stop(q)
    /\ UNCHANGED <<zone, assembly, response, owned_bytes, metrics, ended, honest, broken>>

\* The end of the stream of a helper that exited, or the query's deadline.
HelperGone(q) ==
    /\ assembly[q] # NoAssembly
    /\ helper[q].pc = "dead"
    /\ wire[q] = <<>>
    /\ resolver_ipc_assembly_destroy(q, "abandoned")
    /\ UNCHANGED <<zone, helper, wire, response, honest, broken>>

Deadline(q) ==
    /\ "timeout" \in Faults
    /\ assembly[q] # NoAssembly
    /\ resolver_ipc_assembly_destroy(q, "abandoned")
    /\ resolver_supervisor_helper_stop(q)
    /\ UNCHANGED <<zone, response, honest, broken>>

resolver_supervisor_completion_destroy(q) ==
    /\ response[q] # NoResponse
    /\ owned_bytes' = Uncharge(response[q].dynamic_bytes)
    /\ response' = [response EXCEPT ![q] = NoResponse]
    /\ UNCHANGED <<zone, helper, wire, assembly, metrics, ended, honest, broken>>

HelperStep(q) == resolver_helper_run(q) \/ Ask(q) \/ resolver_helper_packet_send(q)

SupervisorStep(q) ==
    \/ resolver_supervisor_helper_job_assign(q)
    \/ resolver_supervisor_helper_drain(q)
    \/ StrayPacket(q)
    \/ HelperGone(q)
    \/ resolver_supervisor_completion_destroy(q)

Next == \E q \in Query : HelperStep(q) \/ SupervisorStep(q) \/ BrokenSend(q) \/ Die(q) \/ Deadline(q) \/ SendTime(q)

Spec == Init /\ [][Next]_vars

\* Each process runs when it can: a DNS query returns (res_nsend gives up
\* after its retransmissions) and the supervisor's loop visits every socket.
FairSpec == Spec /\ \A q \in Query : WF_vars(HelperStep(q)) /\ WF_vars(SupervisorStep(q))

-----------------------------------------------------------------------------
(***************************************************************************)
(* Properties.                                                             *)
(***************************************************************************)
\* The reference: follow the zone from the question for at most
\* DNS_CNAME_DEPTH_LIMIT aliases; every alias bounds the TTL.
Depths(name) == {k \in 0 .. DNS_CNAME_DEPTH_LIMIT : zone[Nth(name, k)].kind # "cname"}

ReferenceStatus(name) ==
    IF Depths(name) = {} THEN {"LIMIT", "MALFORMED"}
    ELSE CASE zone[Nth(name, Min(Depths(name)))].kind = "data" -> {"OK"}
           [] zone[Nth(name, Min(Depths(name)))].kind = "nodata" -> {"NODATA"}
           [] zone[Nth(name, Min(Depths(name)))].kind = "nxdomain" -> {"NOT_FOUND"}

ReferenceTTL(name, ttl) ==
    Min({ttl} \cup {zone[Nth(name, k)].ttl : k \in 0 .. Min(Depths(name)) - 1})

ClosestAuthority(name) ==
    LET enclosing == {i \in DOMAIN Authorities : Authorities[i].soa /\ IsSuffix(Authorities[i].owner, name)}
    IN  CHOOSE i \in enclosing : \A j \in enclosing : Len(Authorities[j].owner) <= Len(Authorities[i].owner)

Canonical(name) == Nth(name, Min(Depths(name)))

\* A helper's result that reached the completion.
Answered(q) == response[q] # NoResponse /\ response[q].publication \in {"VALID", "INVALID"}

StatusOf(q) == resolver_ipc_lookup_status_maps[response[q].status]

\* Whatever part of an alias chain each name server returns, in whatever
\* order and spelling, dns_address_lookup and dns_srv_lookup reach the answer
\* that following the zone gives: the same outcome, canonical name and
\* records, and an effective TTL no alias on the way has outlived; a chain
\* that loops or is too long is an error.  The answer survives the packets.
AnswerMatchesZone ==
    \A q \in honest \ broken :
        LET name == QueryName[q]
            payload == response[q].payload
            end == zone[Canonical(name)]
        IN  Answered(q) =>
              /\ StatusOf(q) \in ReferenceStatus(name)
              /\ Depths(name) # {} => payload.canonical_name = Canonical(name)
              /\ StatusOf(q) = "OK" =>
                    /\ Len(payload.records) = Len(end.ttls)
                    /\ Range(payload.records) =
                          {[data |-> Payload(QueryType[q], i, FALSE), record_ttl |-> end.ttls[i],
                            effective_ttl |-> ReferenceTTL(name, end.ttls[i])] : i \in DOMAIN end.ttls}
              /\ StatusOf(q) \in {"NODATA", "NOT_FOUND"} =>
                    LET soa == Authorities[ClosestAuthority(Canonical(name))]
                    IN  payload.negative.effective_ttl = ReferenceTTL(name, Lesser(soa.minimum, soa.ttl))

\* The lookup, the codec, the assembly and the cache agree on what a result
\* is: whatever a working helper sends (error answers included) is never a
\* protocol error, never kills the helper for a packet its own codec refuses,
\* and a result with an outcome worth caching is always fit to be published
\* (the supervisor never sees RESOLVER_CACHE_PUBLISH_INVALID for one).
PartsAgree ==
    /\ broken = {} => metrics.protocol = 0
    /\ \A q \in Query \ broken :
          (helper[q].pc = "sending" => Encodes(Head(helper[q].packets)))
    /\ \A q \in Query \ broken :
          (Answered(q) /\ StatusOf(q) \in {"OK", "NODATA", "NOT_FOUND"})
              => response[q].publication = "VALID"

\* Whatever packets arrive, in whatever order, a result that gets past the
\* assembly and the cache is coherent: its aliases lead from the question to the
\* canonical name without coming back, as many records as were declared are
\* there, and no record is fresh for longer than an alias it was reached by.
Path(result) ==
    [i \in 1 .. Len(result.cnames) + 1 |->
        IF i = 1 THEN result.question_name ELSE result.cnames[i - 1].target]
CompleteIsSound ==
    \A q \in Query :
        LET payload == response[q].payload
            names == Path(payload)
        IN  (response[q] # NoResponse /\ response[q].publication = "VALID") =>
              /\ payload.question_name = dns_name_normalize(QueryName[q])
              /\ \A i \in DOMAIN payload.cnames : payload.cnames[i].owner = names[i]
              /\ IsInjective(names)
              /\ payload.canonical_name = names[Len(payload.cnames) + 1]
              /\ (StatusOf(q) = "OK") <=> (payload.records # <<>>)
              /\ \A i \in DOMAIN payload.records, j \in DOMAIN payload.cnames :
                    payload.records[i].effective_ttl <= payload.cnames[j].ttl

AssemblyCharge(a) == IF a = NoAssembly THEN 0 ELSE ASSEMBLY_BYTES + a.dynamic_bytes
Assembling == [q \in Query |-> AssemblyCharge(assembly[q])]
ResponseCharge(r) == IF r = NoResponse THEN 0 ELSE r.dynamic_bytes
Holding == [q \in Query |-> ResponseCharge(response[q])]

\* The budget is charged with exactly what is alive: itself, each assembly
\* and its arrays, and each result until its completion is destroyed; it
\* never exceeds its limit, and every assembly ever created is counted under
\* exactly one outcome once it is gone.
BudgetExact ==
    LET open == {q \in Query : assembly[q] # NoAssembly}
    IN  /\ owned_bytes = BUDGET_BYTES + SumFunction(Assembling) + SumFunction(Holding)
        /\ owned_bytes <= RESOLVER_REPLY_ASSEMBLY_BYTE_LIMIT
        /\ metrics.create_ok = Cardinality(open) + metrics.complete + metrics.limit + metrics.memory
                                 + metrics.protocol + metrics.abandoned

\* Every query ends: a lookup cannot go round in a loop of aliases, however
\* the servers cut it up, the packets of its answer all get through a socket
\* that buffers few of them, and its result is taken, dropped or tried again.
LookupEnds == \A q \in Query : <>(q \in ended \/ q \in broken)
=============================================================================
