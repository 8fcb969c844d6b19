---------------------------- MODULE CacheResult ----------------------------
(***************************************************************************)
(* The part of resolver/cache.c that judges a lookup result: whether it    *)
(* may be published, for how long it stays fresh, and how many bytes it    *)
(* takes.  A result is a record of DnsLookup.tla.                          *)
(***************************************************************************)
EXTENDS DnsLookup

CONSTANTS PAYLOAD_BYTES,                 \* sizeof(resolver_cache_payload)
          CNAME_ARRAY_BYTES,             \* DNS_CNAME_DEPTH_LIMIT * sizeof(dns_cname_record)
          RECORD_BYTES,                  \* [query type -> size of one record]
          RESOLVER_CACHE_RESULT_BYTE_LIMIT

QueryTypes == {"A", "AAAA", "SRV"}

ASSUME BytesAssumption ==
    /\ {PAYLOAD_BYTES, CNAME_ARRAY_BYTES, RESOLVER_CACHE_RESULT_BYTE_LIMIT} \subseteq Nat
    /\ RECORD_BYTES \in [QueryTypes -> Nat]

ArrayBytes(query_type, cname_count, record_count) ==
    (IF cname_count > 0 THEN CNAME_ARRAY_BYTES ELSE 0) + record_count * RECORD_BYTES[query_type]

resolver_cache_result_classify(query_type, cname_count, record_count) ==
    IF cname_count > DNS_CNAME_DEPTH_LIMIT \/ record_count > DNS_RECORD_LIMIT THEN "SHAPE"
    ELSE IF PAYLOAD_BYTES + ArrayBytes(query_type, cname_count, record_count) > RESOLVER_CACHE_RESULT_BYTE_LIMIT
    THEN "BYTES" ELSE "OK"

resolver_cache_address_result_size(result) ==
    PAYLOAD_BYTES + ArrayBytes("A", Len(result.cnames), Len(result.records))

resolver_cache_srv_result_size(result) ==
    PAYLOAD_BYTES + ArrayBytes("SRV", Len(result.cnames), Len(result.records))

resolver_cache_name_valid(name) == name # NoName

resolver_cache_cnames_valid(cnames) ==
    /\ Len(cnames) <= DNS_CNAME_DEPTH_LIMIT
    /\ \A i \in DOMAIN cnames :
           resolver_cache_name_valid(cnames[i].owner) /\ resolver_cache_name_valid(cnames[i].target)

resolver_cache_negative_valid(negative) ==
    IF negative.valid
    THEN /\ resolver_cache_name_valid(negative.owner)
         /\ negative.effective_ttl <= negative.minimum
         /\ negative.effective_ttl <= negative.record_ttl
    ELSE negative = NoNegative

resolver_cache_question_matches(name, question_name) ==
    question_name # NoName /\ dns_name_normalize(question_name) = name

Invalid == [valid |-> FALSE, ttl |-> 0, view |-> "EMPTY"]

\* The verdict on a result for an entry of that name: validity, TTL, view.
ResultValidate(name, status, result) ==
    LET shared == /\ resolver_cache_question_matches(name, result.question_name)
                  /\ resolver_cache_name_valid(result.canonical_name)
                  /\ resolver_cache_cnames_valid(result.cnames)
                  /\ resolver_cache_negative_valid(result.negative)
        ttls == {result.records[i].effective_ttl : i \in DOMAIN result.records}
        positive == /\ result.rcode = "noerror"
                    /\ Len(result.records) \in 1 .. DNS_RECORD_LIMIT
                    /\ ~result.negative.valid
                    /\ \A i \in DOMAIN result.records :
                           result.records[i].effective_ttl <= result.records[i].record_ttl
        negative == /\ result.records = <<>>
                    /\ \/ status = "NODATA" /\ result.rcode = "noerror"
                       \/ status = "NOT_FOUND" /\ result.rcode = "nxdomain"
    IN  IF shared /\ status = "OK" /\ positive
        THEN [valid |-> TRUE, ttl |-> Min(ttls), view |-> "POSITIVE"]
        ELSE IF shared /\ status # "OK" /\ negative
        THEN [valid |-> TRUE, ttl |-> result.negative.effective_ttl,
              view |-> IF status = "NODATA" THEN "NODATA" ELSE "NXDOMAIN"]
        ELSE Invalid

resolver_cache_address_result_validate(name, status, result) == ResultValidate(name, status, result)

resolver_cache_srv_result_validate(name, status, result) ==
    IF status = "OK" /\ \E i \in DOMAIN result.records : ~resolver_cache_name_valid(result.records[i].data)
    THEN Invalid ELSE ResultValidate(name, status, result)
=============================================================================
