----------------------------- MODULE DnsLookup -----------------------------
(***************************************************************************)
(* resolver/dns.c: how a helper turns DNS responses into one answer.  A    *)
(* response is parsed into a partial result; partial results are chained   *)
(* along CNAMEs until records, a negative answer or an error ends the      *)
(* lookup.  Everything here is an operator; Lookup.tla runs them.          *)
(*                                                                         *)
(* A name is a sequence of labels, most specific first, <<>> being the     *)
(* root; a label is a number and its upper-case spelling is that number    *)
(* plus Case.  Labels are at least two characters long, so that a longer   *)
(* suffix is also a longer string.  A resource record keeps its owner, its *)
(* payload, its TTL and whether its RDATA is well formed ("sane").         *)
(***************************************************************************)
EXTENDS Integers, Sequences, FiniteSetsExt, Seqs

CONSTANTS DNS_CNAME_DEPTH_LIMIT,        \* longest alias chain
          DNS_RECORD_LIMIT,             \* DNS_ADDRESS_RECORD_LIMIT = DNS_SRV_RECORD_LIMIT
          DNS_AUTHORITY_RECORD_LIMIT,
          UINT32_MAX                    \* larger than every TTL

ASSUME LimitsAssumption ==
    /\ DNS_CNAME_DEPTH_LIMIT \in Nat \ {0}
    /\ DNS_RECORD_LIMIT \in Nat \ {0}
    /\ DNS_AUTHORITY_RECORD_LIMIT \in Nat
    /\ UINT32_MAX \in Nat \ {0}

Case == 100
Label == 1 .. Case - 1 \cup Case + 1 .. 2 * Case - 1
Name == Seq(Label)
NoName == <<0>>                          \* the empty string
TTL == 0 .. UINT32_MAX

dns_name_normalize(name) == [i \in DOMAIN name |-> name[i] % Case]

dns_name_equal(left, right) == dns_name_normalize(left) = dns_name_normalize(right)

resolver_name_encloses(zone, name) == IsSuffix(zone, name)

Lesser(a, b) == IF a < b THEN a ELSE b

(***************************************************************************)
(* Results.                                                                *)
(***************************************************************************)
CnameRecord == [owner : Name, target : Name, ttl : TTL]
AddressRecord == [data : Nat, record_ttl : TTL, effective_ttl : TTL]
SrvRecord == [data : Name, record_ttl : TTL, effective_ttl : TTL]
Rcode == {"noerror", "nxdomain", "servfail", "refused"}   \* the last one for all the others

NoNegative == [valid |-> FALSE, owner |-> NoName, minimum |-> 0,
               record_ttl |-> 0, effective_ttl |-> 0]

EmptyResult == [question_name |-> NoName, canonical_name |-> NoName,
                cnames |-> <<>>, records |-> <<>>,
                negative |-> NoNegative, rcode |-> "noerror"]

dns_lookup_status_keeps_result(status) ==
    status \in {"OK", "NODATA", "NOT_FOUND", "PERMANENT_ERROR", "TEMPORARY_ERROR"}

dns_srv_lookup_status_keeps_result(status) == dns_lookup_status_keeps_result(status)

(***************************************************************************)
(* The authority section: the SOA of the closest zone that encloses the    *)
(* canonical name gives the negative TTL, the aliases bound it.            *)
(***************************************************************************)
dns_cname_ttl_min(cnames) ==
    Min({UINT32_MAX} \cup {cnames[i].ttl : i \in DOMAIN cnames})

dns_negative_record_parse(authority) ==
    [owner |-> dns_name_normalize(authority.owner),
     minimum |-> authority.minimum, record_ttl |-> authority.ttl]

\* Seeded fault: the widest zone wins.
WidestZone(enclosing) == Min({Len(c.owner) : c \in enclosing})

\* Of two SOAs the one with the longer owner is closer.
ClosestZone(enclosing) == Max({Len(c.owner) : c \in enclosing})

dns_negative_response_parse(authorities, canonical_name, cnames) ==
    LET soas == {i \in DOMAIN authorities : authorities[i].soa}
        candidates == {dns_negative_record_parse(authorities[i]) : i \in soas}
        enclosing == {c \in candidates : resolver_name_encloses(c.owner, canonical_name)}
        closest == {c \in enclosing : Len(c.owner) = ClosestZone(enclosing)}
        minimum == Min({c.minimum : c \in closest})
        ttl == Min({c.record_ttl : c \in closest})
    IN  IF Len(authorities) > DNS_AUTHORITY_RECORD_LIMIT
        THEN [status |-> "LIMIT", negative |-> NoNegative]
        ELSE IF \E i \in soas : ~authorities[i].sane
        THEN [status |-> "MALFORMED", negative |-> NoNegative]
        ELSE IF enclosing = {}
        THEN [status |-> "OK", negative |-> NoNegative]
        ELSE [status |-> "OK",
              negative |-> [valid |-> TRUE, owner |-> (CHOOSE c \in closest : TRUE).owner,
                            minimum |-> minimum, record_ttl |-> ttl,
                            effective_ttl |-> Min({minimum, ttl, dns_cname_ttl_min(cnames)})]]

(***************************************************************************)
(* The answer section.                                                     *)
(***************************************************************************)
OfType(answers, type) == SelectSeq(answers, LAMBDA a : a.type = type)

dns_name_record_parse(answer) ==
    [owner |-> dns_name_normalize(answer.owner),
     target |-> dns_name_normalize(answer.data), ttl |-> answer.ttl]

CnamesCollect(answers) ==
    LET found == OfType(answers, "cname")
    IN  [i \in DOMAIN found |-> dns_name_record_parse(found[i])]

dns_response_addresses_collect(answers) ==
    LET found == OfType(answers, "data")
    IN  [sane |-> \A i \in DOMAIN answers : answers[i].type # "other" => answers[i].sane,
         cnames |-> CnamesCollect(answers),
         records |-> [i \in DOMAIN found |->
                        [owner |-> dns_name_normalize(found[i].owner),
                         data |-> found[i].data, ttl |-> found[i].ttl]]]

\* The payload of an SRV record is a target name, which is normalised too.
dns_srv_response_records_collect(answers) ==
    LET plain == dns_response_addresses_collect(answers)
    IN  [plain EXCEPT !.records =
            [i \in DOMAIN @ |-> [@[i] EXCEPT !.data = dns_name_normalize(@)]]]

(***************************************************************************)
(* Following the aliases of one response.                                  *)
(***************************************************************************)
ChainLinks(cnames, name) == {i \in DOMAIN cnames : cnames[i].owner = name}

OwnedBy(records, name) == SelectSeq(records, LAMBDA r : r.owner = name)

\* One turn of the while loop of dns_response_chain_build; walk.status is
\* "WALKING" while the loop goes on and "END" when no alias matches.
ChainStep(records, cnames, walk) ==
    LET links == ChainLinks(cnames, walk.name)
        target == cnames[Min(links)].target
        ttl == Min({cnames[i].ttl : i \in links})
    IN  IF Cardinality({cnames[i].target : i \in links}) > 1
        THEN [walk EXCEPT !.status = "MALFORMED"]
        ELSE IF links = {}
        THEN [walk EXCEPT !.status = "END"]
        ELSE IF OwnedBy(records, walk.name) # <<>>
        THEN [walk EXCEPT !.status = "MALFORMED"]
        ELSE IF Len(walk.chain) = DNS_CNAME_DEPTH_LIMIT
        THEN [walk EXCEPT !.status = "LIMIT"]
        ELSE IF \E i \in DOMAIN walk.chain : walk.chain[i].owner = target
        THEN [walk EXCEPT !.status = "MALFORMED"]
        ELSE [name |-> target, status |-> "WALKING",
              chain |-> Append(walk.chain, [owner |-> walk.name, target |-> target, ttl |-> ttl])]

ChainWalk(records, cnames, question) ==
    LET after[turns \in 0 .. DNS_CNAME_DEPTH_LIMIT + 1] ==
            IF turns = 0 THEN [name |-> question, status |-> "WALKING", chain |-> <<>>]
            ELSE IF after[turns - 1].status # "WALKING" THEN after[turns - 1]
            ELSE ChainStep(records, cnames, after[turns - 1])
    IN  after[DNS_CNAME_DEPTH_LIMIT + 1]

\* Returns the parse status with the result's chain, canonical name and records.
dns_response_chain_build(collected, result) ==
    LET walk == ChainWalk(collected.records, collected.cnames, result.question_name)
        chain_ttl == dns_cname_ttl_min(walk.chain)
        owned == OwnedBy(collected.records, walk.name)
        built == [result EXCEPT
                    !.canonical_name = walk.name, !.cnames = walk.chain,
                    !.records = [i \in DOMAIN owned |->
                                   [data |-> owned[i].data, record_ttl |-> owned[i].ttl,
                                    effective_ttl |-> Lesser(chain_ttl, owned[i].ttl)]]]
    IN  IF walk.status # "END" THEN [status |-> walk.status, result |-> result]
        ELSE IF owned # <<>> THEN [status |-> "OK", result |-> built]
        ELSE IF walk.chain = <<>> THEN [status |-> "NODATA", result |-> built]
        ELSE [status |-> "ALIAS_ONLY", result |-> built]

dns_srv_response_chain_build(collected, result) == dns_response_chain_build(collected, result)

(***************************************************************************)
(* Parsing one response.  response.ours stands for the checks on the       *)
(* header and the question's class and type; a failure discards the        *)
(* partial result, an error code keeps the question and the code.          *)
(***************************************************************************)
Rejected(status) == [status |-> status, result |-> EmptyResult]

WithNegative(response, built, status) ==
    LET negative == dns_negative_response_parse(response.authorities, built.result.canonical_name,
                                                built.result.cnames)
    IN  IF negative.status = "OK"
        THEN [status |-> status, result |-> [built.result EXCEPT !.negative = negative.negative]]
        ELSE Rejected(negative.status)

Opened(response) ==
    [EmptyResult EXCEPT !.question_name = dns_name_normalize(response.question), !.rcode = response.rcode]

\* What both parsers do around building the chain.
ResponseParse(response, expected_name, built) ==
    IF ~response.ours THEN Rejected("MALFORMED")
    ELSE IF response.tc THEN Rejected("TRUNCATED")
    ELSE IF ~dns_name_equal(response.question, expected_name) THEN Rejected("MALFORMED")
    ELSE IF response.rcode \notin {"noerror", "nxdomain"}
    THEN [status |-> "RCODE_ERROR", result |-> Opened(response)]
    ELSE IF Len(response.answers) > DNS_RECORD_LIMIT THEN Rejected("LIMIT")
    ELSE IF built.status \in {"MALFORMED", "LIMIT"} THEN Rejected(built.status)
    ELSE IF response.rcode = "nxdomain"
    THEN IF built.status = "OK" THEN Rejected("MALFORMED")
         ELSE WithNegative(response, built, "NXDOMAIN")
    ELSE IF built.status = "NODATA" THEN WithNegative(response, built, "NODATA")
    ELSE built

AddressBuilt(response, collected) ==
    IF collected.sane THEN dns_response_chain_build(collected, Opened(response)) ELSE Rejected("MALFORMED")

\* Seeded fault: the owners of address records are compared as they are spelled.
address_parse_as_spelled(response, expected_name) ==
    LET collected == dns_response_addresses_collect(response.answers)
        found == OfType(response.answers, "data")
        spelled == [collected EXCEPT !.records = [i \in DOMAIN @ |-> [@[i] EXCEPT !.owner = found[i].owner]]]
    IN  ResponseParse(response, expected_name, AddressBuilt(response, spelled))

dns_address_response_parse(response, expected_name) ==
    ResponseParse(response, expected_name, AddressBuilt(response, dns_response_addresses_collect(response.answers)))

SrvBuilt(response, collected) ==
    IF collected.sane THEN dns_srv_response_chain_build(collected, Opened(response)) ELSE Rejected("MALFORMED")
dns_srv_response_parse(response, expected_name) ==
    ResponseParse(response, expected_name, SrvBuilt(response, dns_srv_response_records_collect(response.answers)))

(***************************************************************************)
(* A lookup: one query per turn, the next one for the canonical name of    *)
(* an answer that ends in an alias.  lookup.status is "ASKING" while the   *)
(* loop goes on.                                                           *)
(***************************************************************************)
dns_query_exact(errno) ==
    CASE errno = "ENOMEM" -> "MEMORY"
      [] errno = "EMSGSIZE" -> "MALFORMED"
      [] errno \in {"ESRCH", "EINVAL", "EAFNOSUPPORT", "EPROTONOSUPPORT", "EACCES", "EPERM"} -> "PERMANENT_ERROR"
      [] OTHER -> "TEMPORARY_ERROR"

dns_lookup_parse_status(parse_status, rcode) ==
    CASE parse_status \in {"OK", "ALIAS_ONLY"} -> "OK"
      [] parse_status = "NXDOMAIN" -> "NOT_FOUND"
      [] parse_status = "RCODE_ERROR" -> IF rcode = "servfail" THEN "TEMPORARY_ERROR" ELSE "PERMANENT_ERROR"
      [] OTHER -> parse_status

dns_srv_lookup_parse_status(parse_status, rcode) == dns_lookup_parse_status(parse_status, rcode)

\* Seeded fault: aliases that do not fit are dropped, without an error.
chain_append_truncated(target, source, chain_ttl) ==
    LET chain == target.cnames \o source.cnames
        kept == Lesser(Len(chain), DNS_CNAME_DEPTH_LIMIT)
    IN  [status |-> "OK",
         chain_ttl |-> Lesser(dns_cname_ttl_min(source.cnames), chain_ttl),
         aggregate |-> [target EXCEPT
             !.question_name = IF @ = NoName THEN source.question_name ELSE @,
             !.canonical_name = source.canonical_name,
             !.cnames = SubSeq(chain, 1, kept), !.rcode = source.rcode]]

dns_lookup_chain_append(target, source, chain_ttl) ==
    LET first == target.question_name = NoName
        chain == target.cnames \o source.cnames
        loops == \E i \in DOMAIN chain, j \in DOMAIN chain :
                     j < i /\ i > Len(target.cnames) /\ chain[j].owner = chain[i].target
        failed(status) == [status |-> status, aggregate |-> target, chain_ttl |-> chain_ttl]
    IN  IF ~first /\ ~dns_name_equal(target.canonical_name, source.question_name) THEN failed("MALFORMED")
        ELSE IF Len(source.cnames) > DNS_CNAME_DEPTH_LIMIT - Len(target.cnames) THEN failed("LIMIT")
        ELSE IF loops THEN failed("MALFORMED")
        ELSE [status |-> "OK",
              chain_ttl |-> Lesser(dns_cname_ttl_min(source.cnames), chain_ttl),
              aggregate |-> [target EXCEPT
                  !.question_name = IF first THEN source.question_name ELSE @,
                  !.canonical_name = source.canonical_name,
                  !.cnames = chain, !.rcode = source.rcode]]

dns_srv_lookup_chain_append(target, source, chain_ttl) == dns_lookup_chain_append(target, source, chain_ttl)

LookupStart(hostname) ==
    [query_name |-> hostname, aggregate |-> EmptyResult, chain_ttl |-> UINT32_MAX, status |-> "ASKING"]

LookupEnd(lookup, status, aggregate) ==
    [lookup EXCEPT !.status = status,
                   !.aggregate = IF dns_lookup_status_keeps_result(status) THEN aggregate ELSE EmptyResult]

\* Seeded fault: only the aliases of the last response bound its records.
BoundedByLast(records, chain_ttl) == records

\* The chain TTL bounds the effective TTLs of what the last response holds.
Bounded(records, chain_ttl) ==
    [i \in DOMAIN records |-> [records[i] EXCEPT !.effective_ttl = Lesser(chain_ttl, @)]]

BoundedNegative(negative, chain_ttl) ==
    IF negative.valid THEN [negative EXCEPT !.effective_ttl = Lesser(chain_ttl, @)] ELSE negative

\* What both lookups make of a parsed reply, joined to the chain so far.
LookupTurn(lookup, reply, parsed, status, joined) ==
    LET partial == parsed.result
    IN  IF reply.errno # "none" THEN LookupEnd(lookup, dns_query_exact(reply.errno), lookup.aggregate)
        ELSE IF parsed.status \notin {"OK", "ALIAS_ONLY", "NODATA", "NXDOMAIN"}
        THEN LookupEnd(lookup, status,
                IF lookup.aggregate.question_name = NoName THEN partial
                ELSE [lookup.aggregate EXCEPT !.rcode = partial.rcode])
        ELSE IF joined.status # "OK" THEN LookupEnd(lookup, joined.status, EmptyResult)
        ELSE IF parsed.status \in {"NODATA", "NXDOMAIN"}
        THEN LookupEnd(lookup, status,
                [joined.aggregate EXCEPT !.negative = BoundedNegative(partial.negative, joined.chain_ttl)])
        ELSE IF parsed.status = "OK"
        THEN LookupEnd(lookup, "OK",
                [joined.aggregate EXCEPT !.records = Bounded(partial.records, joined.chain_ttl)])
        ELSE [query_name |-> joined.aggregate.canonical_name, aggregate |-> joined.aggregate,
              chain_ttl |-> joined.chain_ttl, status |-> "ASKING"]

AddressTurn(lookup, reply, parsed) ==
    LookupTurn(lookup, reply, parsed, dns_lookup_parse_status(parsed.status, parsed.result.rcode),
               dns_lookup_chain_append(lookup.aggregate, parsed.result, lookup.chain_ttl))
dns_address_lookup(lookup, reply) ==
    AddressTurn(lookup, reply, dns_address_response_parse(reply.response, lookup.query_name))

SrvTurn(lookup, reply, parsed) ==
    LookupTurn(lookup, reply, parsed, dns_srv_lookup_parse_status(parsed.status, parsed.result.rcode),
               dns_srv_lookup_chain_append(lookup.aggregate, parsed.result, lookup.chain_ttl))
dns_srv_lookup(lookup, reply) ==
    SrvTurn(lookup, reply, dns_srv_response_parse(reply.response, lookup.query_name))
=============================================================================
