SPECIFICATION FairSpec
CONSTANTS
    DNS_CNAME_DEPTH_LIMIT = 2
    DNS_RECORD_LIMIT = 6
    DNS_AUTHORITY_RECORD_LIMIT = 4
    UINT32_MAX = 99
    PAYLOAD_BYTES = 1
    CNAME_ARRAY_BYTES = 2
    RECORD_BYTES <- MCRecordBytes
    RESOLVER_CACHE_RESULT_BYTE_LIMIT = 7
    Query = {1}
    QueryType <- MCQueryType
    QueryName <- MCQueryName
    Zones <- MCZones
    Authorities <- MCAuthorities
    ErrorReplies <- MCErrorReplies
    Faults = {}
    SOCKET_PACKETS = 2
    BUDGET_BYTES = 1
    ASSEMBLY_BYTES = 1
    RESOLVER_REPLY_ASSEMBLY_BYTE_LIMIT = 11
INVARIANT AnswerMatchesZone
INVARIANT PartsAgree
PROPERTY LookupEnds
CHECK_DEADLOCK FALSE
