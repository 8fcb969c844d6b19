SPECIFICATION Spec
CONSTANTS
    VARINT_T_MAXIDX = 2
    VARINT_T_LAST_MASK = 3
    PROTOHANDSHAKE_ADDRESSMAXLEN = 5
    PROTOHANDSHAKE_USERNAMEMAXLEN = 2
    LEGACY_FIELD_SIZE = 8
    PVERDB_R_1_20_1 = 6
    PVERDB_S_1_20_1_RC1 = 3
    PVERDB_SNAPBIT = 64
    BUFSIZ = 24
    ProxyHeader <- ProxyLine
    ROUTE_ENDPOINT_TEXT_SIZE = 5
    PENDING_RESERVE = 3
    NET_RELAY_BUFFER_BYTES = 34
    SOCKET_BYTES = 24
    Faults = {"reset", "system"}
    Cases <- MarkerCases
    Kick <- MCKick
CHECK_DEADLOCK FALSE
INVARIANT StreamIntact
