SPECIFICATION FairSpec
CONSTANTS
    Conns = {c1}
    Casts <- ExchangeCasts
    Faults = {"reset", "release", "route", "peer", "stop"}
    LISTENER_WORKER_LIMIT = 1
    connection_limit = 1
    VARINT_T_MAXIDX = 2
    VARINT_T_LAST_MASK = 3
    PROTOHANDSHAKE_ADDRESSMAXLEN = 5
    PROTOHANDSHAKE_USERNAMEMAXLEN = 2
    LEGACY_FIELD_SIZE = 8
    PVERDB_R_1_20_1 = 6
    PVERDB_S_1_20_1_RC1 = 3
    PVERDB_SNAPBIT = 64
    BUFSIZ = 40
    ProxyHeader <- NoProxy
    ROUTE_ENDPOINT_TEXT_SIZE = 4
    PENDING_RESERVE = 3
    Script <- MCScript
    SOCKET_BYTES <- MCSockets
    RESPONSE_BYTES = 3
    LISTENER_SHORT_RELAY_BUFFER_BYTES = 3
    LISTENER_ACCEPT_BATCH = 2
    LISTENER_INITIAL_TIMEOUT_SEC = 2
    LISTENER_LEGACY_PING_GRACE_MS = 1
    LISTENER_ROUTE_WAIT_TIMEOUT_SEC = 1
    LISTENER_SHORT_CONNECT_TIMEOUT_SEC = 1
    LISTENER_SHORT_RELAY_IDLE_TIMEOUT_SEC = 2
    LISTENER_SHORT_LIFETIME_TIMEOUT_SEC = 5
    LISTENER_WORKER_REFUSAL_TIMEOUT_SEC = 1
    LATENESS = 1
CHECK_DEADLOCK FALSE
INVARIANT ExchangeIntact
INVARIANT EventsMissNothing
INVARIANT SettledOnce
PROPERTY IdleMeansIdle
PROPERTY CancellationWins
PROPERTY ConnectionsEnd
