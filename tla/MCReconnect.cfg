\* Two calls over three connections: a reconnection, a failed attempt, a close.
CONSTANTS
    c1 = c1
    c2 = c2
    Call = {c1, c2}
    Keepalive = TRUE
    MaxConnections = 3
SPECIFICATION Spec
INVARIANTS
    ConnectionsKept
PROPERTIES
    Settles
CHECK_DEADLOCK FALSE
