SPECIFICATION Spec
CONSTANTS
    alice = alice
    c1 = c1
    c2 = c2
    Users = {alice}
    Conns = {c1, c2}
    UserOf <- MCUserOf
    NoConn = NoConn
    Callers = {c1, c2}
    Msgs = {m}
    ErrorMsg = m
    SendCap = 1
    QueueCap = 1
    BroadcastCap = 0
INVARIANT OnlyActiveMapped
CHECK_DEADLOCK FALSE
