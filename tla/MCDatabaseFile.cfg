SPECIFICATION AllSpec
CONSTANTS
    MaxChange = 3
    MaxCrash = 3
    Query = {q1, q2}
    NOQ = NOQ
    MaxAsync = 2
    Client = {c1, c2}
    NoClient = NoClient
    MaxRequest = 2
    Sid = {s1, s2}
    Memory = {m1, m2}
    User = {u1, u2}
    Ip = {ip1, ip2}
    NOBODY = NOBODY
    SessionTimeout = 2
INVARIANTS FileIsWhole Durable WebSound
PROPERTIES EveryChangeWritten DetachedAnswered
CHECK_DEADLOCK FALSE
