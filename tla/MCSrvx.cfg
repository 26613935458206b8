SPECIFICATION AllSpec
CONSTANTS
    Req = {r1, r2, r3}
    Auth = login
    NONE = NONE
    Query = {}
    NOQ = NOQ
    MaxAsync = 0
    Chan = {c1}
    MaxEvent = 3
    EventsMax = 2
    MaxFetch = 2
    MaxBreak = 1
    Account = {a1, a2}
    Nick = {n1}
    NOACCOUNT = NOACCOUNT
    MaxReq = 3
INVARIANTS RequestsSound ListsSound
PROPERTIES EveryRequestAnswered EveryEventStored FetchEnds
CHECK_DEADLOCK FALSE
