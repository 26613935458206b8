SPECIFICATION AllSpec
CONSTANTS
    u1 = u1
    u2 = u2
    u3 = u3
    n1 = n1
    n2 = n2
    n3 = n3
    g1 = g1
    c1 = c1
    c2 = c2
    c3 = c3
    m1 = m1
    ADMINS = ADMINS
    NONE = NONE
    NOPASS = NOPASS
    User <- MCUser
    Name <- MCName
    Group <- MCGroup
    Mask <- MCMask
    Matches <- MCMatches
    Chan <- MCChan
    MaxAccount = 4
    Worlds <- MCWorlds
    NReg = 2
    AopChan = {c1, c2, c3}
    NoChan = NoChan
    RNick = {u1, u2}
    RAccount = {n1, n2}
    NoAccount = NoAccount
    MaxAsked = 2
    MaxCleaners = 2
    Host = {h1, h2}
    BucketSize = 4
    Weight = 2
    GagTime = 4
    MaxClock = 7
INVARIANTS AccessSound ServicesSound
PROPERTIES RanksHold RestartPreserves
CHECK_DEADLOCK FALSE
