SPECIFICATION AllSpec
CONSTANTS
    tmrA = tmrA
    tmrB = tmrB
    c1 = c1
    n1 = n1
    n2 = n2
    n3 = n3
    Tag <- MCTag
    Delay <- MCDelay
    MaxTimers = 4
    MaxNow = 2
    TimerChan = {c1}
    TimerName = {n1, n2, n3}
    MaxUserTimers = 2
    MaxMsgLines = 3
INVARIANTS WalkSound UserTimersSound
PROPERTIES ImplementsTimerSpec EveryTimerServed
