SPECIFICATION AllSpec
CONSTANTS
    Songs = 2
    MaxQueue = 1
    Worlds <- MCWorlds
    NONE = NONE
    Nick = {n1, n2}
    NOMOD = NOMOD
    MaxAsked = 2
    HttpClient = {h1, h2}
    CmdSock = {s1}
    MaxTimers = 2
    DJ = {n1, n2}
    PLAYLIST = PLAYLIST
    MaxLines = 3
INVARIANTS PlaylistSound RadiobotSound
PROPERTIES MainReturns
CHECK_DEADLOCK FALSE
