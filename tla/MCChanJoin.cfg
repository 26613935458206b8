SPECIFICATION AllSpec
CHECK_DEADLOCK FALSE
CONSTANTS
  reg = reg
  request = request
  Ref <- Refs
  Once = {request}
  MaxTries = 3
  HasCommand = TRUE
  MaxRejoins = 2
  MaxOut = 2
  Spy = reg
  first = first
  p1 = p1
  Peer = {p1, p2}
  Channel = {first, other}
  Address = {a1, a2}
  MaxUnread = 2
  MaxDrops = 1
  Shown = {first}
  MsgType = {"PRIVMSG", "JOIN"}
  Flags = {{"PRIVMSG"}}
INVARIANTS JoinsSound
PROPERTIES JoinEnds ImplementsJoinService
