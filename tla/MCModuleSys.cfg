SPECIFICATION AllSpec
CONSTANTS
  ma = ma
  mb = mb
  mc = mc
  Name <- ABC
  Alias <- Pairs
  Depends <- Lists
  NULL = NULL
  bind = bind
  lists = lists
  auth = auth
  adm = adm
  usr = usr
  rul = rul
  n1 = n1
  n2 = n2
  n3 = n3
  Cmd = {bind, lists, auth}
  Owner <- CmdOwner
  KeepBound = {bind, auth}
  ExtRule = {lists}
  RuleMod = rul
  AdminMod = adm
  Bname = {n1, n2, n3}
  OwnName <- CmdName
  Spare <- CmdSpare
  NOBINDING = NOBINDING
  MaxText = 9
  Addr = {h1, h2}
  Query = {q1, q2}
  Client = {"google", "urbandict", "youtube", "tinyurl", "php", "bitly"}
  Asker = {u1, u2}
  Hook = u2
  MaxObjects = 3
INVARIANTS TablesSound CommandsAndLookupsSound
PROPERTIES OperationsComplete OperationsEnd
CHECK_DEADLOCK FALSE
