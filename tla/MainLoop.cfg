SPECIFICATION loopFairSpec
CONSTANTS
  Throttles = {TRUE, FALSE}
  \* the commands and signals that change the list of loop functions; the command that ends
  \* the loop; lines, and a connection that breaks
  Worlds = {{"rehash", "reload", "module", "HUP", "TERM"},
            {"reload", "module", "die"},
            {"rehash", "connection", "lines"}}
  Cost = {2}
  ShortCost = 2
  Credit = 2
  MaxQueue = 2
  MaxFuncs = 4
  MaxIdle = 2
  MaxStep = 1
  NoConf = NoConf
INVARIANTS LoopSound
PROPERTIES LoopServes QueueMoves
