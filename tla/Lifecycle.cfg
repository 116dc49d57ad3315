SPECIFICATION FairSpec
CONSTANTS
  PossibleForeign = {{"tx0", "rx0"}, {"tx0", "rx0", "tx1"}, {"tx0", "rx0", "rx1"}}
  Clients = {c1, c2}
  NTasks = 2
INVARIANTS
  TypeOK
  OthersKeepChannels
  NothingLeftBehind
  EngineMemoryHeld
  CountsAgree
  StartMsgAlive
  OneTaskPerOpenUnit
  HandlerSignalsLiveTask
  UnitOutlivesUsers
PROPERTIES
  OpensReturn
  ClosesReturn
  PromiseKept
CHECK_DEADLOCK FALSE
