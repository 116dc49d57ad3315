SPECIFICATION FairSpec
CONSTANTS
  Reqs = {r1, r2}
  NoReq = NoReq
  Cmds = {"read", "orphan", "onevent", "config", "offline", "flush", "write", "query"}
  EtherTypes = {"ipv4"}
  MaxBatch = 1
PROPERTIES
  AllAnswered
  AbortAnswered
  CommandsAnswered
