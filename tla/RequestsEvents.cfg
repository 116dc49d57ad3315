SPECIFICATION Spec
CONSTANTS
  Reqs = {r1, r2}
  NoReq = NoReq
  Cmds = {"onevent", "online"}
  EtherTypes = {"ipv4"}
  MaxBatch = 1
PROPERTY EventReachesWaiters
