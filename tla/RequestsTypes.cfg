SPECIFICATION Spec
CONSTANTS
  Reqs = {r1, r2}
  NoReq = NoReq
  Cmds = {"read", "online"}
  EtherTypes = {"ipx", "rarp"}
  MaxBatch = 1
INVARIANT ReadGetsItsType
