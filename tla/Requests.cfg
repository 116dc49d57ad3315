SPECIFICATION Spec
CONSTANTS
  Reqs = {r1, r2, r3}
  NoReq = NoReq
  Cmds = {"read", "orphan", "onevent", "online", "offline", "flush"}
  EtherTypes = {"ipv4", "ipx"}
  MaxBatch = 1
SYMMETRY Symmetry
INVARIANTS
  TypeOK
  OnePlace
  ReadGetsItsList
PROPERTIES
  ContractKept
  InTurn
