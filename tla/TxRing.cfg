SPECIFICATION FairSpec
CONSTANTS
  Tasks = {t1, t2, t3}
  Buffers = {b1, b2, b3}
  NoBuf = NoBuf
  Pairs = 3
  MaxWrites = 4
INVARIANTS TypeOK BuffersAccounted EngineReadsMapped IndicesAgree
PROPERTIES WritesAnswered EachSentOnce
CHECK_DEADLOCK FALSE
