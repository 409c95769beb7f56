SPECIFICATION FairSpec
CONSTANTS
  Reqs = {r1}
  Workers = {w1, w2}
  NBLs <- SingleNBLs
  Bufs <- SingleBufs
  Buffers <- SingleBuffers
  Match <- SingleBufs
  Inbound = {}
  DataLen <- UnitLen
  LenParams = {1, 2}
  SizeParams = {2}
  WorkMax = 2
  Modes = {"DIVERT"}
  May = {"cancel"}
  Nil = Nil
PROPERTIES
  CloseTerminates
  ListsReturned
  ReadersServed
