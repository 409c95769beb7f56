SPECIFICATION Spec
CONSTANTS
  Reqs = {r1}
  Workers = {w1, w2}
  NBLs <- SingleNBLs
  Bufs <- BatchBufs
  Buffers <- BatchBuffers
  Match <- BatchMatch
  Inbound <- SingleInbound
  DataLen <- BatchLen
  LenParams = {2}
  SizeParams = {1, 3}
  WorkMax = 1
  Modes = {"DIVERT", "SNIFF", "DROP"}
  May = {"nomem", "retreat", "inject", "service", "setparam"}
  Nil = Nil
SYMMETRY Symmetry
INVARIANTS
  OneFate
  SniffOnce
  EvictionHasVictim
  ListsBalanced
  IntactWhileOpen
  ReadInOrder
