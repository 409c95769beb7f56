SPECIFICATION Spec
CONSTANTS
  Reqs = {r1, r2}
  Workers = {w1, w2}
  NBLs <- TripleNBLs
  Bufs <- TripleBufs
  Buffers <- TripleBuffers
  Match <- TripleMatch
  Inbound <- SingleInbound
  DataLen <- TripleLen
  LenParams = {1, 2}
  SizeParams = {3}
  WorkMax = 1
  Modes = {"DIVERT"}
  May = {"timeout", "forward", "cancel", "setparam"}
  Nil = Nil
SYMMETRY Symmetry
INVARIANTS
  TypeOK
  NoLostWakeup
  RequestCompletedOnce
  NoUseAfterDelete
  CountersAgree
  NothingLeftBehind
PROPERTIES
  ImplementsHandle
