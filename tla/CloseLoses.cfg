SPECIFICATION Spec
CONSTANTS
  Reqs = {r1}
  Workers = {w1}
  NBLs <- SingleNBLs
  Bufs <- BatchBufs
  Buffers <- BatchBuffers
  Match <- BatchMatch
  Inbound = {}
  DataLen <- BatchLen
  LenParams = {2}
  SizeParams = {4}
  WorkMax = 2
  Modes = {"DIVERT"}
  May = {}
  Nil = Nil
SYMMETRY Symmetry
INVARIANTS
  QueuedPacketsSurviveClose
