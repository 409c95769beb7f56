SPECIFICATION FairSpec
CONSTANTS
  h1 = h1
  h2 = h2
  Handles = {h1, h2}
  Packets = {p1}
  MaxLevel = 1
  Serials = 2
  MaxTTL = 2
  Setups <- FourSetups
  Others = TRUE
INVARIANTS
  NoneSkipped
PROPERTIES
  ImplementsRoute
  LoopsEnd
CHECK_DEADLOCK FALSE
