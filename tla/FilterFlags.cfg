SPECIFICATION Spec
CONSTANTS
  MaxLen = 2
  Offers <- FlagOffers
  Rewrites = {}
  Packets <- FlagPackets
INVARIANTS
  EvalTellsMatch
