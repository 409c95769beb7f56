SPECIFICATION Spec
CONSTANTS
  MaxLen = 2
  Offers <- ChecksumOffers
  Rewrites = {}
  Packets <- ChecksumPackets
INVARIANTS
  AbsentChecksumsZero
