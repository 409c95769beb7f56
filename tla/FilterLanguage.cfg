SPECIFICATION PipelineSpec
CONSTANTS
  MaxLen = 4
  TokensMax = 22
  PoolMax = 21
  MaxDepth = 58
  WordMax = 2147483647
  Offers = {}
  Rewrites = {}
  Packets <- AllPackets
  Strings <- AllStrings
  Layers = {"NETWORK", "NETWORK_FORWARD"}
INVARIANTS
  TakesTheLanguage
  DriverTakes
  VerdictIsParsed
  EvalAgrees
  VerdictIsValue
