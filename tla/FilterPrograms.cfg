SPECIFICATION Spec
CONSTANTS
  MaxLen = 4
  Offers <- LayerOffers
  Rewrites <- LayerRewrites
  Packets <- LayerPackets
INVARIANTS
  EvaluationSafe
  AnalysisSound
