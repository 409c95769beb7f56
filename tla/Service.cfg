SPECIFICATION FairSpec
CONSTANTS
  p1 = p1
  p2 = p2
  Openers <- MCOpeners
  Asked <- MCAsked
  Uses <- MCUses
  May <- Calls
  Stay <- MCStay
  MaxFlights = 1
  Nil = Nil
  Dead = Dead
INVARIANTS
  OpenedAsAsked
  SendersHaveResources
  PoolsOutliveFlights
  LoadUndone
  ServiceTemporary
  Uninstalled
PROPERTY
  OpenReturns
