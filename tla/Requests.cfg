SPECIFICATION FairSystem
CONSTANTS
  s1 = s1
  s2 = s2
  w1 = w1
  Starters = {s1, s2}
  Analysis <- TwoFilters
  May = {"register", "begin", "add", "commit", "undo_begin", "undo_delete",
         "undo_commit"}
  Cleaner = Cleaner
  Nil = Nil
  Senders = {w1}
  Offers <- SomeOffers
  MayFail = {"caller", "map", "data", "mdl", "nbl", "inject"}
INVARIANTS
  NoCalloutOutlivesHandle
  TransactionsEnd
  FailureUndone
  StartedAsConfigured
  AnsweredOnce
  MemoryFreedOnce
PROPERTIES
  CloseTerminates
