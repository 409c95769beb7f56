SPECIFICATION System
CONSTANTS
  s1 = s1
  s2 = s2
  w1 = w1
  Starters = {s1, s2}
  Analysis <- OneEmpty
  May = {}
  Cleaner = Cleaner
  Nil = Nil
  Senders = {}
  Offers = {}
  MayFail = {}
INVARIANTS
  EmptyFilterStarts
