SPECIFICATION Spec
CONSTANTS
  Clients = {c1, c2}
  Topics = {t1, t2}
  MaxCacheSize = 2
  MaxSequence = 3
SYMMETRY Symmetry
INVARIANTS
  IndexesAgree
  SubscribersAreFed
