CONSTANTS
  Callers = {c1, c2, c3}
  NoReactor = NoReactor
SPECIFICATION FairSpec
INVARIANTS TypeOK WeakCounted OneReactor NobodyStranded
PROPERTY StartedOrDropped
