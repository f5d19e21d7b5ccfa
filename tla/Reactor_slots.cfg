CONSTANTS
  Resources = {r1, r2}
  Fds = {f1, f2}
  MAX_SOURCES = 2
  Guards = 2
  MaxAdds = 4
SPECIFICATION FairSpec
INVARIANTS TypeOK OwnSlot GuardSeparates Armed SlotsAccounted
PROPERTIES EventKept Delivered
