CONSTANTS
  Hup = {"hup"}
  Tasks = {t1, t2}
  NoTask = NoTask
  MaxInbox = 1
  MaxSpace = 1
SPECIFICATION FairSpec
INVARIANTS TypeOK NoStranded ConnectTruthful StillPollable
PROPERTIES ConnectResolves Settles
CHECK_DEADLOCK FALSE
