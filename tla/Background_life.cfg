CONSTANT Tasks = {"t1", "t2"}
SPECIFICATION FairSpec
INVARIANTS TypeOK NoOrphans WakeupRemembered ShutdownNotified DropWaits
PROPERTIES ShutdownAdvances ShutdownEnds
