CONSTANTS
  Threads = {t1, t2, t3}
  NumShards = 2
  NoThread = NoThread
SPECIFICATION FairSpec
INVARIANT TypeOK
INVARIANT IndicesKept
INVARIANT NoDeadlock
PROPERTY ImplementsRwLock
PROPERTY WriterGranted
