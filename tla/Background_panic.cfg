CONSTANT Tasks = {"t1", "t2"}
SPECIFICATION FairSpec
PROPERTY DropReturns
