CONSTANTS
  Hup = {"hup"}
  KernelBits = {"readable", "error"}
  Spurious = FALSE
SPECIFICATION FairSpec
PROPERTY Served
PROPERTY ClearedTaskRests
