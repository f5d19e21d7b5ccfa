CONSTANTS
  Hup = {"hup"}
  KernelBits = {"readable", "writable", "error", "hup"}
  Spurious = TRUE
  WakerOutlivesPoll = TRUE
SPECIFICATION FairSpec
INVARIANT TypeOK
INVARIANT OnlyHangUpMissed
INVARIANT LockProtects
PROPERTY InnerSetOnce
PROPERTY FailureReported
