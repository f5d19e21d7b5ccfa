CONSTANTS
  Hup = {"hup"}
  KernelBits = {"readable", "writable", "hup"}
  Spurious = FALSE
  WakerOutlivesPoll = TRUE
SPECIFICATION Spec
INVARIANT HangUpReachesWriter
