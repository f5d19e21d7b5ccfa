CONSTANTS
  Hup = {"hup"}
  KernelBits = {"readable"}
  Spurious = FALSE
  WakerOutlivesPoll = FALSE
SPECIFICATION Spec
INVARIANT NoLostWakeup
