CONSTANTS
  Hup = {"hup"}
  KernelBits = {"readable"}
  Spurious = TRUE
  WakerOutlivesPoll = TRUE
SPECIFICATION Spec
INVARIANT NoPanic
