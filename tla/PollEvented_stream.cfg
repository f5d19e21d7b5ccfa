CONSTANTS
  Hup = {"hup"}
  KernelBits = {"readable", "writable", "hup"}
  Spurious = TRUE
SPECIFICATION Spec
INVARIANT TypeOK
INVARIANT NoLostWakeup
PROPERTY ImplementsNotify
