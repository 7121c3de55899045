\* Two callers that write and seek, every failure.
CONSTANTS
  MAX = 1
  Blocks = {k1, k2, k3}
  NULL = NULL
  Threads = {t1, t2}
  a = a
  nl = nl
  Newline = nl
  Payloads <- FewStrings
  Counts <- FewReadSizes
  Seeks <- FewSeekArgs
  Offsets = {1}
  Calls = {"open", "write", "ioctl", "llseek"}
  Faults = {"kmalloc", "copy_user"}
  MaxPartial = 0
  MaxPos = 1
SPECIFICATION Spec
INVARIANTS MutualExclusion
PROPERTIES ImplementsDeviceLog EveryCallReturns
