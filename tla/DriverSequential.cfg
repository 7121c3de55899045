\* One caller, every system call, every failure.
CONSTANTS
  MAX = 2
  Blocks = {k1, k2, k3, k4}
  NULL = NULL
  Threads = {t1}
  a = a
  nl = nl
  Newline = nl
  Payloads <- Strings
  Counts <- ReadSizes
  Seeks <- SeekArgs
  Offsets <- Moves
  Calls = {"open", "release", "read", "write", "ioctl", "llseek", "rmmod"}
  Faults = {"kmalloc", "copy_user", "cdev_add"}
  MaxPartial = 1
  MaxPos = 5
SYMMETRY BlockSymmetry
SPECIFICATION Spec
INVARIANTS TypeOK HeapExact ReadsAreContiguous SeekFindsCommand
PROPERTIES ImplementsDeviceLog HandlersEnd
