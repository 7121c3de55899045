\* Two callers that read to the end, one at a time if the lock works.
CONSTANTS
  MAX = 1
  Blocks = {k1, k2, k3}
  NULL = NULL
  Threads = {t1, t2}
  a = a
  nl = nl
  Newline = nl
  Payloads <- FewStrings
  Counts <- FewReadSizes
  Seeks <- FewSeekArgs
  Offsets = {1}
  Calls = {"open", "read", "write"}
  Faults = {}
  MaxPartial = 0
  MaxPos = 1
SPECIFICATION Spec
CHECK_DEADLOCK FALSE
INVARIANTS MutualExclusion
