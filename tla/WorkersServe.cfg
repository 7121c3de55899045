\* More connections than the device keeps lines, no failures.
CONSTANTS
  MAX = 2
  Blocks = {k1, k2, k3, k4}
  NULL = NULL
  Threads = {w1, w2, w3}
  a = a
  nl = nl
  s01 = s01
  s50 = s50
  Newline = nl
  Payloads <- RequestPackets
  Chunks <- Requests
  Counts <- Reads
  ReadSize = 2
  Command <- Seekto
  Seeks = {}
  Offsets = {}
  Calls = {"open", "release", "read", "write", "ioctl"}
  Faults = {}
  Garbage = {FALSE}
  MaxPartial = 0
  MaxPos = 0
  MaxPacket = 2
SYMMETRY Symmetry
SPECIFICATION WSpec
INVARIANTS OwnLineReturned WholeLines
PROPERTIES ImplementsLineServer
