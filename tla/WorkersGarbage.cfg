\* end_of_packet holds what malloc left there.
CONSTANTS
  MAX = 1
  Blocks = {k1, k2, k3}
  NULL = NULL
  Threads = {w1}
  a = a
  nl = nl
  s01 = s01
  s50 = s50
  Newline = nl
  Payloads <- LetterPackets
  Chunks <- Letters
  Counts <- Reads
  ReadSize = 2
  Command <- Seekto
  Seeks = {}
  Offsets = {}
  Calls = {"open", "release", "read", "write", "ioctl"}
  Faults = {}
  Garbage = {TRUE, FALSE}
  MaxPartial = 0
  MaxPos = 0
  MaxPacket = 2
SYMMETRY Symmetry
SPECIFICATION WSpec
INVARIANTS AnswersPackets
