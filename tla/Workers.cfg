\* Two connections on a device of one line, every failure.
CONSTANTS
  MAX = 1
  Blocks = {k1, k2, k3}
  NULL = NULL
  Threads = {w1, w2}
  a = a
  nl = nl
  s01 = s01
  s50 = s50
  Newline = nl
  Payloads <- PartPackets
  Chunks <- Parts
  Counts <- Reads
  ReadSize = 1
  Command <- Seekto
  Seeks = {}
  Offsets = {}
  Calls = {"open", "release", "read", "write", "ioctl"}
  Faults = {"kmalloc", "copy_user", "send", "recv", "realloc"}
  Garbage = {TRUE, FALSE}
  MaxPartial = 0
  MaxPos = 0
  MaxPacket = 2
SPECIFICATION WSpecReading
INVARIANTS CallsAreSerial MemorySound ReplyIsStream LockIsReleased OwnersGoOn
PROPERTIES PacketAnswered SectionsEnd CleanFlagsAnswerPackets
