\* Two connections, every failure, and descriptors for one of them only.
CONSTANTS
  Connections = {c1, c2}
  Flagged = {c1}
  Fds = {0, 1, 2}
  Faults = {"start", "setup", "accept", "malloc", "pthread_create", "open", "recv", "realloc"}
SPECIFICATION Spec
CHECK_DEADLOCK FALSE
INVARIANTS TypeOK MutexOutlivesThreads OwnFiles
PROPERTIES ShutdownMovesOn OnlyClientsDelayShutdown
