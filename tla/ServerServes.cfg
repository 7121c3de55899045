\* Two connections whose clients may keep silent and need not read, and a signal.
CONSTANTS
  Connections = {c1, c2}
  Flagged = {c1}
  Fds = {0, 1, 2, 3, 4}
  Faults = {"recv"}
SPECIFICATION Spec
CHECK_DEADLOCK FALSE
INVARIANTS EndedHaveClosed
PROPERTIES SignalEndsLoop ClientAccepted LineAnswered
