\* One caller whose fork fails.
CONSTANTS
  Callers = {c1}
  Codes = {0, 1}
  Signals = {9}
  Faults = {"fork"}
SPECIFICATION Spec
INVARIANTS ForkFailureIsToldOf
