\* Two callers in every function, every call of theirs that can fail.
CONSTANTS
  Callers = {c1, c2}
  Codes = {0, 1}
  Signals = {9}
  Faults = {"fork", "open", "dup2", "exec"}
SPECIFICATION Spec
INVARIANTS AnswersTellOutcome OutputInFile NothingIsLeft
PROPERTIES CallsReturn
