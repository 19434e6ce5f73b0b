SPECIFICATION Spec
CONSTANTS
  Players = {p1, p2}
  Updaters = {p1}
INVARIANT FlushSurvives
CHECK_DEADLOCK FALSE
