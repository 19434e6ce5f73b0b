SPECIFICATION FairSpec
CONSTANTS
  Tasks = {auth, margin, game}
  NoTask = NoTask
  ThreadCount = 2
INVARIANTS TypeOK TaskOnce
PROPERTY TaskStarts
CHECK_DEADLOCK FALSE
