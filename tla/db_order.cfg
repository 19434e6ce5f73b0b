SPECIFICATION Spec
CONSTANTS
  game = game
  margin = margin
  Threads <- ServerThreads
  ConnectionCount = 3
  SpuriousWakeups = TRUE
  MaxQueries = 3
  MaxFaults = 1
SYMMETRY ThreadSymmetry
INVARIANTS TypeOK NoLostWakeup AppliedInOrder LostOrRepeatedByFault ShortfallWaits ExecutorGoneBeforeClose
PROPERTY WritesInOrder
CHECK_DEADLOCK FALSE
