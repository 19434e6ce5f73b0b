SPECIFICATION QueueFairSpec
CONSTANTS
  Threads = {game}
  ConnectionCount = 3
  SpuriousWakeups = FALSE
  MaxQueries = 2
  MaxFaults = 1
  Handles = {h1, h2}
  NoHandle = NoHandle
  game = game
  h1 = h1
  h2 = h2
INVARIANTS QueueTypeOK LockHeldByCallingThread NotificationNotMissed EventsOpen
PROPERTIES ImplementsDatabase AcceptedIsTaken EndThreadsReturns CallsReturn
CHECK_DEADLOCK FALSE
