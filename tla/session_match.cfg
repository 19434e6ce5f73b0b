SPECIFICATION Spec
CONSTANTS
  c1 = c1
  NoCharacter = NoCharacter
  a1 = a1
  NoAddress = NoAddress
  Characters = {c1}
  Addresses = {a1}
  Handles = {1, 2}
  Garbage = {0}
  AllowMultipleSessionsPerCharacter = TRUE
  MaxSessions = 2
  MaxPlayers = 2
CHECK_DEADLOCK FALSE
INVARIANT MatchingSession
