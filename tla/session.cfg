SPECIFICATION FairSpec
CONSTANTS
  c1 = c1
  NoCharacter = NoCharacter
  a1 = a1
  a2 = a2
  NoAddress = NoAddress
  Characters = {c1}
  Addresses = {a1, a2}
  Handles = {1, 2}
  Garbage = {0, 1}
  AllowMultipleSessionsPerCharacter = FALSE
  MaxSessions = 1
  MaxPlayers = 2
INVARIANTS TypeOK PlayerOwned OwnSession
PROPERTY LoginAgain
CHECK_DEADLOCK FALSE
