SPECIFICATION Spec
CONSTANTS
  c1 = c1
  NoCharacter = NoCharacter
  a1 = a1 a2 = a2
  NoAddress = NoAddress
  Characters = {c1}
  Addresses = {a1, a2}
  Handles = {1, 2}
  Garbage = {0}
  AllowMultipleSessionsPerCharacter = FALSE
  MaxSessions = 2
  MaxPlayers = 2
CHECK_DEADLOCK FALSE
INVARIANT OneClientPerCharacter
