SPECIFICATION FairSpec
CONSTANTS
  Players = {p1, p2}
  Updaters = {p1}
INVARIANTS TypeOK EveryoneSeen SpawnBeforeWorld
PROPERTIES ClientsCatchUp ImplementsPresence
CHECK_DEADLOCK FALSE
